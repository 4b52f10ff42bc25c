---------------------------- MODULE RetentionProofs ----------------------------
(***************************************************************************)
(* Proofs about what a registry may forget: the retention report and the   *)
(* registry observer.                                                      *)
(*                                                                         *)
(* Part 1 is about Retention, for every set of images, every floor and     *)
(* limits and any number of deliveries, publications, holds and events.    *)
(*                                                                         *)
(* Part 2 is about RegistryObservation, for every set of objects, tags and *)
(* limits, every order in which objects come and go while they are read,   *)
(* and any number of observations, deaths and changes.                     *)
(***************************************************************************)
EXTENDS Retention, RegistryObservation, FiniteSetTheorems, SequenceTheorems, TLAPS

(***************************************************************************)
(* Part 1: the retention report                                            *)
(***************************************************************************)

-----------------------------------------------------------------------------
(***************************************************************************)
(* Types                                                                   *)
(***************************************************************************)
Kinds == {"BUILD", "EXISTING", "RELEASE", "PROMOTION", "ACTIVATION", "RESTORATION"}
Stages == {"PREFLIGHT", "BUILD_LOOKUP", "INSPECT", "APPLY", "APPLY_UNCERTAIN",
           "WAIT_GITOPS_PR", "WAIT_RUNTIME", "ENDED"}
SomeImage == Images \union {None}
Contents == [image : Images, head : Nat]
Ops == [kind : Kinds, status : {"PENDING", "RUNNING", "SUCCEEDED", "FAILED"}, phase : Stages,
        image : SomeImage, origin : Nat, run : BOOLEAN, base : Contents \union {NoBase},
        made : SomeImage, at : Nat, write : {"none", "sent", "open", "landed", "closed"},
        pr : BOOLEAN, hold : Nat]
JobRecords == [image : Images, pushed : BOOLEAN, at : Nat, reconciled : BOOLEAN,
         status : {"QUEUED", "SUCCEEDED", "CANCELLED", "RECONCILIATION_REQUIRED"}]
Holds == [original : SomeImage, state : {"HELD", "RELEASED", "RESTORED"}]
Rows == [image : Images, origin : Nat, run : BOOLEAN]

RecordsTyped ==
    /\ clock \in Nat /\ policy \in Nat /\ desired \in Nat /\ events \in Nat
    /\ runs \subseteq [op : Nat, image : Images, at : Nat]
    /\ rows \subseteq Rows /\ IsFiniteSet(rows)
    /\ jobs \in Seq(JobRecords)
    /\ observed \subseteq Nat
    /\ snapshots \subseteq Products \X Images
    /\ releases \in Seq([op : Nat, image : Images])

TypeOK ==
    /\ file \in [Envs -> Contents]
    /\ ops \in Seq(Ops)
    /\ holds \in Seq(Holds)
    /\ replaced \subseteq Images
    /\ RecordsTyped

-----------------------------------------------------------------------------
(***************************************************************************)
(* The inductive invariant                                                 *)
(***************************************************************************)
FileOf(o) == file[EnvOf(o.kind)]

\* Only a build that has not come to its image, or never did, has none.
ImageKnown(o) ==
    o.image = None => /\ o.kind \in {"BUILD", "RELEASE"} /\ o.write = "none"
                      /\ o.phase \in {"PREFLIGHT", "BUILD_LOOKUP"} \/ o.status = "FAILED"

\* How far an operation is and what became of its write.
WriteOK(o) ==
    /\ o.phase = "ENDED" <=> o.status \in {"SUCCEEDED", "FAILED"}
    /\ o.phase \in {"PREFLIGHT", "BUILD_LOOKUP", "INSPECT", "APPLY"} => o.write = "none"
    /\ o.phase = "APPLY_UNCERTAIN" => o.write \in {"sent", "landed"}
    /\ o.phase = "WAIT_RUNTIME" \/ o.status = "SUCCEEDED" => o.write \in {"none", "sent", "landed"}
    /\ o.kind = "RELEASE" => o.write = "none"

\* A file never returns to the head that a write was made for: once it has
\* moved, or an operation ended because the image was already there, the write
\* of that operation that was not proposed cannot land.
BaseOK(o) ==
    o.write # "none" =>
       /\ o.base \in Contents
       /\ o.base.head <= FileOf(o).head
       /\ o.base.head = FileOf(o).head => o.base = FileOf(o)
       /\ o.write \in {"sent", "open"} => o.base.image # o.image
       /\ o.write = "sent" /\ (o.phase = "WAIT_RUNTIME" \/ o.status = "SUCCEEDED")
            => o.base.head < FileOf(o).head

\* A hold with an activation knows its baseline, and is settled only when
\* nothing that was proposed for it can still be merged.
HoldOK(o) ==
    o.kind \in {"ACTIVATION", "RESTORATION"} =>
       /\ o.hold \in 1 .. Len(holds)
       /\ holds[o.hold].original \in Images
       /\ holds[o.hold].state = "RESTORED" => o.phase = "ENDED" /\ o.write \notin {"sent", "open"}

OpOK(o) == ImageKnown(o) /\ WriteOK(o) /\ BaseOK(o) /\ HoldOK(o)

\* What was replaced is the base that some write of a delivery was made for.
ReplacedOK ==
    \A x \in replaced : \E i \in 1 .. Len(ops) :
        ops[i].kind # "RESTORATION" /\ ops[i].write # "none" /\ ops[i].base.image = x

Inv ==
    /\ TypeOK
    /\ \A i \in 1 .. Len(ops) : OpOK(ops[i])
    /\ ReplacedOK
-----------------------------------------------------------------------------
(***************************************************************************)
(* The parts of a state                                                    *)
(***************************************************************************)
LEMMA NoneIsNoImage == First \in Images /\ None \notin Images
  BY RetentionAssumption

LEMMA EnvIs ==
    ASSUME NEW kind \in Kinds
    PROVE  /\ EnvOf(kind) \in Envs /\ ProductOf(EnvOf(kind)) \in Products
           /\ kind \in {"ACTIVATION", "RESTORATION"} <=> ProductOf(EnvOf(kind)) = "native"
  BY DEF Kinds, EnvOf, Envs, ProductOf, Products

LEMMA OpsAre ==
    ASSUME Inv
    PROVE  /\ ops \in Seq(Ops) /\ Len(ops) \in Nat /\ DOMAIN ops = 1 .. Len(ops)
           /\ \A i \in DOMAIN ops : ops[i] \in Ops /\ OpOK(ops[i]) /\ i \in Nat
           /\ holds \in Seq(Holds) /\ Len(holds) \in Nat /\ DOMAIN holds = 1 .. Len(holds)
           /\ \A h \in DOMAIN holds : holds[h] \in Holds /\ h \in Nat
           /\ file \in [Envs -> Contents]
  <1>1. ops \in Seq(Ops) /\ holds \in Seq(Holds) /\ file \in [Envs -> Contents]
    BY DEF Inv, TypeOK
  <1>2. Len(ops) \in Nat /\ DOMAIN ops = 1 .. Len(ops) /\ Len(holds) \in Nat /\ DOMAIN holds = 1 .. Len(holds)
    BY <1>1, LenProperties
  <1>3. \A i \in DOMAIN ops : ops[i] \in Ops /\ i \in Nat
    BY <1>1, <1>2, ElementOfSeq
  <1>4. \A h \in DOMAIN holds : holds[h] \in Holds /\ h \in Nat
    BY <1>1, <1>2, ElementOfSeq
  <1> QED
    BY <1>1, <1>2, <1>3, <1>4 DEF Inv

LEMMA RecordsAre ==
    ASSUME Inv
    PROVE  /\ RecordsTyped
           /\ jobs \in Seq(JobRecords) /\ DOMAIN jobs = 1 .. Len(jobs) /\ Len(jobs) \in Nat
           /\ \A j \in DOMAIN jobs : jobs[j] \in JobRecords
           /\ releases \in Seq([op : Nat, image : Images])
           /\ DOMAIN releases = 1 .. Len(releases) /\ Len(releases) \in Nat
           /\ \A n \in DOMAIN releases : releases[n] \in [op : Nat, image : Images]
  <1>1. RecordsTyped /\ jobs \in Seq(JobRecords) /\ releases \in Seq([op : Nat, image : Images])
    BY DEF Inv, TypeOK, RecordsTyped
  <1>2. /\ DOMAIN jobs = 1 .. Len(jobs) /\ Len(jobs) \in Nat
        /\ DOMAIN releases = 1 .. Len(releases) /\ Len(releases) \in Nat
    BY <1>1, LenProperties
  <1>3. \A j \in DOMAIN jobs : jobs[j] \in JobRecords
    BY <1>1, <1>2, ElementOfSeq
  <1>4. \A n \in DOMAIN releases : releases[n] \in [op : Nat, image : Images]
    BY <1>1, <1>2, ElementOfSeq
  <1> QED
    BY <1>1, <1>2, <1>3, <1>4

LEMMA FileIs ==
    ASSUME Inv, NEW o \in Ops
    PROVE  FileOf(o) \in Contents /\ FileOf(o).image \in Images /\ FileOf(o).head \in Nat
  BY OpsAre, EnvIs DEF Ops, FileOf, Contents

-----------------------------------------------------------------------------
(***************************************************************************)
(* What a step leaves as it is                                             *)
(***************************************************************************)

\* A step on the records that no operation, hold or file depends on.
LEMMA RecordsStep ==
    ASSUME Inv, UNCHANGED <<file, ops, holds, replaced>>, RecordsTyped'
    PROVE  Inv'
  BY DEF Inv, TypeOK, OpOK, ImageKnown, WriteOK, BaseOK, HoldOK, FileOf, ReplacedOK

LEMMA SameRecords ==
    ASSUME Inv, UNCHANGED <<clock, runs, rows, jobs, observed, snapshots, releases, policy, desired, events>>
    PROVE  RecordsTyped'
  BY DEF Inv, TypeOK, RecordsTyped

\* A step on one operation, which keeps its base once it has a write.
LEMMA OpStep ==
    ASSUME Inv, NEW i \in DOMAIN ops, NEW o \in Ops, ops' = [ops EXCEPT ![i] = o],
           UNCHANGED <<file, holds, replaced>>, RecordsTyped',
           OpOK(o), o.kind = ops[i].kind,
           ops[i].write # "none" => o.write # "none" /\ o.base = ops[i].base
    PROVE  Inv'
  <1>1. /\ ops' \in Seq(Ops) /\ Len(ops') = Len(ops) /\ ops'[i] = o
        /\ \A j \in DOMAIN ops : j # i => ops'[j] = ops[j]
    BY OpsAre, ExceptSeq
  <1>2. \A p \in Ops : OpOK(p) => OpOK(p)'
    BY DEF OpOK, ImageKnown, WriteOK, BaseOK, HoldOK, FileOf
  <1>3. ASSUME NEW j \in 1 .. Len(ops') PROVE OpOK(ops[j])'
    <2>1. PICK p : p = ops'[j] /\ p \in Ops /\ OpOK(p)
      BY <1>1, OpsAre
    <2>2. OpOK(p)'
      BY <1>2, <2>1
    <2> QED
      BY <2>1, <2>2 DEF OpOK, ImageKnown, WriteOK, BaseOK, HoldOK, FileOf
  <1>4. (\A j \in 1 .. Len(ops) : OpOK(ops[j]))'
    BY <1>3
  <1>5. ReplacedOK'
    <2>1. ASSUME NEW x \in replaced
          PROVE  \E j \in 1 .. Len(ops') : ops'[j].kind # "RESTORATION" /\ ops'[j].write # "none" /\ ops'[j].base.image = x
      <3>1. PICK j \in 1 .. Len(ops) : ops[j].kind # "RESTORATION" /\ ops[j].write # "none" /\ ops[j].base.image = x
        BY DEF Inv, ReplacedOK
      <3> QED
        BY <1>1, <3>1, OpsAre
    <2> QED
      BY <2>1 DEF ReplacedOK
  <1> QED
    BY <1>1, <1>4, <1>5 DEF Inv, TypeOK

\* A new operation.
LEMMA AdmitStep ==
    ASSUME Inv, NEW o \in Ops, ops' = Append(ops, o),
           UNCHANGED <<file, holds, replaced>>, RecordsTyped', OpOK(o)
    PROVE  Inv'
  <1>1. /\ ops' \in Seq(Ops) /\ Len(ops') = Len(ops) + 1 /\ ops'[Len(ops) + 1] = o
        /\ \A j \in DOMAIN ops : ops'[j] = ops[j]
    BY OpsAre, AppendProperties
  <1>2. \A p \in Ops : OpOK(p) => OpOK(p)'
    BY DEF OpOK, ImageKnown, WriteOK, BaseOK, HoldOK, FileOf
  <1>3. \A j \in 1 .. Len(ops') : j \in DOMAIN ops \/ j = Len(ops) + 1
    BY <1>1, OpsAre
  <1>4. ASSUME NEW j \in 1 .. Len(ops') PROVE OpOK(ops[j])'
    <2>1. PICK p : p = ops'[j] /\ p \in Ops /\ OpOK(p)
      BY <1>1, <1>3, OpsAre
    <2>2. OpOK(p)'
      BY <1>2, <2>1
    <2> QED
      BY <2>1, <2>2 DEF OpOK, ImageKnown, WriteOK, BaseOK, HoldOK, FileOf
  <1>5. (\A j \in 1 .. Len(ops) : OpOK(ops[j]))'
    BY <1>4
  <1>6. ReplacedOK'
    <2>1. \A j \in 1 .. Len(ops) : j \in 1 .. Len(ops') /\ ops'[j] = ops[j]
      BY <1>1, OpsAre
    <2> QED
      BY <2>1 DEF Inv, ReplacedOK
  <1> QED
    BY <1>1, <1>5, <1>6 DEF Inv, TypeOK

\* The holds only grow; a baseline that is known stays, and a hold is settled
\* only when nothing of it is left to merge.
LEMMA HoldsStep ==
    ASSUME Inv, UNCHANGED <<file, ops, replaced>>, RecordsTyped',
           holds' \in Seq(Holds), Len(holds') >= Len(holds),
           \A h \in DOMAIN holds :
              /\ holds[h].original \in Images => holds'[h].original = holds[h].original
              /\ holds'[h].state = "RESTORED" => holds[h].state = "RESTORED" \/ EffectsSettled(h)
    PROVE  Inv'
  <1>1. Len(holds') \in Nat
    BY LenProperties
  <1>2. ASSUME NEW i \in DOMAIN ops PROVE HoldOK(ops[i])'
    <2>1. HoldOK(ops[i]) /\ WriteOK(ops[i]) /\ ops[i] \in Ops /\ ops' = ops
      BY OpsAre DEF OpOK
    <2>2. ASSUME ops[i].kind \in {"ACTIVATION", "RESTORATION"}
          PROVE  /\ ops[i].hold \in 1 .. Len(holds') /\ holds'[ops[i].hold].original \in Images
                 /\ holds'[ops[i].hold].state = "RESTORED"
                      => ops[i].phase = "ENDED" /\ ops[i].write \notin {"sent", "open"}
      <3>1. /\ ops[i].hold \in DOMAIN holds /\ holds[ops[i].hold].original \in Images
            /\ holds[ops[i].hold].state = "RESTORED"
                      => ops[i].phase = "ENDED" /\ ops[i].write \notin {"sent", "open"}
        BY <2>1, <2>2, OpsAre DEF HoldOK
      <3>2. Owner(i) = "native"
        BY <2>1, <2>2, EnvIs DEF Owner, Ops
      <3>3. EffectsSettled(ops[i].hold) => ops[i].phase = "ENDED" /\ ops[i].write \notin {"sent", "open"}
        BY <2>1, <3>2 DEF EffectsSettled, Live, WriteOK, Ops
      <3> QED
        BY <1>1, <3>1, <3>3, OpsAre
    <2> QED
      BY <2>1, <2>2 DEF HoldOK
  <1>3. \A i \in DOMAIN ops : OpOK(ops[i])'
    BY <1>2, OpsAre DEF OpOK, ImageKnown, WriteOK, BaseOK, FileOf
  <1> QED
    BY <1>3, OpsAre DEF Inv, TypeOK, ReplacedOK

\* A file moves on.
LEMMA FileStays ==
    ASSUME Inv, NEW env \in Envs, NEW x \in Images,
           file' = [file EXCEPT ![env] = [image |-> x, head |-> @.head + 1]],
           NEW o \in Ops, BaseOK(o)
    PROVE  BaseOK(o)' /\ (EnvOf(o.kind) = env /\ o.write # "none" => o.base.head < file'[env].head)
  <1>1. file[env] \in Contents /\ FileOf(o) \in Contents /\ file \in [Envs -> Contents] /\ EnvOf(o.kind) \in Envs
    BY OpsAre, EnvIs DEF FileOf, Ops
  <1>2. PICK b : b = [image |-> x, head |-> file[env].head + 1]
    OBVIOUS
  <1>3. b \in Contents /\ b.head = file[env].head + 1 /\ file[env].head \in Nat /\ FileOf(o).head \in Nat
    BY <1>1, <1>2 DEF Contents
  <1>4. file' = [file EXCEPT ![env] = b]
    BY <1>1, <1>2
  <1>5. file'[env] = b /\ \A e \in Envs : e # env => file'[e] = file[e]
    BY <1>1, <1>4
  <1>6. CASE EnvOf(o.kind) = env
    <2>1. FileOf(o) = file[env] /\ FileOf(o)' = b
      BY <1>5, <1>6 DEF FileOf
    <2>2. o.write # "none" => o.base \in Contents /\ o.base.head <= file[env].head
      BY <2>1 DEF BaseOK
    <2>3. o.write # "none" => o.base.head \in Nat
      BY <2>2 DEF Contents
    <2>4. o.write # "none" => o.base.head < b.head
      BY <1>3, <2>2, <2>3
    <2> QED
      BY <1>3, <1>5, <2>1, <2>2, <2>3, <2>4 DEF BaseOK
  <1>7. CASE EnvOf(o.kind) # env
    <2>1. FileOf(o)' = FileOf(o)
      BY <1>1, <1>5, <1>7 DEF FileOf
    <2> QED
      BY <1>7, <2>1 DEF BaseOK
  <1> QED
    BY <1>6, <1>7

LEMMA ForeignCommitStep ==
    ASSUME Inv, NEW env \in Envs, NEW x \in Images, ForeignCommit(env, x)
    PROVE  Inv'
  <1> USE DEF ForeignCommit, Event
  <1>1. file' \in [Envs -> Contents]
    <2>1. [image |-> x, head |-> file[env].head + 1] \in Contents
      BY OpsAre DEF Contents
    <2> QED
      BY <2>1, OpsAre
  <1>2. \A i \in DOMAIN ops : BaseOK(ops[i])'
    <2>1. \A o \in Ops : BaseOK(o) => BaseOK(o)'
      BY FileStays
    <2> QED
      BY <2>1, OpsAre DEF OpOK, BaseOK, FileOf
  <1>3. \A i \in DOMAIN ops : OpOK(ops[i])'
    BY <1>2, OpsAre DEF OpOK, ImageKnown, WriteOK, HoldOK
  <1>4. RecordsTyped'
    BY DEF Inv, TypeOK, RecordsTyped
  <1> QED
    BY <1>1, <1>3, <1>4, OpsAre DEF Inv, TypeOK, ReplacedOK

-----------------------------------------------------------------------------
(***************************************************************************)
(* New operations                                                          *)
(***************************************************************************)
LEMMA NewOpIs ==
    ASSUME Inv, NEW kind \in Kinds, NEW image \in SomeImage, NEW origin \in Nat, NEW run \in BOOLEAN,
           NEW hold \in Nat, image = None => kind \in {"BUILD", "RELEASE"},
           kind \in {"ACTIVATION", "RESTORATION"} =>
              hold \in DOMAIN holds /\ holds[hold].original \in Images /\ holds[hold].state = "HELD"
    PROVE  LET o == NewOp(kind, image, origin, run, hold) IN o \in Ops /\ OpOK(o)
  <1> DEFINE o == NewOp(kind, image, origin, run, hold)
  <1>1. o \in Ops
    BY DEF NewOp, Ops, Stages, SomeImage, NoBase
  <1>2. /\ o.kind = kind /\ o.image = image /\ o.status = "PENDING" /\ o.phase = "PREFLIGHT"
        /\ o.write = "none" /\ o.hold = hold
    BY DEF NewOp
  <1> HIDE DEF o
  <1>3. OpOK(o)
    BY <1>2, OpsAre DEF OpOK, ImageKnown, WriteOK, BaseOK, HoldOK
  <1> QED
    BY <1>1, <1>3 DEF o

LEMMA DeliverStep ==
    ASSUME Inv, NEW kind \in {"BUILD", "RELEASE"}, deliver(kind)
    PROVE  Inv'
  <1> USE DEF deliver, Admit
  <1>1. PICK o : o = NewOp(kind, None, Len(ops) + 1, FALSE, 0)
    OBVIOUS
  <1>2. Len(ops) + 1 \in Nat /\ kind \in Kinds /\ None \in SomeImage
    BY OpsAre DEF Kinds, SomeImage
  <1>3. o \in Ops /\ OpOK(o)
    BY <1>1, <1>2, NewOpIs
  <1>4. RecordsTyped'
    BY SameRecords DEF Rest
  <1> QED
    BY <1>1, <1>3, <1>4, AdmitStep DEF Rest

LEMMA ExistingStep ==
    ASSUME Inv, NEW a \in rows, deployExisting(a)
    PROVE  Inv'
  <1> USE DEF deployExisting, Admit
  <1>1. PICK o : o = NewOp("EXISTING", a.image, a.origin, TRUE, 0)
    OBVIOUS
  <1>2. a.image \in SomeImage /\ a.image # None /\ a.origin \in Nat /\ "EXISTING" \in Kinds
    BY NoneIsNoImage DEF Inv, TypeOK, RecordsTyped, Rows, SomeImage, Kinds
  <1>3. o \in Ops /\ OpOK(o)
    BY <1>1, <1>2, NewOpIs
  <1>4. RecordsTyped'
    BY SameRecords DEF Rest
  <1> QED
    BY <1>1, <1>3, <1>4, AdmitStep DEF Rest

LEMMA PromoteStep ==
    ASSUME Inv, NEW c \in DOMAIN ops, promote(c)
    PROVE  Inv'
  <1> USE DEF promote, Admit
  <1>1. PICK o : o = NewOp("PROMOTION", ops[c].image, c, TRUE, c)
    OBVIOUS
  <1>2. ops[c] \in Ops /\ OpOK(ops[c]) /\ c \in Nat /\ Len(ops) + 1 \in Nat
    BY OpsAre
  <1>3. ops[c].image \in SomeImage /\ ops[c].image # None /\ "PROMOTION" \in Kinds
    BY <1>2 DEF Ops, OpOK, ImageKnown, WriteOK, Kinds
  <1>4. o \in Ops /\ OpOK(o)
    BY <1>1, <1>2, <1>3, NewOpIs
  <1>5. RecordsTyped'
    BY <1>2 DEF Inv, TypeOK, RecordsTyped
  <1> QED
    BY <1>1, <1>4, <1>5, AdmitStep

LEMMA ActivateStep ==
    ASSUME Inv, NEW h \in DOMAIN holds, NEW j \in DOMAIN jobs, activate(h, j)
    PROVE  Inv'
  <1> USE DEF activate, Admit
  <1>1. PICK o : o = NewOp("ACTIVATION", jobs[j].image, 0, FALSE, h)
    OBVIOUS
  <1>2. jobs[j].image \in Images /\ h \in Nat /\ "ACTIVATION" \in Kinds /\ holds[h].original \in Images
    BY OpsAre, RecordsAre DEF JobRecords, Holds, SomeImage, Kinds
  <1>3. jobs[j].image \in SomeImage /\ jobs[j].image # None
    BY <1>2, NoneIsNoImage DEF SomeImage
  <1>4. o \in Ops /\ OpOK(o)
    BY <1>1, <1>2, <1>3, NewOpIs
  <1>5. RecordsTyped'
    BY SameRecords DEF Rest
  <1> QED
    BY <1>1, <1>4, <1>5, AdmitStep DEF Rest

\* A hold that was activated has its baseline.
LEMMA ActivatedHold ==
    ASSUME Inv, NEW h \in DOMAIN holds, Activated(h)
    PROVE  holds[h].original \in Images
  BY OpsAre DEF Activated, OpOK, HoldOK

LEMMA RestoreStep ==
    ASSUME Inv, NEW h \in DOMAIN holds, restore(h)
    PROVE  Inv'
  <1> USE DEF restore, Admit
  <1>1. PICK o : o = NewOp("RESTORATION", holds[h].original, 0, FALSE, h)
    OBVIOUS
  <1>2. holds[h].original \in Images /\ h \in Nat /\ "RESTORATION" \in Kinds
    BY ActivatedHold, OpsAre DEF Kinds
  <1>3. holds[h].original \in SomeImage /\ holds[h].original # None
    BY <1>2, NoneIsNoImage DEF SomeImage
  <1>4. o \in Ops /\ OpOK(o)
    BY <1>1, <1>2, <1>3, NewOpIs
  <1>5. RecordsTyped'
    BY SameRecords DEF Rest
  <1> QED
    BY <1>1, <1>4, <1>5, AdmitStep DEF Rest

-----------------------------------------------------------------------------
(***************************************************************************)
(* Steps of an operation                                                   *)
(***************************************************************************)

\* An operation ends: its write stays what it is.
LEMMA EndIs ==
    ASSUME Inv, NEW i \in DOMAIN ops, NEW status \in {"SUCCEEDED", "FAILED"}, End(i, status)
    PROVE  \E o \in Ops :
              /\ ops' = [ops EXCEPT ![i] = o]
              /\ o.status = status /\ o.phase = "ENDED" /\ o.kind = ops[i].kind /\ o.image = ops[i].image
              /\ o.base = ops[i].base /\ o.write = ops[i].write /\ o.hold = ops[i].hold
  <1>1. PICK o : o = [ops[i] EXCEPT !.status = status, !.phase = "ENDED", !.made = None, !.at = 0]
    OBVIOUS
  <1>2. ops[i] \in Ops
    BY OpsAre
  <1>3. /\ o \in Ops
        /\ o.status = status /\ o.phase = "ENDED" /\ o.kind = ops[i].kind /\ o.image = ops[i].image
        /\ o.base = ops[i].base /\ o.write = ops[i].write /\ o.hold = ops[i].hold
    BY <1>1, <1>2 DEF Ops, Stages, SomeImage
  <1>4. ops' = [ops EXCEPT ![i] = o]
    BY <1>1, <1>2 DEF End, Ops
  <1> QED
    BY <1>3, <1>4

LEMMA FailStep ==
    ASSUME Inv, NEW i \in DOMAIN ops, Live(i), End(i, "FAILED"),
           UNCHANGED <<file, holds, replaced>>, RecordsTyped'
    PROVE  Inv'
  <1>1. PICK o \in Ops :
              /\ ops' = [ops EXCEPT ![i] = o]
              /\ o.status = "FAILED" /\ o.phase = "ENDED" /\ o.kind = ops[i].kind /\ o.image = ops[i].image
              /\ o.base = ops[i].base /\ o.write = ops[i].write /\ o.hold = ops[i].hold
    BY EndIs
  <1>2. ops[i] \in Ops /\ OpOK(ops[i])
    BY OpsAre
  <1>3. ImageKnown(o)
    BY <1>1, <1>2 DEF OpOK, ImageKnown
  <1>4. WriteOK(o)
    BY <1>1, <1>2 DEF OpOK, WriteOK
  <1>5. BaseOK(o)
    BY <1>1, <1>2 DEF OpOK, BaseOK, FileOf
  <1>6. HoldOK(o)
    BY <1>1, <1>2 DEF OpOK, HoldOK, Live, WriteOK
  <1> QED
    BY <1>1, <1>3, <1>4, <1>5, <1>6, OpStep DEF OpOK

\* An operation ends well, or waits for the runtime, when its image is in the
\* file: by its own write, or by somebody else's after it was sent.
LEMMA SucceedStep ==
    ASSUME Inv, NEW i \in DOMAIN ops, Live(i), End(i, "SUCCEEDED"),
           ops[i].image # None, ops[i].write \in {"none", "sent", "landed"},
           ops[i].write = "sent" => ops[i].base.head < FileOf(ops[i]).head,
           UNCHANGED <<file, holds, replaced>>, RecordsTyped'
    PROVE  Inv'
  <1>1. PICK o \in Ops :
              /\ ops' = [ops EXCEPT ![i] = o]
              /\ o.status = "SUCCEEDED" /\ o.phase = "ENDED" /\ o.kind = ops[i].kind /\ o.image = ops[i].image
              /\ o.base = ops[i].base /\ o.write = ops[i].write /\ o.hold = ops[i].hold
    BY EndIs
  <1>2. ops[i] \in Ops /\ OpOK(ops[i])
    BY OpsAre
  <1>3. ImageKnown(o)
    BY <1>1, <1>2 DEF OpOK, ImageKnown
  <1>4. WriteOK(o)
    BY <1>1, <1>2 DEF OpOK, WriteOK
  <1>5. BaseOK(o)
    BY <1>1, <1>2 DEF OpOK, BaseOK, FileOf
  <1>6. HoldOK(o)
    BY <1>1, <1>2 DEF OpOK, HoldOK, Live, WriteOK
  <1> QED
    BY <1>1, <1>3, <1>4, <1>5, <1>6, OpStep DEF OpOK

\* A step before any write.
LEMMA EarlyStep ==
    ASSUME Inv, NEW i \in DOMAIN ops, Live(i), NEW o \in Ops, ops' = [ops EXCEPT ![i] = o],
           UNCHANGED <<file, holds, replaced>>, RecordsTyped',
           ops[i].write = "none", o.write = "none", o.kind = ops[i].kind, o.hold = ops[i].hold,
           o.phase \in {"PREFLIGHT", "BUILD_LOOKUP", "INSPECT", "APPLY"}, o.status \in {"PENDING", "RUNNING"},
           o.image = None => o.kind \in {"BUILD", "RELEASE"} /\ o.phase \in {"PREFLIGHT", "BUILD_LOOKUP"}
    PROVE  Inv'
  <1>1. ops[i] \in Ops /\ OpOK(ops[i])
    BY OpsAre
  <1>2. ImageKnown(o) /\ WriteOK(o) /\ BaseOK(o)
    BY DEF ImageKnown, WriteOK, BaseOK
  <1>3. HoldOK(o)
    BY <1>1 DEF OpOK, HoldOK, WriteOK, Live
  <1> QED
    BY <1>2, <1>3, OpStep DEF OpOK

LEMMA PreflightStep ==
    ASSUME Inv, NEW i \in DOMAIN ops, preflight(i)
    PROVE  Inv'
  <1>1. ops[i] \in Ops /\ OpOK(ops[i]) /\ FileOf(ops[i]) \in Contents /\ i \in Nat
    BY OpsAre, FileIs
  <1>2. Live(i) /\ ops[i].write = "none" /\ ops[i].phase = "PREFLIGHT"
    BY <1>1 DEF preflight, OpOK, WriteOK
  <1>3. RecordsTyped' /\ UNCHANGED <<file, holds, replaced>>
    BY SameRecords DEF preflight, Rest
  <1>4. PICK read : read = [ops[i] EXCEPT !.status = "RUNNING", !.base = FileOf(ops[i])]
    OBVIOUS
  <1>5. /\ read \in Ops /\ read.status = "RUNNING" /\ read.write = "none"
        /\ read.kind = ops[i].kind /\ read.hold = ops[i].hold /\ read.image = ops[i].image
    BY <1>1, <1>2, <1>4 DEF Ops
  <1>6. CASE /\ ops[i].kind \in {"BUILD", "RELEASE"}
             /\ \E x \in {None} \union {a.image : a \in {a \in rows : a.run}} :
                   ops' = [ops EXCEPT ![i] = [read EXCEPT !.phase = "BUILD_LOOKUP", !.image = x]]
    <2>1. PICK x \in {None} \union {a.image : a \in {a \in rows : a.run}} :
                   ops' = [ops EXCEPT ![i] = [read EXCEPT !.phase = "BUILD_LOOKUP", !.image = x]]
      BY <1>6
    <2>2. x \in SomeImage
      BY DEF Inv, TypeOK, RecordsTyped, Rows, SomeImage
    <2>3. PICK o : o = [read EXCEPT !.phase = "BUILD_LOOKUP", !.image = x]
      OBVIOUS
    <2>4. /\ o \in Ops /\ o.status = "RUNNING" /\ o.write = "none" /\ o.phase = "BUILD_LOOKUP"
          /\ o.kind = ops[i].kind /\ o.hold = ops[i].hold
      BY <1>5, <2>2, <2>3 DEF Ops, Stages
    <2> QED
      BY <1>2, <1>3, <1>6, <2>1, <2>3, <2>4, EarlyStep
  <1>7. CASE /\ ops[i].kind \in {"EXISTING", "PROMOTION"}
             /\ ops' = [ops EXCEPT ![i] = [read EXCEPT !.phase = "INSPECT"]]
    <2>1. PICK o : o = [read EXCEPT !.phase = "INSPECT"]
      OBVIOUS
    <2>2. /\ o \in Ops /\ o.status = "RUNNING" /\ o.write = "none" /\ o.phase = "INSPECT"
          /\ o.kind = ops[i].kind /\ o.hold = ops[i].hold /\ o.image = ops[i].image
      BY <1>5, <2>1 DEF Ops, Stages
    <2>3. o.image # None
      BY <1>1, <1>7, <2>2 DEF OpOK, ImageKnown
    <2> QED
      BY <1>2, <1>3, <1>7, <2>1, <2>2, <2>3, EarlyStep
  <1>8. CASE /\ ops[i].kind = "PROMOTION"
             /\ ops' = [ops EXCEPT ![i] = [read EXCEPT !.phase = "BUILD_LOOKUP", !.origin = i, !.run = FALSE]]
    <2>1. PICK o : o = [read EXCEPT !.phase = "BUILD_LOOKUP", !.origin = i, !.run = FALSE]
      OBVIOUS
    <2>2. /\ o \in Ops /\ o.status = "RUNNING" /\ o.write = "none" /\ o.phase = "BUILD_LOOKUP"
          /\ o.kind = ops[i].kind /\ o.hold = ops[i].hold /\ o.image = ops[i].image
      BY <1>1, <1>5, <2>1 DEF Ops, Stages
    <2>3. o.image # None
      BY <1>1, <1>8, <2>2 DEF OpOK, ImageKnown
    <2> QED
      BY <1>2, <1>3, <1>8, <2>1, <2>2, <2>3, EarlyStep
  <1> QED
    BY <1>4, <1>6, <1>7, <1>8 DEF preflight, FileOf

LEMMA ReuseStep ==
    ASSUME Inv, NEW i \in DOMAIN ops, NEW a \in rows, reuse(i, a)
    PROVE  Inv'
  <1> USE DEF reuse
  <1>1. ops[i] \in Ops /\ OpOK(ops[i]) /\ file["DEV"] \in Contents /\ a \in Rows /\ i \in Nat
    BY OpsAre DEF Inv, TypeOK, RecordsTyped, Envs
  <1>2. ops[i].write = "none"
    BY <1>1 DEF OpOK, WriteOK
  <1>3. PICK o : o = [ops[i] EXCEPT !.status = "RUNNING", !.phase = "APPLY", !.image = a.image,
                                    !.base = file["DEV"]]
    OBVIOUS
  <1>4. ops' = [ops EXCEPT ![i] = o]
    BY <1>1, <1>3 DEF Ops
  <1>5. /\ o \in Ops /\ o.status = "RUNNING" /\ o.phase = "APPLY" /\ o.image = a.image
        /\ o.kind = ops[i].kind /\ o.hold = ops[i].hold /\ o.write = "none"
    BY <1>1, <1>2, <1>3 DEF Ops, Stages, Rows, SomeImage
  <1>6. o.image # None
    BY <1>1, <1>5, NoneIsNoImage DEF Rows
  <1>7. RecordsTyped'
    <2>1. [image |-> a.image, origin |-> i, run |-> FALSE] \in Rows
      BY <1>1 DEF Rows
    <2>2. rows' \subseteq Rows /\ IsFiniteSet(rows')
      BY <2>1, FS_AddElement DEF Inv, TypeOK, RecordsTyped
    <2> QED
      BY <2>2 DEF Inv, TypeOK, RecordsTyped, Rest
  <1> QED
    BY <1>2, <1>4, <1>5, <1>6, <1>7, EarlyStep DEF Rest

LEMMA BuildsStep ==
    ASSUME Inv, NEW i \in DOMAIN ops, NEW x \in Images, Builds(i, x)
    PROVE  Inv'
  <1> USE DEF Builds
  <1>1. ops[i] \in Ops /\ OpOK(ops[i])
    BY OpsAre
  <1>2. ops[i].write = "none"
    BY <1>1 DEF OpOK, WriteOK
  <1>3. PICK at \in Nat : at = clock + 1
    BY DEF Inv, TypeOK, RecordsTyped
  <1>4. PICK o : o = [ops[i] EXCEPT !.made = x, !.at = at]
    OBVIOUS
  <1>5. ops' = [ops EXCEPT ![i] = o]
    BY <1>1, <1>3, <1>4 DEF Ops
  <1>6. /\ o \in Ops /\ o.status = ops[i].status /\ o.phase = "BUILD_LOOKUP" /\ o.image = ops[i].image
        /\ o.kind = ops[i].kind /\ o.hold = ops[i].hold /\ o.write = "none"
    BY <1>1, <1>2, <1>4 DEF Ops, SomeImage
  <1>7. o.status \in {"PENDING", "RUNNING"} /\ (o.image = None => o.kind \in {"BUILD", "RELEASE"})
    BY <1>1, <1>6 DEF Live, OpOK, ImageKnown
  <1>8. RecordsTyped'
    BY <1>3 DEF Inv, TypeOK, RecordsTyped, Rest
  <1> QED
    BY <1>2, <1>5, <1>6, <1>7, <1>8, EarlyStep DEF Rest

LEMMA LookupStep ==
    ASSUME Inv, NEW i \in DOMAIN ops, lookup(i)
    PROVE  Inv'
  <1> USE DEF lookup
  <1>1. ops[i] \in Ops /\ OpOK(ops[i]) /\ i \in Nat
    BY OpsAre
  <1>2. ops[i].write = "none" /\ ops[i].made \in Images /\ ops[i].at \in Nat
    BY <1>1 DEF OpOK, WriteOK, Ops, SomeImage
  <1>3. RecordsTyped'
    <2>1. [op |-> i, image |-> ops[i].made, at |-> ops[i].at] \in [op : Nat, image : Images, at : Nat]
      BY <1>1, <1>2
    <2>2. runs' \subseteq [op : Nat, image : Images, at : Nat]
      BY <2>1 DEF Inv, TypeOK, RecordsTyped
    <2> QED
      BY <2>2 DEF Inv, TypeOK, RecordsTyped, Rest
  <1>4. CASE ops[i].image \in {None, ops[i].made}
    <2>1. PICK o : o = [ops[i] EXCEPT !.phase = "INSPECT", !.image = ops[i].made, !.run = TRUE,
                                      !.made = None, !.at = 0]
      OBVIOUS
    <2>2. ops' = [ops EXCEPT ![i] = o]
      BY <1>1, <1>4, <2>1 DEF Ops
    <2>3. /\ o \in Ops /\ o.status = ops[i].status /\ o.phase = "INSPECT" /\ o.image = ops[i].made
          /\ o.kind = ops[i].kind /\ o.hold = ops[i].hold /\ o.write = "none"
      BY <1>1, <1>2, <2>1 DEF Ops, SomeImage, Stages
    <2>4. o.status \in {"PENDING", "RUNNING"} /\ o.image # None
      BY <1>2, <2>3, NoneIsNoImage DEF Live
    <2> QED
      BY <1>2, <1>3, <2>2, <2>3, <2>4, EarlyStep DEF Rest
  <1>5. CASE ops[i].image \notin {None, ops[i].made}
    BY <1>3, <1>5, FailStep DEF Rest
  <1> QED
    BY <1>4, <1>5

LEMMA InspectStep ==
    ASSUME Inv, NEW i \in DOMAIN ops, inspect(i)
    PROVE  Inv'
  <1> USE DEF inspect
  <1>1. ops[i] \in Ops /\ OpOK(ops[i]) /\ i \in Nat
    BY OpsAre
  <1>2. ops[i].write = "none" /\ ops[i].image # None
    BY <1>1 DEF OpOK, WriteOK, ImageKnown, Live
  <1>3. RecordsTyped'
    <2>1. [image |-> ops[i].image, origin |-> ops[i].origin, run |-> ops[i].run] \in Rows
      BY <1>1, <1>2 DEF Rows, Ops, SomeImage
    <2>2. rows' \subseteq Rows /\ IsFiniteSet(rows')
      BY <2>1, FS_AddElement DEF Inv, TypeOK, RecordsTyped
    <2> QED
      BY <2>2 DEF Inv, TypeOK, RecordsTyped, Rest
  <1>4. PICK o : o = [ops[i] EXCEPT !.phase = "APPLY"]
    OBVIOUS
  <1>5. ops' = [ops EXCEPT ![i] = o]
    BY <1>1, <1>4 DEF Ops
  <1>6. /\ o \in Ops /\ o.status = ops[i].status /\ o.phase = "APPLY" /\ o.image = ops[i].image
        /\ o.kind = ops[i].kind /\ o.hold = ops[i].hold /\ o.write = "none"
    BY <1>1, <1>2, <1>4 DEF Ops, Stages
  <1> QED
    BY <1>2, <1>3, <1>5, <1>6, EarlyStep DEF Rest, Live

LEMMA MissingStep ==
    ASSUME Inv, NEW i \in DOMAIN ops, missing(i)
    PROVE  Inv'
  <1> USE DEF missing
  <1>1. ops[i] \in Ops /\ OpOK(ops[i]) /\ i \in Nat
    BY OpsAre
  <1>2. ops[i].image # None
    BY <1>1 DEF OpOK, ImageKnown, Live
  <1>3. RecordsTyped'
    <2>1. [image |-> ops[i].image, origin |-> i, run |-> FALSE] \in Rows
      BY <1>1, <1>2 DEF Rows, Ops, SomeImage
    <2>2. rows' \subseteq Rows /\ IsFiniteSet(rows')
      BY <2>1, FS_AddElement DEF Inv, TypeOK, RecordsTyped
    <2> QED
      BY <2>2 DEF Inv, TypeOK, RecordsTyped, Event
  <1> QED
    BY <1>3, FailStep

\* The end of a delivery whose image is in the file, and the wait of a promotion.
LEMMA AppliedStep ==
    ASSUME Inv, NEW i \in DOMAIN ops, Live(i), Applied(i),
           ops[i].image # None, ops[i].write \in {"none", "sent", "landed"},
           ops[i].write = "sent" => ops[i].base.head < FileOf(ops[i]).head,
           UNCHANGED <<file, holds, replaced>>, RecordsTyped'
    PROVE  Inv'
  <1>1. CASE ops[i].kind = "PROMOTION"
    <2>1. ops[i] \in Ops /\ OpOK(ops[i])
      BY OpsAre
    <2>2. PICK o : o = [ops[i] EXCEPT !.phase = "WAIT_RUNTIME"]
      OBVIOUS
    <2>3. ops' = [ops EXCEPT ![i] = o]
      BY <1>1, <2>1, <2>2 DEF Applied, Ops
    <2>4. /\ o \in Ops /\ o.status = ops[i].status /\ o.phase = "WAIT_RUNTIME" /\ o.image = ops[i].image
          /\ o.kind = "PROMOTION" /\ o.base = ops[i].base /\ o.write = ops[i].write
      BY <1>1, <2>1, <2>2 DEF Ops, Stages
    <2>5. ImageKnown(o) /\ HoldOK(o)
      BY <2>4 DEF ImageKnown, HoldOK
    <2>6. WriteOK(o)
      BY <2>1, <2>4 DEF OpOK, WriteOK, Live
    <2>7. BaseOK(o)
      BY <1>1, <2>1, <2>4 DEF OpOK, BaseOK, FileOf
    <2> QED
      BY <1>1, <2>3, <2>4, <2>5, <2>6, <2>7, OpStep DEF OpOK
  <1>2. CASE ops[i].kind # "PROMOTION"
    BY <1>2, SucceedStep DEF Applied
  <1> QED
    BY <1>1, <1>2

LEMMA ApplyStep ==
    ASSUME Inv, NEW i \in DOMAIN ops, apply(i)
    PROVE  Inv'
  <1> DEFINE there == FileOf(ops[i])
  <1>1. /\ ops[i] \in Ops /\ OpOK(ops[i]) /\ there \in Contents /\ there.image \in Images
        /\ Live(i) /\ ops[i].phase \in {"APPLY", "APPLY_UNCERTAIN"}
    BY OpsAre, FileIs DEF apply
  <1>2. RecordsTyped' /\ UNCHANGED <<file, holds, replaced>>
    BY SameRecords DEF apply, Rest
  <1>3. ops[i].image # None /\ ops[i].write \in {"none", "sent", "landed"}
    BY <1>1 DEF OpOK, ImageKnown, WriteOK, Live
  <1>4. CASE ops[i].kind = "RELEASE" /\ End(i, "SUCCEEDED")
    <2>1. ops[i].write = "none"
      BY <1>1, <1>4 DEF OpOK, WriteOK
    <2> QED
      BY <1>1, <1>2, <1>3, <1>4, <2>1, SucceedStep
  <1>5. CASE there.image = ops[i].image /\ Applied(i)
    <2>1. ops[i].write = "sent" => ops[i].base.head < there.head
      <3>1. ASSUME ops[i].write = "sent" PROVE ops[i].base.head < there.head
        <4>1. /\ ops[i].base \in Contents /\ ops[i].base.head <= there.head /\ ops[i].base.image # ops[i].image
              /\ ops[i].base.head = there.head => ops[i].base = there
          BY <1>1, <3>1 DEF OpOK, BaseOK
        <4>2. ops[i].base.head \in Nat /\ there.head \in Nat
          BY <1>1, <4>1 DEF Contents
        <4> QED
          BY <1>5, <4>1, <4>2
      <3> QED
        BY <3>1
    <2> QED
      BY <1>1, <1>2, <1>3, <1>5, <2>1, AppliedStep
  <1>6. CASE End(i, "FAILED")
    BY <1>1, <1>2, <1>6, FailStep
  <1>7. CASE /\ ops[i].kind # "RELEASE" /\ there.image # ops[i].image /\ ops[i].write = "none"
             /\ ops' = [ops EXCEPT ![i].phase = "APPLY_UNCERTAIN", ![i].write = "sent", ![i].base = there]
    <2>1. PICK o : o = [ops[i] EXCEPT !.phase = "APPLY_UNCERTAIN", !.write = "sent", !.base = there]
      OBVIOUS
    <2>2. ops' = [ops EXCEPT ![i] = o]
      BY <1>1, <1>7, <2>1 DEF Ops
    <2>3. /\ o \in Ops /\ o.status = ops[i].status /\ o.phase = "APPLY_UNCERTAIN" /\ o.image = ops[i].image
          /\ o.kind = ops[i].kind /\ o.base = there /\ o.write = "sent" /\ o.hold = ops[i].hold
      BY <1>1, <2>1 DEF Ops, Stages
    <2>4. ImageKnown(o) /\ WriteOK(o)
      BY <1>1, <1>3, <1>7, <2>3 DEF ImageKnown, WriteOK, Live
    <2>5. BaseOK(o)
      <3>1. there.head \in Nat /\ FileOf(o) = there
        BY <1>1, <2>3 DEF Contents, FileOf
      <3> QED
        BY <1>1, <1>7, <2>3, <3>1 DEF BaseOK, Live
    <2>6. HoldOK(o)
      BY <1>1, <2>3 DEF OpOK, HoldOK, WriteOK, Live
    <2> QED
      BY <1>2, <1>7, <2>2, <2>3, <2>4, <2>5, <2>6, OpStep DEF OpOK
  <1> QED
    BY <1>4, <1>5, <1>6, <1>7 DEF apply, FileOf

\* A step that only follows what became of a write.
LEMMA FollowStep ==
    ASSUME Inv, NEW i \in DOMAIN ops, NEW o \in Ops, ops' = [ops EXCEPT ![i] = o],
           UNCHANGED <<file, holds, replaced>>, RecordsTyped',
           ops[i].write \in {"sent", "open"}, o.write # "none",
           o.kind = ops[i].kind, o.base = ops[i].base, o.hold = ops[i].hold, o.image = ops[i].image,
           o.status = ops[i].status, o.write \in {"sent", "open"} => Live(i), o.write # "sent",
           WriteOK(o)
    PROVE  Inv'
  <1>1. ops[i] \in Ops /\ OpOK(ops[i])
    BY OpsAre
  <1>2. ImageKnown(o)
    BY <1>1 DEF OpOK, ImageKnown
  <1>3. BaseOK(o)
    BY <1>1 DEF OpOK, BaseOK, FileOf
  <1>4. HoldOK(o)
    <2>1. o.status \in {"SUCCEEDED", "FAILED"} => o.phase = "ENDED"
      BY DEF WriteOK
    <2>2. o.status \in {"PENDING", "RUNNING"} \/ o.status \in {"SUCCEEDED", "FAILED"}
      BY DEF Ops
    <2>3. ops[i].phase = "ENDED" => o.status \in {"SUCCEEDED", "FAILED"}
      BY <1>1 DEF OpOK, WriteOK
    <2>4. ops[i].phase = "ENDED" => ~Live(i)
      BY <2>3 DEF Live
    <2> QED
      BY <1>1, <2>1, <2>3, <2>4 DEF OpOK, HoldOK
  <1> QED
    BY <1>1, <1>2, <1>3, <1>4, OpStep DEF OpOK

LEMMA ProposeStep ==
    ASSUME Inv, NEW i \in DOMAIN ops, propose(i)
    PROVE  Inv'
  <1> USE DEF propose
  <1>1. ops[i] \in Ops /\ OpOK(ops[i])
    BY OpsAre
  <1>2. PICK o : o = [ops[i] EXCEPT !.phase = "WAIT_GITOPS_PR", !.write = "open", !.pr = TRUE]
    OBVIOUS
  <1>3. ops' = [ops EXCEPT ![i] = o]
    BY <1>1, <1>2 DEF Ops
  <1>4. /\ o \in Ops /\ o.status = ops[i].status /\ o.phase = "WAIT_GITOPS_PR" /\ o.image = ops[i].image
        /\ o.kind = ops[i].kind /\ o.base = ops[i].base /\ o.write = "open" /\ o.hold = ops[i].hold
    BY <1>1, <1>2 DEF Ops, Stages
  <1>5. WriteOK(o)
    BY <1>1, <1>4 DEF OpOK, WriteOK, Live
  <1>6. RecordsTyped'
    BY SameRecords DEF Rest
  <1> QED
    BY <1>3, <1>4, <1>5, <1>6, FollowStep DEF Rest

LEMMA ClosesStep ==
    ASSUME Inv, NEW i \in DOMAIN ops, Closes(i)
    PROVE  Inv'
  <1> USE DEF Closes
  <1>1. ops[i] \in Ops /\ OpOK(ops[i])
    BY OpsAre
  <1>2. PICK o : o = [ops[i] EXCEPT !.write = "closed"]
    OBVIOUS
  <1>3. ops' = [ops EXCEPT ![i] = o]
    BY <1>1, <1>2 DEF Ops
  <1>4. /\ o \in Ops /\ o.status = ops[i].status /\ o.phase = ops[i].phase /\ o.image = ops[i].image
        /\ o.kind = ops[i].kind /\ o.base = ops[i].base /\ o.write = "closed" /\ o.hold = ops[i].hold
    BY <1>1, <1>2 DEF Ops
  <1>5. WriteOK(o)
    BY <1>1, <1>4 DEF OpOK, WriteOK
  <1>6. RecordsTyped'
    BY SameRecords DEF Rest
  <1> QED
    BY <1>3, <1>4, <1>5, <1>6, FollowStep DEF Rest

LEMMA AnswerStep ==
    ASSUME Inv, NEW i \in DOMAIN ops, answer(i)
    PROVE  Inv'
  <1>1. ops[i] \in Ops /\ OpOK(ops[i]) /\ Live(i)
    BY OpsAre DEF answer
  <1>2. RecordsTyped' /\ UNCHANGED <<file, holds, replaced>>
    BY SameRecords DEF answer, Rest
  <1>3. CASE ops[i].write = "landed" /\ Applied(i)
    <2>1. ops[i].image # None
      BY <1>1, <1>3 DEF OpOK, ImageKnown
    <2> QED
      BY <1>1, <1>2, <1>3, <2>1, AppliedStep
  <1>4. CASE ops[i].write = "closed" /\ End(i, "FAILED")
    BY <1>1, <1>2, <1>4, FailStep
  <1> QED
    BY <1>3, <1>4 DEF answer

LEMMA FailsStep ==
    ASSUME Inv, NEW i \in DOMAIN ops, fail(i)
    PROVE  Inv'
  <1>1. RecordsTyped' /\ UNCHANGED <<file, holds, replaced>> /\ Live(i) /\ End(i, "FAILED")
    BY SameRecords DEF fail, Rest, Live
  <1> QED
    BY <1>1, FailStep

LEMMA NativePreflightStep ==
    ASSUME Inv, NEW i \in DOMAIN ops, nativePreflight(i)
    PROVE  Inv'
  <1> DEFINE there == file["CANDIDATE"]
  <1>1. ops[i] \in Ops /\ OpOK(ops[i]) /\ there \in Contents /\ Live(i) /\ ops[i].phase = "PREFLIGHT"
    BY OpsAre DEF nativePreflight, Envs
  <1>2. RecordsTyped' /\ UNCHANGED <<file, holds, replaced>>
    BY SameRecords DEF nativePreflight, Rest
  <1>3. ops[i].write = "none" /\ (ops[i].image # None)
    <2>1. ops[i].kind \in {"ACTIVATION", "RESTORATION"}
      BY <1>1, EnvIs DEF nativePreflight, Owner, Ops
    <2> QED
      BY <1>1, <2>1 DEF OpOK, WriteOK, ImageKnown
  <1>4. CASE End(i, "FAILED")
    BY <1>1, <1>2, <1>4, FailStep
  <1>5. CASE ops' = [ops EXCEPT ![i].status = "RUNNING", ![i].phase = "APPLY", ![i].base = there]
    <2>1. PICK o : o = [ops[i] EXCEPT !.status = "RUNNING", !.phase = "APPLY", !.base = there]
      OBVIOUS
    <2>2. ops' = [ops EXCEPT ![i] = o]
      BY <1>1, <1>5, <2>1 DEF Ops
    <2>3. /\ o \in Ops /\ o.status = "RUNNING" /\ o.phase = "APPLY" /\ o.image = ops[i].image
          /\ o.kind = ops[i].kind /\ o.hold = ops[i].hold /\ o.write = "none"
      BY <1>1, <1>3, <2>1 DEF Ops, Stages
    <2> QED
      BY <1>1, <1>2, <1>3, <2>2, <2>3, EarlyStep
  <1> QED
    BY <1>4, <1>5 DEF nativePreflight

LEMMA FinishReleaseStep ==
    ASSUME Inv, NEW i \in DOMAIN ops, finishFlowRelease(i)
    PROVE  Inv'
  <1> USE DEF finishFlowRelease
  <1>1. ops[i] \in Ops /\ OpOK(ops[i]) /\ i \in Nat
    BY OpsAre
  <1>2. ops[i].image # None /\ ops[i].image \in Images
    BY <1>1 DEF OpOK, ImageKnown, Live, Ops, SomeImage
  <1>3. RecordsTyped'
    <2>1. releases' \in Seq([op : Nat, image : Images])
      BY <1>1, <1>2, RecordsAre, AppendProperties
    <2> QED
      BY <2>1 DEF Inv, TypeOK, RecordsTyped
  <1>4. /\ ops[i].write \in {"none", "sent", "landed"}
        /\ ops[i].write = "sent" => ops[i].base.head < FileOf(ops[i]).head
    BY <1>1 DEF OpOK, WriteOK, BaseOK
  <1> QED
    BY <1>2, <1>3, <1>4, SucceedStep

\* A write lands: the file moves, and what it named is now replaced.
LEMMA LandsStep ==
    ASSUME Inv, NEW i \in DOMAIN ops, Lands(i)
    PROVE  Inv'
  <1> DEFINE env == EnvOf(ops[i].kind)
  <1>1. ops[i] \in Ops /\ OpOK(ops[i]) /\ env \in Envs /\ ops[i].write \in {"sent", "open"}
    BY OpsAre, EnvIs DEF Lands, CanLand, Ops
  <1>2. ops[i].image \in Images
    BY <1>1 DEF OpOK, ImageKnown, Ops, SomeImage
  <1>3. file[env].image = ops[i].base.image /\ file[env].image \in Images
    BY <1>1, OpsAre DEF Lands, CanLand, Contents
  <1>4. PICK o : o = [ops[i] EXCEPT !.write = "landed"]
    OBVIOUS
  <1>5. ops' = [ops EXCEPT ![i] = o]
    BY <1>1, <1>4 DEF Ops, Lands
  <1>6. /\ o \in Ops /\ o.status = ops[i].status /\ o.phase = ops[i].phase /\ o.image = ops[i].image
        /\ o.kind = ops[i].kind /\ o.base = ops[i].base /\ o.write = "landed" /\ o.hold = ops[i].hold
    BY <1>1, <1>4 DEF Ops
  <1>7. /\ ops' \in Seq(Ops) /\ Len(ops') = Len(ops) /\ ops'[i] = o
        /\ \A j \in DOMAIN ops : j # i => ops'[j] = ops[j]
    BY <1>5, <1>6, OpsAre, ExceptSeq
  <1>8. file' = [file EXCEPT ![env] = [image |-> ops[i].image, head |-> @.head + 1]]
    BY DEF Lands
  <1>9. file' \in [Envs -> Contents]
    <2>1. [image |-> ops[i].image, head |-> file[env].head + 1] \in Contents
      BY <1>1, <1>2, OpsAre DEF Contents
    <2> QED
      BY <1>8, <2>1, OpsAre
  <1>10. OpOK(o)
    <2>1. ImageKnown(o) /\ WriteOK(o)
      BY <1>1, <1>6 DEF OpOK, ImageKnown, WriteOK
    <2>2. BaseOK(o)
      BY <1>1, <1>6 DEF OpOK, BaseOK, FileOf
    <2>3. HoldOK(o)
      BY <1>1, <1>6 DEF OpOK, HoldOK
    <2> QED
      BY <2>1, <2>2, <2>3 DEF OpOK
  <1>11. \A p \in Ops : OpOK(p) => OpOK(p)'
    <2>1. \A p \in Ops : BaseOK(p) => BaseOK(p)'
      BY <1>1, <1>2, <1>8, FileStays
    <2>2. holds' = holds
      BY DEF Lands, Rest
    <2> QED
      BY <2>1, <2>2 DEF OpOK, ImageKnown, WriteOK, HoldOK
  <1>12. (\A j \in 1 .. Len(ops) : OpOK(ops[j]))'
    <2>1. ASSUME NEW j \in 1 .. Len(ops') PROVE OpOK(ops[j])'
      <3>1. PICK p : p = ops'[j] /\ p \in Ops /\ OpOK(p)
        BY <1>6, <1>7, <1>10, OpsAre
      <3>2. OpOK(p)'
        BY <1>11, <3>1
      <3> QED
        BY <3>1, <3>2 DEF OpOK, ImageKnown, WriteOK, BaseOK, HoldOK, FileOf
    <2> QED
      BY <2>1
  <1>13. ReplacedOK'
    <2>1. ASSUME NEW x \in replaced'
          PROVE  \E j \in 1 .. Len(ops') : ops'[j].kind # "RESTORATION" /\ ops'[j].write # "none" /\ ops'[j].base.image = x
      <3>1. CASE x \in replaced
        <4>1. PICK j \in 1 .. Len(ops) : ops[j].kind # "RESTORATION" /\ ops[j].write # "none" /\ ops[j].base.image = x
          BY <3>1 DEF Inv, ReplacedOK
        <4> QED
          BY <1>6, <1>7, <4>1, OpsAre
      <3>2. CASE x \notin replaced
        <4>1. ops[i].kind # "RESTORATION" /\ x = file[env].image
          BY <3>2 DEF Lands
        <4> QED
          BY <1>3, <1>6, <1>7, <4>1, OpsAre
      <3> QED
        BY <3>1, <3>2
    <2> QED
      BY <2>1 DEF ReplacedOK
  <1>14. replaced' \subseteq Images /\ holds' \in Seq(Holds)
    BY <1>3 DEF Lands, Rest, Inv, TypeOK
  <1>15. RecordsTyped'
    BY SameRecords DEF Lands, Rest
  <1> QED
    BY <1>7, <1>9, <1>12, <1>13, <1>14, <1>15 DEF Inv, TypeOK

-----------------------------------------------------------------------------
(***************************************************************************)
(* Publications, evidence, people and holds                                *)
(***************************************************************************)
LEMMA JobStep ==
    ASSUME Inv, NEW j \in DOMAIN jobs, NEW q \in JobRecords, jobs' = [jobs EXCEPT ![j] = q], clock' \in Nat,
           UNCHANGED <<file, ops, runs, rows, observed, snapshots, releases, policy, desired, holds, events, replaced>>
    PROVE  Inv'
  <1>1. jobs' \in Seq(JobRecords)
    BY RecordsAre, ExceptSeq
  <1>2. RecordsTyped'
    BY <1>1 DEF Inv, TypeOK, RecordsTyped
  <1> QED
    BY <1>2, RecordsStep

LEMMA PublishStep ==
    ASSUME Inv, NEW x \in Images, publish(x)
    PROVE  Inv'
  <1>1. PICK q : q = [image |-> x, pushed |-> FALSE, at |-> 0, reconciled |-> FALSE, status |-> "QUEUED"]
    OBVIOUS
  <1>2. q \in JobRecords
    BY <1>1 DEF JobRecords
  <1>3. jobs' = Append(jobs, q)
    BY <1>1 DEF publish
  <1>4. jobs' \in Seq(JobRecords)
    BY <1>2, <1>3, RecordsAre, AppendProperties
  <1>5. RecordsTyped'
    BY <1>4 DEF publish, Inv, TypeOK, RecordsTyped
  <1> QED
    BY <1>5, RecordsStep DEF publish

LEMMA PushesStep ==
    ASSUME Inv, NEW j \in DOMAIN jobs, Pushes(j)
    PROVE  Inv'
  <1>1. PICK q : q = [jobs[j] EXCEPT !.pushed = TRUE]
    OBVIOUS
  <1>2. q \in JobRecords /\ jobs' = [jobs EXCEPT ![j] = q] /\ clock' \in Nat
    BY <1>1, RecordsAre DEF Pushes, JobRecords, RecordsTyped
  <1> QED
    BY <1>2, JobStep DEF Pushes

LEMMA ReportStep ==
    ASSUME Inv, NEW j \in DOMAIN jobs, report(j)
    PROVE  Inv'
  <1>1. PICK q : q = [jobs[j] EXCEPT !.status = "SUCCEEDED", !.at = clock + 1]
    OBVIOUS
  <1>2. clock + 1 \in Nat /\ jobs[j] \in JobRecords
    BY RecordsAre DEF RecordsTyped
  <1>3. q \in JobRecords /\ jobs' = [jobs EXCEPT ![j] = q] /\ clock' \in Nat
    BY <1>1, <1>2 DEF report, JobRecords
  <1> QED
    BY <1>3, JobStep DEF report

LEMMA PublicationEndsStep ==
    ASSUME Inv, NEW j \in DOMAIN jobs, publicationEnds(j)
    PROVE  Inv'
  <1>1. jobs[j] \in JobRecords /\ clock' \in Nat
    BY RecordsAre DEF RecordsTyped, publicationEnds
  <1>2. ASSUME NEW s \in {"CANCELLED", "RECONCILIATION_REQUIRED"}, jobs' = [jobs EXCEPT ![j].status = s]
        PROVE  Inv'
    <2>1. PICK q : q = [jobs[j] EXCEPT !.status = s]
      OBVIOUS
    <2>2. q \in JobRecords /\ jobs' = [jobs EXCEPT ![j] = q]
      BY <1>1, <1>2, <2>1 DEF JobRecords
    <2> QED
      BY <1>1, <2>2, JobStep DEF publicationEnds
  <1>3. CASE jobs' = [jobs EXCEPT ![j].status = "SUCCEEDED", ![j].reconciled = TRUE]
    <2>1. PICK q : q = [jobs[j] EXCEPT !.status = "SUCCEEDED", !.reconciled = TRUE]
      OBVIOUS
    <2>2. q \in JobRecords /\ jobs' = [jobs EXCEPT ![j] = q]
      BY <1>1, <1>3, <2>1 DEF JobRecords
    <2> QED
      BY <1>1, <2>2, JobStep DEF publicationEnds
  <1> QED
    BY <1>2, <1>3 DEF publicationEnds

LEMMA RecordRuntimeStep ==
    ASSUME Inv, NEW i \in DOMAIN ops, recordRuntime(i)
    PROVE  Inv'
  <1>1. RecordsTyped'
    <2>1. i \in Nat
      BY OpsAre
    <2>2. observed' \subseteq Nat /\ events' \in Nat
      BY <2>1, RecordsAre DEF recordRuntime, Event, RecordsTyped
    <2> QED
      BY <2>2 DEF recordRuntime, Inv, TypeOK, RecordsTyped
  <1> QED
    BY <1>1, RecordsStep DEF recordRuntime

LEMMA ObserveRuntimeStep ==
    ASSUME Inv, NEW env \in Envs, observeRuntime(env)
    PROVE  Inv'
  <1>1. <<ProductOf(env), file[env].image>> \in Products \X Images
    BY OpsAre DEF Contents, ProductOf, Products
  <1>2. RecordsTyped'
    BY <1>1 DEF observeRuntime, Event, Inv, TypeOK, RecordsTyped
  <1> QED
    BY <1>2, RecordsStep DEF observeRuntime

LEMMA RecordReleaseStep ==
    ASSUME Inv, NEW x \in Images, recordRelease(x)
    PROVE  Inv'
  <1>1. releases' \in Seq([op : Nat, image : Images])
    BY RecordsAre, AppendProperties DEF recordRelease
  <1>2. RecordsTyped'
    BY <1>1 DEF recordRelease, Event, Inv, TypeOK, RecordsTyped
  <1> QED
    BY <1>2, RecordsStep DEF recordRelease

LEMMA ConfigureStep ==
    ASSUME Inv, NEW n \in KeepLimits, configureRetention(n)
    PROVE  Inv'
  <1>1. RecordsTyped'
    BY RetentionAssumption DEF configureRetention, Event, Inv, TypeOK, RecordsTyped
  <1> QED
    BY <1>1, RecordsStep DEF configureRetention

LEMMA ReserveStep ==
    ASSUME Inv, reserve
    PROVE  Inv'
  <1>1. PICK g : g = [original |-> None, state |-> "HELD"]
    OBVIOUS
  <1>2. g \in Holds /\ holds' = Append(holds, g)
    BY <1>1 DEF reserve, Holds, SomeImage
  <1>3. /\ holds' \in Seq(Holds) /\ Len(holds') = Len(holds) + 1
        /\ \A h \in DOMAIN holds : holds'[h] = holds[h]
    BY <1>2, OpsAre, AppendProperties
  <1>4. RecordsTyped'
    BY SameRecords DEF reserve
  <1>5. Len(holds') >= Len(holds)
    BY <1>3, OpsAre
  <1> QED
    BY <1>3, <1>4, <1>5, HoldsStep DEF reserve

\* A step on one hold.
LEMMA HoldStep ==
    ASSUME Inv, NEW h \in DOMAIN holds, NEW g \in Holds, holds' = [holds EXCEPT ![h] = g],
           holds[h].original \in Images => g.original = holds[h].original,
           g.state = "RESTORED" => holds[h].state = "RESTORED" \/ EffectsSettled(h),
           UNCHANGED <<clock, file, ops, runs, rows, jobs, observed, snapshots, releases, policy, desired,
                       events, replaced>>
    PROVE  Inv'
  <1>1. /\ holds' \in Seq(Holds) /\ Len(holds') = Len(holds) /\ holds'[h] = g
        /\ \A k \in DOMAIN holds : k # h => holds'[k] = holds[k]
    BY OpsAre, ExceptSeq
  <1>2. Len(holds') >= Len(holds)
    BY <1>1, OpsAre
  <1>3. RecordsTyped'
    BY SameRecords
  <1> QED
    BY <1>1, <1>2, <1>3, HoldsStep

LEMMA CaptureStep ==
    ASSUME Inv, NEW h \in DOMAIN holds, capture(h)
    PROVE  Inv'
  <1>1. PICK g : g = [holds[h] EXCEPT !.original = file["CANDIDATE"].image]
    OBVIOUS
  <1>2. holds[h] \in Holds /\ file["CANDIDATE"].image \in Images
    BY OpsAre DEF Contents, Envs
  <1>3. g \in Holds /\ g.state = "HELD" /\ holds' = [holds EXCEPT ![h] = g]
    BY <1>1, <1>2 DEF capture, Holds, SomeImage
  <1>4. holds[h].original \notin Images
    BY NoneIsNoImage DEF capture
  <1> QED
    BY <1>3, <1>4, HoldStep DEF capture

LEMMA ReleaseHoldStep ==
    ASSUME Inv, NEW h \in DOMAIN holds, releaseHold(h)
    PROVE  Inv'
  <1>1. holds[h] \in Holds
    BY OpsAre
  <1>2. CASE holds' = [holds EXCEPT ![h].state = "RELEASED"]
    <2>1. PICK g : g = [holds[h] EXCEPT !.state = "RELEASED"]
      OBVIOUS
    <2>2. /\ g \in Holds /\ g.state = "RELEASED" /\ g.original = holds[h].original
          /\ holds' = [holds EXCEPT ![h] = g]
      BY <1>1, <1>2, <2>1 DEF Holds
    <2> QED
      BY <2>2, HoldStep DEF releaseHold
  <1>3. CASE EffectsSettled(h) /\ holds' = [holds EXCEPT ![h].state = "RESTORED"]
    <2>1. PICK g : g = [holds[h] EXCEPT !.state = "RESTORED"]
      OBVIOUS
    <2>2. /\ g \in Holds /\ g.original = holds[h].original
          /\ holds' = [holds EXCEPT ![h] = g]
      BY <1>1, <1>3, <2>1 DEF Holds
    <2> QED
      BY <1>3, <2>2, HoldStep DEF releaseHold
  <1> QED
    BY <1>2, <1>3 DEF releaseHold

-----------------------------------------------------------------------------
(***************************************************************************)
(* The invariant                                                           *)
(***************************************************************************)
LEMMA InvInit == Init => Inv
  <1> SUFFICES ASSUME Init PROVE Inv
    OBVIOUS
  <1> USE DEF Init
  <1>1. RecordsTyped
    BY FS_EmptySet DEF RecordsTyped
  <1>2. file \in [Envs -> Contents]
    BY NoneIsNoImage DEF Contents
  <1>3. ops \in Seq(Ops) /\ holds \in Seq(Holds) /\ 1 .. Len(ops) = {}
    OBVIOUS
  <1> QED
    BY <1>1, <1>2, <1>3 DEF Inv, TypeOK, ReplacedOK

LEMMA InvNext == Inv /\ [Next]_vars => Inv'
  <1> SUFFICES ASSUME Inv, [Next]_vars PROVE Inv'
    OBVIOUS
  <1>1. CASE \E k \in {"BUILD", "RELEASE"} : deliver(k)
    BY <1>1, DeliverStep
  <1>2. CASE \E a \in rows : deployExisting(a)
    BY <1>2, ExistingStep
  <1>3. CASE \E x \in Images : publish(x) \/ recordRelease(x)
    BY <1>3, PublishStep, RecordReleaseStep
  <1>4. ASSUME NEW i \in DOMAIN ops,
               \/ promote(i) \/ preflight(i) \/ lookup(i) \/ inspect(i) \/ missing(i) \/ apply(i)
               \/ propose(i) \/ answer(i) \/ fail(i) \/ Lands(i) \/ Closes(i)
               \/ nativePreflight(i) \/ recordRuntime(i) \/ finishFlowRelease(i)
               \/ \E a \in rows : reuse(i, a)
               \/ \E x \in Images : Builds(i, x)
        PROVE  Inv'
    BY <1>4, PromoteStep, PreflightStep, LookupStep, InspectStep, MissingStep, ApplyStep, ProposeStep,
       AnswerStep, FailsStep, LandsStep, ClosesStep, NativePreflightStep, RecordRuntimeStep,
       FinishReleaseStep, ReuseStep, BuildsStep
  <1>5. CASE \E j \in DOMAIN jobs : Pushes(j) \/ report(j) \/ publicationEnds(j)
    BY <1>5, PushesStep, ReportStep, PublicationEndsStep
  <1>6. CASE reserve
    BY <1>6, ReserveStep
  <1>7. ASSUME NEW h \in DOMAIN holds,
               \/ capture(h) \/ restore(h) \/ releaseHold(h)
               \/ \E j \in DOMAIN jobs : activate(h, j)
        PROVE  Inv'
    BY <1>7, CaptureStep, RestoreStep, ReleaseHoldStep, ActivateStep
  <1>8. CASE \E env \in Envs : observeRuntime(env) \/ (\E x \in Images : ForeignCommit(env, x))
    BY <1>8, ObserveRuntimeStep, ForeignCommitStep
  <1>9. CASE \E n \in KeepLimits : configureRetention(n)
    BY <1>9, ConfigureStep
  <1>10. CASE UNCHANGED vars
    BY <1>10, SameRecords, RecordsStep DEF vars
  <1> QED
    BY <1>1, <1>2, <1>3, <1>4, <1>5, <1>6, <1>7, <1>8, <1>9, <1>10 DEF Next

LEMMA InvHolds == Spec => []Inv
  BY InvInit, InvNext, PTL DEF Spec

-----------------------------------------------------------------------------
(***************************************************************************)
(* What the report protects                                                *)
(***************************************************************************)

\* The root of one product is in every product's report.
LEMMA RootsAreProtected ==
    ASSUME NEW q \in Products, NEW x \in OwnRoots(q), NEW p \in Products
    PROVE  x \in Protected(p)
  BY DEF Protected, SharedRoots

LEMMA ImagesAreSome ==
    ASSUME NEW x \in Images
    PROVE  x # None
  BY NoneIsNoImage

LEMMA HistoryIs ==
    ASSUME Inv, NEW p \in Products
    PROVE  IsFiniteSet(Published(p)) /\ Published(p) \subseteq Images
  <1>1. Recorded(p) \subseteq Images
    BY RecordsAre DEF Recorded, RecordsTyped, Rows, JobRecords
  <1>2. IsFiniteSet(Recorded(p))
    <2>1. CASE p = "actions"
      <3> DEFINE f == [a \in rows |-> a.image]
      <3>1. f \in Surjection(rows, Recorded(p))
        BY <2>1 DEF Surjection, Recorded
      <3>2. IsFiniteSet(rows)
        BY RecordsAre DEF RecordsTyped
      <3> QED
        BY <3>1, <3>2, FS_Surjection
    <2>2. CASE p # "actions"
      <3> DEFINE all == {jobs[j].image : j \in 1 .. Len(jobs)}
                 f == [j \in 1 .. Len(jobs) |-> jobs[j].image]
      <3>1. f \in Surjection(1 .. Len(jobs), all)
        BY DEF Surjection
      <3>2. IsFiniteSet(1 .. Len(jobs))
        <4>1. jobs \in Seq(JobRecords)
          BY RecordsAre DEF RecordsTyped
        <4>2. Len(jobs) \in Int /\ 1 \in Int
          BY <4>1
        <4> QED
          BY <4>2, FS_Interval
      <3>3. IsFiniteSet(all)
        BY <3>1, <3>2, FS_Surjection
      <3>4. Recorded(p) \in SUBSET all
        BY <2>2, RecordsAre DEF Recorded
      <3> QED
        BY <3>3, <3>4, FS_Subset
    <2> QED
      BY <2>1, <2>2
  <1>3. Published(p) \in SUBSET Recorded(p)
    BY DEF Published
  <1> QED
    BY <1>1, <1>2, <1>3, FS_Subset

LEMMA LimitIs ==
    ASSUME Inv
    PROVE  EffectiveKeepLast \in Nat /\ EffectiveKeepLast >= KeepFloor
  BY RecordsAre, RetentionAssumption DEF RecordsTyped, EffectiveKeepLast

\* An image with less than the floor's number of later ones is in the report.
LEMMA InvNewest == Inv => NewestAreKept
  <1> SUFFICES ASSUME Inv, NEW p \in Products
               PROVE  LET history == Published(p)
                          first   == [x \in history |-> CHOOSE t \in PublicationTimes(p, x) :
                                                           \A u \in PublicationTimes(p, x) : t <= u]
                      IN  \A x \in history :
                              \/ Cardinality({y \in history : first[y] > first[x]}) >= KeepFloor
                              \/ x \in Protected(p)
    BY DEF NewestAreKept
  <1> DEFINE history == Published(p)
             first == [x \in history |-> PublishedAt(p, x)]
  <1>1. ASSUME NEW x \in history, ~(Cardinality({y \in history : first[y] > first[x]}) >= KeepFloor)
        PROVE  x \in Protected(p)
    <2> DEFINE later == {y \in history : first[y] > first[x]}
    <2>1. Cardinality(later) \in Nat
      <3>1. later \in SUBSET history
        OBVIOUS
      <3>2. IsFiniteSet(later)
        BY <3>1, HistoryIs, FS_Subset
      <3> QED
        BY <3>2, FS_CardinalityType
    <2>2. Cardinality(later) < EffectiveKeepLast
      BY <1>1, <2>1, LimitIs, RetentionAssumption
    <2>3. x \in NewestImages(p)
      BY <2>2 DEF NewestImages
    <2>4. x # None
      BY HistoryIs, ImagesAreSome
    <2>5. x \in OwnRoots(p)
      BY <2>3, <2>4 DEF OwnRoots
    <2> QED
      BY <2>5, RootsAreProtected
  <1> QED
    BY <1>1 DEF PublishedAt, Min

\* A write that can still land belongs to an operation whose image is a root.
LEMMA WritesAreKept ==
    ASSUME Inv, NEW i \in DOMAIN ops, CanLand(i), NEW p \in Products
    PROVE  ops[i].image \in Protected(p)
  <1> DEFINE x == ops[i].image
             q == Owner(i)
  <1>1. ops[i] \in Ops /\ OpOK(ops[i]) /\ ops[i].write \in {"sent", "open"}
    BY OpsAre DEF CanLand
  <1>2. x \in Images
    BY <1>1 DEF OpOK, ImageKnown, Ops, SomeImage
  <1>3. q \in Products /\ i \in OpsOf(q)
    BY <1>1, EnvIs DEF Owner, OpsOf, Ops
  <1>4. CASE ops[i].kind = "RESTORATION"
    <2>1. holds[ops[i].hold].state # "RESTORED"
      BY <1>1, <1>4 DEF OpOK, HoldOK
    <2>2. x \in restorationRoots(q)
      BY <1>3, <1>4, <2>1 DEF restorationRoots
    <2>3. x \in OwnRoots(q)
      BY <1>2, <2>2, ImagesAreSome DEF OwnRoots
    <2> QED
      BY <1>3, <2>3, RootsAreProtected
  <1>5. CASE ops[i].kind # "RESTORATION"
    <2>1. Live(i) \/ UncertainIntent(i)
      <3>1. ~Reconciled(i)
        BY <1>1 DEF Reconciled
      <3>2. ops[i].status # "SUCCEEDED"
        <4>1. SUFFICES ASSUME ops[i].status = "SUCCEEDED" PROVE FALSE
          OBVIOUS
        <4>2. ops[i].write = "sent" /\ ops[i].base.head < FileOf(ops[i]).head
          BY <1>1, <4>1 DEF OpOK, WriteOK, BaseOK
        <4>3. FileOf(ops[i]).head = ops[i].base.head
          BY <4>2 DEF CanLand, FileOf
        <4> QED
          BY <1>1, <4>2, <4>3, FileIs
      <3> QED
        BY <1>1, <3>1, <3>2 DEF Live, UncertainIntent, Ops
    <2>2. x \in OperationRoots(q)
      BY <1>3, <1>5, <2>1 DEF OperationRoots
    <2>3. x \in OwnRoots(q)
      BY <1>2, <2>2, ImagesAreSome DEF OwnRoots
    <2> QED
      BY <1>3, <2>3, RootsAreProtected
  <1> QED
    BY <1>4, <1>5

LEMMA InvUnsettled == Inv => UnsettledIsKept
  <1> SUFFICES ASSUME Inv, NEW p \in Products
               PROVE  /\ \A i \in DOMAIN ops : CanLand(i) => ops[i].image \in Protected(p)
                      /\ \A j \in DOMAIN jobs : jobs[j].pushed /\ ~Admitted(j) => jobs[j].image \in Protected(p)
    BY DEF UnsettledIsKept
  <1>1. ASSUME NEW j \in DOMAIN jobs, ~Admitted(j) PROVE jobs[j].image \in Protected(p)
    <2>1. jobs[j].image # None
      BY RecordsAre, ImagesAreSome DEF JobRecords
    <2>2. jobs[j].image \in PublicationIntents("native")
      BY <1>1 DEF PublicationIntents
    <2>3. jobs[j].image \in OwnRoots("native") /\ "native" \in Products
      BY <2>1, <2>2 DEF OwnRoots, Products
    <2> QED
      BY <2>3, RootsAreProtected
  <1> QED
    BY <1>1, WritesAreKept

\* At most one release comes after one of the two newest.
LEMMA NewestReleasesAreKept ==
    ASSUME Inv, NEW n \in DOMAIN releases, n + 1 >= Len(releases), NEW p \in Products
    PROVE  releases[n].image \in Protected(p)
  <1> DEFINE x == releases[n].image
             later == {k \in DOMAIN releases : k > n /\ Proven(k)}
  <1>1. x \in Images /\ n \in Nat /\ Len(releases) \in Nat /\ DOMAIN releases = 1 .. Len(releases)
    BY RecordsAre
  <1>2. Cardinality(later) <= 1
    <2>1. later \in SUBSET {Len(releases)}
      BY <1>1
    <2>2. IsFiniteSet({Len(releases)}) /\ Cardinality({Len(releases)}) = 1
      BY FS_Singleton
    <2> QED
      BY <2>1, <2>2, FS_Subset
  <1>3. x \in ReleaseRoots("actions")
    BY <1>2 DEF ReleaseRoots, ProvenReleases, UnprovenReleases
  <1>4. x \in OwnRoots("actions") /\ "actions" \in Products
    BY <1>1, <1>3, ImagesAreSome DEF OwnRoots, Products
  <1> QED
    BY <1>4, RootsAreProtected

LEMMA InvWayBack == Inv => WayBackIsKept
  <1> SUFFICES ASSUME Inv, NEW p \in Products
               PROVE  /\ \A x \in replaced : x \in Protected(p)
                      /\ \A n \in DOMAIN releases : n + 1 >= Len(releases) => releases[n].image \in Protected(p)
    BY DEF WayBackIsKept
  <1>1. ASSUME NEW x \in replaced PROVE x \in Protected(p)
    <2>1. PICK i \in DOMAIN ops : ops[i].kind # "RESTORATION" /\ ops[i].base.image = x
      BY OpsAre DEF Inv, ReplacedOK
    <2>2. Owner(i) \in Products /\ i \in OpsOf(Owner(i))
      BY OpsAre, EnvIs DEF Owner, OpsOf, Ops
    <2>3. x # None
      BY ImagesAreSome DEF Inv, TypeOK
    <2>4. x \in GitOpsObserved(Owner(i))
      BY <2>1, <2>2 DEF GitOpsObserved
    <2>5. x \in OwnRoots(Owner(i))
      BY <2>3, <2>4 DEF OwnRoots
    <2> QED
      BY <2>2, <2>5, RootsAreProtected
  <1> QED
    BY <1>1, NewestReleasesAreKept

\* The hold that stands has no receipt of its own.
LEMMA OriginalsAreKept == OriginalIsKept
  <1> SUFFICES ASSUME NEW h \in DOMAIN holds, holds[h].state = "HELD", holds[h].original # None, NEW p \in Products
               PROVE  holds[h].original \in Protected(p)
    BY DEF OriginalIsKept
  <1>1. ~baselineHoldSettled(h)
    BY DEF baselineHoldSettled
  <1>2. holds[h].original \in baselineRoots("native")
    BY <1>1 DEF baselineRoots
  <1>3. holds[h].original \in OwnRoots("native") /\ "native" \in Products
    BY <1>2 DEF OwnRoots, Products
  <1> QED
    BY <1>3, RootsAreProtected

-----------------------------------------------------------------------------
(***************************************************************************)
(* Theorems                                                                *)
(***************************************************************************)

\* Every record the report reads is well typed, its histories are finite, and
\* a GitOps file always holds an image (Retention's state).
THEOREM TypeCorrect == Spec => []TypeOK
  <1>1. Inv => TypeOK
    BY DEF Inv
  <1> QED
    BY <1>1, InvHolds, PTL

\* The newest images of a product are kept (NewestPublishedImages and
\* effectiveKeepLast in domain/retention.go): whatever limit was configured
\* and however often an image was rebuilt, an image outside the report has at
\* least KeepFloor first published after it.
THEOREM NewestKept == Spec => []NewestAreKept
  BY InvHolds, InvNewest, PTL

\* What a write may still put into an environment, and what an upload may have
\* left in the registry, is in every report (uncertain intents, restoration
\* and publication roots in domain/retention.go).
THEOREM UnsettledKept == Spec => []UnsettledIsKept
  BY InvHolds, InvUnsettled, PTL

\* What a delivery replaced, and the two newest releases, are in every report
\* (frozen GitOps reads and release roots in domain/retention.go).
THEOREM WayBackKept == Spec => []WayBackIsKept
  BY InvHolds, InvWayBack, PTL

\* The baseline of the hold that stands is in every report
\* (domain/dev_baseline_retention.go).
THEOREM OriginalKept == Spec => []OriginalIsKept
  BY OriginalsAreKept, PTL


(***************************************************************************)
(* Part 2: the registry observer                                           *)
(***************************************************************************)

-----------------------------------------------------------------------------
(***************************************************************************)
(* The scan                                                                *)
(*                                                                         *)
(* As long as nothing blocks it, a scan is thorough: what it has read it   *)
(* has expanded, and what is next to that it has read too or has on its    *)
(* stack.                                                                  *)
(***************************************************************************)
ScanFields == {"phase", "stack", "todo", "nodes", "edges", "roots", "visited",
               "subjects", "depths", "refsets", "aliases", "first", "blockers"}

Frames == [op : {"visit", "referrer", "blob", "referrers"}, objs : SUBSET Objects,
           depth : Nat, from : Objects \union {Absent}]

\* "o" is still to be handled in the way "op", on account of "from".
InStack(stack, op, o, from) ==
    \E i \in 1..Len(stack) :
        stack[i].op = op /\ o \in stack[i].objs /\ stack[i].from = from

ToDo(s, op, o, from) == InStack(s.stack, op, o, from)

\* ... in a way that reads it.
Will(s, o, from) == \E op \in {"visit", "referrer", "blob"} : ToDo(s, op, o, from)

\* "o" was read and is known to be next to "from".
Joined(s, from, o) == Has(s, o) /\ <<from, o>> \in s.edges

\* Blobs are read as blobs and images as images; the referrers of an object
\* are asked for after it was read.
StackOK(s) ==
    /\ s.stack \in Seq(Frames)
    /\ \A o, from : ToDo(s, "blob", o, from) => o \notin Manifests
    /\ \A op \in {"visit", "referrer", "referrers"} : \A o, from : ToDo(s, op, o, from) => o \in Manifests
    /\ \A o, from : ToDo(s, "referrers", o, from) => o \in s.visited

ScanTypes(s) ==
    /\ DOMAIN s = ScanFields
    /\ StackOK(s)
    /\ DOMAIN s.depths = s.visited /\ \A o \in s.visited : s.depths[o] \in Nat
    /\ DOMAIN s.refsets \subseteq s.visited
    /\ \A d \in DOMAIN s.refsets : s.refsets[d] \subseteq Manifests
    /\ s.roots \subseteq Manifests
    /\ s.phase = "REREAD" => s.todo \subseteq DOMAIN s.refsets

\* An image was visited exactly if it was read, and then counts as a subject.
VisitedOK(s) ==
    /\ \A o \in Manifests : Has(s, o) => o \in s.visited
    /\ \A o \in s.visited : Has(s, o) /\ o \in Manifests /\ o \in s.subjects

\* What a visited image lists and refers to was read, or will be, and so was
\* the list of its referrers.
BelowOK(s) ==
    \A o \in s.visited :
        /\ \A c \in Content[o] : Joined(s, o, c) \/ Will(s, c, o)
        /\ Subject[o] # Absent => Joined(s, o, Subject[o]) \/ Will(s, Subject[o], o)
        /\ o \in DOMAIN s.refsets \/ ToDo(s, "referrers", o, Absent)

ReferrersOK(s) ==
    \A d \in DOMAIN s.refsets : \A r \in s.refsets[d] : Joined(s, d, r) \/ Will(s, r, d)

RootsOK(s) == \A r \in s.roots : Has(s, r) \/ Will(s, r, Absent)

\* In its second look the scan finds what did not move meanwhile: a tag is
\* still to be resolved or its image was read, ...
AgainOK(s) == s.phase = "AGAIN" => \A t \in fixed.tags : t \in s.todo \/ Has(s, tags[t])

\* ... and an object's referrers are still to be listed again or the list it
\* has holds everything that was there all the time.
RereadOK(s) ==
    s.phase = "REREAD" =>
        /\ s.stack = <<>>
        /\ \A t \in fixed.tags : Has(s, tags[t])
        /\ \A d \in DOMAIN s.refsets :
              d \in s.todo \/ \A x \in fixed.objects : Subject[x] = d => x \in s.refsets[d]

Thorough(s) ==
    /\ VisitedOK(s) /\ BelowOK(s) /\ ReferrersOK(s) /\ RootsOK(s)
    /\ AgainOK(s) /\ RereadOK(s)

\* What a scan or a report has was in the registry at "at" or later.
SeenSince(s, at) == \A o \in Objects : Has(s, o) => lastSeen[o] \in Nat /\ at <= lastSeen[o]

ScanOK ==
    scan # Absent =>
        /\ ScanTypes(scan)
        /\ journal.job \in 1..Len(observations)
        /\ journal.state = "started"
        /\ journal.started \in Nat
        /\ SeenSince(scan, journal.started)
        /\ observations[journal.job].roots \subseteq scan.roots
        /\ scan.blockers = {} => Thorough(scan)

-----------------------------------------------------------------------------
(***************************************************************************)
(* The inductive invariant                                                 *)
(***************************************************************************)

\* A complete report holds its roots, and with an object everything next to
\* it: its content, its subject and the referrers that were there all the
\* time of the second look.
Whole(g) ==
    /\ g.fixed.roots \subseteq Objects /\ g.fixed.objects \subseteq Objects
    /\ \A r \in observations[g.job].roots \union g.fixed.roots : Has(g, r)
    /\ \A o \in Objects : Has(g, o) =>
          /\ \A c \in Content[o] : Joined(g, o, c)
          /\ Subject[o] # Absent => Has(g, Subject[o])
          /\ \A x \in g.fixed.objects : Subject[x] = o => Has(g, x)

\* A report stays true in the journal, on the way and once it is admitted.
GraphOK(g) ==
    /\ g.job \in 1..Len(observations)
    /\ g.started \in Nat
    /\ SeenSince(g, g.started)
    /\ \A r \in g.content : r \in Objects /\ \A o \in Pull({r}) : Has(g, o)
    /\ g.complete => Whole(g)

RepositoryOK ==
    /\ now \in Nat
    /\ present \subseteq Objects
    /\ tags \in [Tags -> Manifests \union {Absent}]
    /\ \A o \in Objects :
          /\ lastSeen[o] \in Nat \union {Absent}
          /\ lastSeen[o] # Absent => lastSeen[o] <= now
          /\ o \in present => lastSeen[o] = now
    /\ fixed.objects \subseteq present
    /\ fixed.tags \subseteq {t \in Tags : tags[t] # Absent}

Statuses == {"QUEUED", "CLAIMED", "RUNNING", "SUCCEEDED", "FAILED", "DEADLINE_EXCEEDED",
             "RECONCILIATION_REQUIRED"}

Observation == [status : Statuses, roots : SUBSET Manifests, config : Nat, updated : Nat]

ServerOK ==
    /\ known \subseteq Manifests /\ protected \subseteq known
    /\ config \in Nat
    /\ observations \in Seq(Observation)
    /\ \A v \in inventories : GraphOK(v.graph)

JournalOK ==
    /\ DOMAIN journal = {"state", "job", "config", "started", "report"}
    /\ journal.state # "none" => journal.job \in 1..Len(observations)
    /\ journal.started # Absent => journal.started \in Nat /\ journal.started <= now
    /\ journal.report # Absent => journal.state = "report"
    /\ journal.state = "report" => GraphOK(journal.report) /\ journal.started \in Nat

RegistryInv == RepositoryOK /\ ServerOK /\ JournalOK /\ ScanOK

-----------------------------------------------------------------------------
(***************************************************************************)
(* Stacks and memories                                                     *)
(***************************************************************************)

\* What "t" leaves of "s" but for the fields "F".
SameBut(s, t, F) == DOMAIN t = DOMAIN s /\ \A f \in ScanFields \ F : t[f] = s[f]

\* What a blocker, a node and an edge change, and what they keep.
LEMMA BlockKeeps ==
    ASSUME NEW s, DOMAIN s = ScanFields, NEW code
    PROVE  /\ SameBut(s, block(s, code), {"blockers"})
           /\ block(s, code).blockers = s.blockers \union {code}
  BY DEF SameBut, block, ScanFields

LEMMA NodeKeeps ==
    ASSUME NEW s, DOMAIN s = ScanFields, NEW o, NEW a
    PROVE  /\ SameBut(s, node(s, o, a), {"nodes"})
           /\ DOMAIN node(s, o, a).nodes = DOMAIN s.nodes \union {o}
           /\ \A x : Has(node(s, o, a), x) <=> Has(s, x) \/ (a = "PRESENT" /\ x = o)
  BY DEF SameBut, node, With, Has, ScanFields

LEMMA EdgeKeeps ==
    ASSUME NEW s, DOMAIN s = ScanFields, NEW from, NEW to
    PROVE  /\ SameBut(s, edge(s, from, to), {"edges"})
           /\ s.edges \subseteq edge(s, from, to).edges
           /\ {from, to} \subseteq DOMAIN s.nodes => <<from, to>> \in edge(s, from, to).edges
  BY DEF SameBut, edge, ScanFields

\* A stack leaves to do the handling of "S" only.
Leaves(stack, op, S, from) ==
    \A op2, o, from2 : InStack(stack, op2, o, from2) <=> op2 = op /\ o \in S /\ from2 = from

LEMMA NextDepth == \A n \in Nat : n + 1 \in Nat
  OBVIOUS

\* What a frame, a concatenation and a pop leave to do.
LEMMA InFrame ==
    ASSUME NEW op \in {"visit", "referrer", "blob", "referrers"}, NEW S \in SUBSET Objects,
           NEW depth \in Nat, NEW from \in Objects \union {Absent}
    PROVE  /\ Frame(op, S, depth, from) \in Seq(Frames)
           /\ Leaves(Frame(op, S, depth, from), op, S, from)
  <1> DEFINE f == [op |-> op, objs |-> S, depth |-> depth, from |-> from]
  <1>1. f \in Frames
    BY DEF Frames
  <1>2. CASE S = {}
    BY <1>2 DEF Frame, Leaves, InStack
  <1>3. CASE S # {}
    <2>1. Frame(op, S, depth, from) = <<f>>
      BY <1>3 DEF Frame
    <2>2. <<f>> \in Seq(Frames) /\ Len(<<f>>) = 1 /\ <<f>>[1] = f
      BY <1>1
    <2> QED
      BY <2>1, <2>2 DEF Leaves, InStack
  <1> QED
    BY <1>2, <1>3

LEMMA InConcat ==
    ASSUME NEW a \in Seq(Frames), NEW b \in Seq(Frames)
    PROVE  /\ a \o b \in Seq(Frames)
           /\ \A op, o, from : InStack(a \o b, op, o, from)
                 <=> InStack(a, op, o, from) \/ InStack(b, op, o, from)
  <1>1. a \o b \in Seq(Frames) /\ Len(a \o b) = Len(a) + Len(b)
    BY ConcatProperties
  <1>2. Len(a) \in Nat /\ Len(b) \in Nat
    OBVIOUS
  <1>3. \A i \in 1..Len(a) : i \in 1..Len(a \o b) /\ (a \o b)[i] = a[i]
    BY <1>1, <1>2
  <1>4. \A i \in 1..Len(b) : Len(a) + i \in 1..Len(a \o b) /\ (a \o b)[Len(a) + i] = b[i]
    BY <1>1, <1>2
  <1>5. \A i \in 1..Len(a \o b) : i \in 1..Len(a) \/ \E k \in 1..Len(b) : i = Len(a) + k
    <2>1. TAKE i \in 1..Len(a \o b)
    <2>2. CASE i <= Len(a)
      BY <1>2, <2>2
    <2>3. CASE i > Len(a)
      <3>1. i - Len(a) \in 1..Len(b) /\ i = Len(a) + (i - Len(a))
        BY <1>1, <1>2, <2>3
      <3> QED
        BY <3>1
    <2> QED
      BY <1>2, <2>2, <2>3
  <1>6. ASSUME NEW op, NEW o, NEW from, InStack(a \o b, op, o, from)
        PROVE  InStack(a, op, o, from) \/ InStack(b, op, o, from)
    <2>1. PICK i \in 1..Len(a \o b) :
              (a \o b)[i].op = op /\ o \in (a \o b)[i].objs /\ (a \o b)[i].from = from
      BY <1>6 DEF InStack
    <2>2. CASE i \in 1..Len(a)
      BY <1>3, <2>1, <2>2 DEF InStack
    <2>3. CASE \E k \in 1..Len(b) : i = Len(a) + k
      BY <1>4, <2>1, <2>3 DEF InStack
    <2> QED
      BY <1>5, <2>2, <2>3
  <1>7. ASSUME NEW op, NEW o, NEW from, InStack(a, op, o, from)
        PROVE  InStack(a \o b, op, o, from)
    <2>1. PICK i \in 1..Len(a) : a[i].op = op /\ o \in a[i].objs /\ a[i].from = from
      BY <1>7 DEF InStack
    <2> QED
      BY <1>3, <2>1 DEF InStack
  <1>8. ASSUME NEW op, NEW o, NEW from, InStack(b, op, o, from)
        PROVE  InStack(a \o b, op, o, from)
    <2>1. PICK i \in 1..Len(b) : b[i].op = op /\ o \in b[i].objs /\ b[i].from = from
      BY <1>8 DEF InStack
    <2> QED
      BY <1>4, <2>1 DEF InStack
  <1> QED
    BY <1>1, <1>6, <1>7, <1>8

\* What is to do is on the top of the stack or below it.
LEMMA InTail ==
    ASSUME NEW a \in Seq(Frames), a # <<>>
    PROVE  /\ Head(a) \in Frames /\ Tail(a) \in Seq(Frames)
           /\ \A op, o, from : InStack(a, op, o, from)
                 <=> \/ op = Head(a).op /\ o \in Head(a).objs /\ from = Head(a).from
                     \/ InStack(Tail(a), op, o, from)
  <1>1. Head(a) \in Frames /\ Head(a) = a[1] /\ Tail(a) \in Seq(Frames)
    BY HeadTailProperties
  <1>2. Len(a) \in Nat /\ Len(a) > 0 /\ Len(Tail(a)) = Len(a) - 1
    BY EmptySeq
  <1>3. \A i \in 1..Len(Tail(a)) : i + 1 \in 1..Len(a) /\ Tail(a)[i] = a[i + 1]
    BY <1>2
  <1>4. \A i \in 1..Len(a) : i = 1 \/ \E k \in 1..Len(Tail(a)) : i = k + 1
    <2>1. TAKE i \in 1..Len(a)
    <2>2. CASE i # 1
      <3>1. i - 1 \in 1..Len(Tail(a)) /\ i = (i - 1) + 1
        BY <1>2, <2>2
      <3> QED
        BY <3>1
    <2> QED
      BY <2>2
  <1> QED
    BY <1>1, <1>2, <1>3, <1>4 DEF InStack

\* A pop takes one thing to do from the stack, a push adds some.
LEMMA PopKeeps ==
    ASSUME NEW s, DOMAIN s = ScanFields, s.stack \in Seq(Frames), s.stack # <<>>,
           NEW o \in Top(s).objs
    PROVE  /\ SameBut(s, Pop(s, o), {"stack"})
           /\ Pop(s, o).stack \in Seq(Frames)
           /\ \A op, x, from : ToDo(s, op, x, from)
                 <=> \/ ToDo(Pop(s, o), op, x, from)
                     \/ op = Top(s).op /\ x = o /\ from = Top(s).from
  <1> DEFINE f == Top(s)
             rest == Frame(f.op, f.objs \ {o}, f.depth, f.from)
  <1>1. f \in Frames /\ Tail(s.stack) \in Seq(Frames)
    BY InTail DEF Top
  <1>2. /\ f.op \in {"visit", "referrer", "blob", "referrers"}
        /\ f.objs \ {o} \in SUBSET Objects
        /\ f.depth \in Nat /\ f.from \in Objects \union {Absent}
    BY <1>1 DEF Frames
  <1>3. Pop(s, o).stack = rest \o Tail(s.stack) /\ SameBut(s, Pop(s, o), {"stack"})
    BY DEF Pop, SameBut, ScanFields
  <1> HIDE DEF f
  <1>4. /\ rest \in Seq(Frames)
        /\ \A op2, x, from2 : InStack(rest, op2, x, from2)
              <=> op2 = f.op /\ x \in f.objs \ {o} /\ from2 = f.from
    <2>1. rest \in Seq(Frames) /\ Leaves(rest, f.op, f.objs \ {o}, f.from)
      BY <1>2, InFrame
    <2> QED
      BY <2>1 DEF Leaves
  <1> HIDE DEF rest
  <1>5. /\ Pop(s, o).stack \in Seq(Frames)
        /\ \A op, x, from : InStack(Pop(s, o).stack, op, x, from)
              <=> InStack(rest, op, x, from) \/ InStack(Tail(s.stack), op, x, from)
    <2>1. /\ rest \o Tail(s.stack) \in Seq(Frames)
          /\ \A op, x, from : InStack(rest \o Tail(s.stack), op, x, from)
                <=> InStack(rest, op, x, from) \/ InStack(Tail(s.stack), op, x, from)
      BY <1>1, <1>4, InConcat
    <2> QED
      BY <1>3, <2>1
  <1>6. \A op, x, from : InStack(s.stack, op, x, from)
              <=> \/ op = f.op /\ x \in f.objs /\ from = f.from
                  \/ InStack(Tail(s.stack), op, x, from)
    BY InTail DEF f, Top
  <1>7. o \in f.objs
    BY DEF f
  <1> QED
    BY <1>3, <1>4, <1>5, <1>6, <1>7 DEF ToDo, f

LEMMA PushKeeps ==
    ASSUME NEW s, DOMAIN s = ScanFields, s.stack \in Seq(Frames), NEW frames \in Seq(Frames)
    PROVE  /\ SameBut(s, Push(s, frames), {"stack"})
           /\ Push(s, frames).stack \in Seq(Frames)
           /\ \A op, x, from : ToDo(Push(s, frames), op, x, from)
                 <=> InStack(frames, op, x, from) \/ ToDo(s, op, x, from)
  <1>1. Push(s, frames).stack = frames \o s.stack /\ SameBut(s, Push(s, frames), {"stack"})
    BY DEF Push, SameBut, ScanFields
  <1> QED
    BY <1>1, InConcat DEF ToDo

LEMMA SameButTrans ==
    ASSUME NEW a, NEW b, NEW c, NEW F, NEW G, NEW H, F \subseteq H, G \subseteq H,
           SameBut(a, b, F), SameBut(b, c, G)
    PROVE  SameBut(a, c, H)
  BY DEF SameBut

-----------------------------------------------------------------------------
(***************************************************************************)
(* What the scanner's helpers do to its memory                             *)
(***************************************************************************)

\* What reading "o" leaves to do.
Below(o, op, x, from) ==
    \/ op = (IF Kind[o] = "INDEX" THEN "visit" ELSE "blob") /\ x \in Content[o] /\ from = o
    \/ op = "visit" /\ x \in {Subject[o]} \ {Absent} /\ from = o
    \/ op = "referrers" /\ x = o /\ from = Absent

\* The frames that say so (Expanded).
BelowFrames(o, depth) ==
    Frame(IF Kind[o] = "INDEX" THEN "visit" ELSE "blob", Content[o], depth + 1, o)
    \o Frame("visit", {Subject[o]} \ {Absent}, depth + 1, o)
    \o Frame("referrers", {o}, depth, Absent)

\* From "s" to "t" no more than that, and no less, was added to what is to do.
OnlyBelow(s, t, o) ==
    \A op, x, from : ToDo(t, op, x, from) => ToDo(s, op, x, from) \/ Below(o, op, x, from)

AllBelow(s, t, o) ==
    \A op, x, from : ToDo(s, op, x, from) \/ Below(o, op, x, from) => ToDo(t, op, x, from)

LEMMA BelowFramesLeave ==
    ASSUME RegistryAssumption, NEW o \in Objects, NEW depth \in Nat
    PROVE  /\ BelowFrames(o, depth) \in Seq(Frames)
           /\ \A op, x, from : InStack(BelowFrames(o, depth), op, x, from) <=> Below(o, op, x, from)
  <1> DEFINE op1 == IF Kind[o] = "INDEX" THEN "visit" ELSE "blob"
             a == Frame(op1, Content[o], depth + 1, o)
             b == Frame("visit", {Subject[o]} \ {Absent}, depth + 1, o)
             c == Frame("referrers", {o}, depth, Absent)
  <1>1. /\ op1 \in {"visit", "referrer", "blob", "referrers"}
        /\ Content[o] \in SUBSET Objects /\ {Subject[o]} \ {Absent} \in SUBSET Objects
        /\ {o} \in SUBSET Objects
        /\ depth + 1 \in Nat
        /\ o \in Objects \union {Absent} /\ Absent \in Objects \union {Absent}
        /\ "visit" \in {"visit", "referrer", "blob", "referrers"}
        /\ "referrers" \in {"visit", "referrer", "blob", "referrers"}
    BY DEF RegistryAssumption
  <1> HIDE DEF op1
  <1>2. a \in Seq(Frames) /\ Leaves(a, op1, Content[o], o)
    BY <1>1, InFrame
  <1>3. b \in Seq(Frames) /\ Leaves(b, "visit", {Subject[o]} \ {Absent}, o)
    BY <1>1, InFrame
  <1>4. c \in Seq(Frames) /\ Leaves(c, "referrers", {o}, Absent)
    BY <1>1, InFrame
  <1> HIDE DEF a, b, c
  <1>5. /\ a \o b \in Seq(Frames)
        /\ \A op, x, from : InStack(a \o b, op, x, from)
              <=> InStack(a, op, x, from) \/ InStack(b, op, x, from)
    BY <1>2, <1>3, InConcat
  <1>6. /\ (a \o b) \o c \in Seq(Frames)
        /\ \A op, x, from : InStack((a \o b) \o c, op, x, from)
              <=> InStack(a \o b, op, x, from) \/ InStack(c, op, x, from)
    BY <1>4, <1>5, InConcat
  <1>7. BelowFrames(o, depth) = (a \o b) \o c
    BY DEF BelowFrames, a, b, c, op1
  <1>8. \A op, x, from : Below(o, op, x, from) <=>
            \/ op = op1 /\ x \in Content[o] /\ from = o
            \/ op = "visit" /\ x \in {Subject[o]} \ {Absent} /\ from = o
            \/ op = "referrers" /\ x \in {o} /\ from = Absent
    BY DEF Below, op1
  <1>9. ASSUME NEW op, NEW x, NEW from
        PROVE  InStack(BelowFrames(o, depth), op, x, from) <=> Below(o, op, x, from)
    <2>1. InStack(a, op, x, from) <=> op = op1 /\ x \in Content[o] /\ from = o
      BY <1>2 DEF Leaves
    <2>2. InStack(b, op, x, from) <=> op = "visit" /\ x \in {Subject[o]} \ {Absent} /\ from = o
      BY <1>3 DEF Leaves
    <2>3. InStack(c, op, x, from) <=> op = "referrers" /\ x \in {o} /\ from = Absent
      BY <1>4 DEF Leaves
    <2> QED
      BY <1>5, <1>6, <1>7, <1>8, <2>1, <2>2, <2>3
  <1> QED
    BY <1>6, <1>7, <1>9

\* What reading an object for the first time does to the memory "s".
DidExpand(s, t, o) ==
    /\ SameBut(s, t, {"nodes", "subjects", "stack", "blockers"})
    /\ t.stack \in Seq(Frames)
    /\ s.blockers \subseteq t.blockers /\ s.subjects \subseteq t.subjects
    /\ o \in DOMAIN t.nodes /\ DOMAIN s.nodes \subseteq DOMAIN t.nodes
    /\ \A x : Has(t, x) <=> Has(s, x) \/ x = o
    /\ OnlyBelow(s, t, o)
    /\ t.blockers = {} => o \in t.subjects /\ AllBelow(s, t, o)

LEMMA ExpandedDid ==
    ASSUME RegistryAssumption, NEW s, DOMAIN s = ScanFields, s.stack \in Seq(Frames),
           NEW o \in Objects, NEW depth \in Nat
    PROVE  DidExpand(s, Expanded(s, o, depth), o)
  <1> DEFINE n == node(s, o, "PRESENT")
  <1>1. /\ SameBut(s, n, {"nodes"})
        /\ o \in DOMAIN n.nodes /\ DOMAIN s.nodes \subseteq DOMAIN n.nodes
        /\ \A x : Has(n, x) <=> Has(s, x) \/ x = o
    BY NodeKeeps
  <1> HIDE DEF n
  <1>2. /\ DOMAIN n = ScanFields /\ n.stack = s.stack /\ n.blockers = s.blockers
        /\ n.subjects = s.subjects
    BY <1>1 DEF SameBut, ScanFields
  <1>3. CASE depth >= MaxDepth
    <2> DEFINE t == block(n, "limit")
    <2>1. Expanded(s, o, depth) = t
      BY <1>3 DEF Expanded, n
    <2>2. SameBut(n, t, {"blockers"}) /\ t.blockers = n.blockers \union {"limit"}
      BY <1>2, BlockKeeps
    <2> HIDE DEF t
    <2>3. /\ t.stack = s.stack /\ t.nodes = n.nodes /\ t.subjects = s.subjects
          /\ t.blockers # {} /\ s.blockers \subseteq t.blockers
      BY <1>2, <2>2 DEF SameBut, ScanFields
    <2>4. SameBut(s, t, {"nodes", "subjects", "stack", "blockers"})
      BY <1>1, <2>2 DEF SameBut
    <2>5. \A x : Has(t, x) <=> Has(n, x)
      BY <2>3 DEF Has
    <2> QED
      BY <1>1, <2>1, <2>3, <2>4, <2>5 DEF DidExpand, OnlyBelow, ToDo
  <1>4. CASE ~(depth >= MaxDepth)
    <2> DEFINE m == [n EXCEPT !.subjects = @ \union {o}]
               t == Push(m, BelowFrames(o, depth))
    <2>1. Expanded(s, o, depth) = t
      BY <1>4 DEF Expanded, n, BelowFrames
    <2>2. SameBut(n, m, {"subjects"}) /\ m.subjects = s.subjects \union {o}
      BY <1>2 DEF SameBut, ScanFields
    <2> HIDE DEF m
    <2>3. /\ DOMAIN m = ScanFields /\ m.stack = s.stack /\ m.nodes = n.nodes
          /\ m.blockers = s.blockers
      BY <1>2, <2>2 DEF SameBut, ScanFields
    <2>4. /\ SameBut(m, t, {"stack"})
          /\ t.stack \in Seq(Frames)
          /\ \A op, x, from : ToDo(t, op, x, from)
                <=> InStack(BelowFrames(o, depth), op, x, from) \/ ToDo(m, op, x, from)
      BY <2>3, PushKeeps, BelowFramesLeave
    <2> HIDE DEF t
    <2>5. /\ t.nodes = n.nodes /\ t.subjects = s.subjects \union {o} /\ t.blockers = s.blockers
      BY <2>2, <2>3, <2>4 DEF SameBut, ScanFields
    <2>6. SameBut(s, t, {"nodes", "subjects", "stack", "blockers"})
      BY <1>1, <2>2, <2>4 DEF SameBut
    <2>7. \A x : Has(t, x) <=> Has(n, x)
      BY <2>5 DEF Has
    <2>8. \A op, x, from : ToDo(t, op, x, from) <=> Below(o, op, x, from) \/ ToDo(s, op, x, from)
      BY <2>3, <2>4, BelowFramesLeave DEF ToDo
    <2>9. OnlyBelow(s, t, o) /\ AllBelow(s, t, o)
      BY <2>8 DEF OnlyBelow, AllBelow
    <2> QED
      BY <1>1, <2>1, <2>4, <2>5, <2>6, <2>7, <2>9 DEF DidExpand
  <1> QED
    BY <1>3, <1>4

\* What a visit does to the memory "s".
DidVisit(s, t, o, depth, outcome) ==
    /\ SameBut(s, t, {"nodes", "visited", "depths", "subjects", "stack", "blockers"})
    /\ t.stack \in Seq(Frames)
    /\ s.blockers \subseteq t.blockers /\ s.subjects \subseteq t.subjects
    /\ o \in DOMAIN t.nodes /\ DOMAIN s.nodes \subseteq DOMAIN t.nodes
    /\ t.visited = s.visited \union {o}
    /\ DOMAIN s.depths = s.visited =>
          /\ DOMAIN t.depths = t.visited
          /\ \A x \in t.visited : t.depths[x] = IF x \in s.visited THEN s.depths[x] ELSE depth
    /\ \A x : Has(s, x) => Has(t, x)
    /\ \A x : Has(t, x) => Has(s, x) \/ (x = o /\ outcome = "ok" /\ o \notin s.visited)
    /\ OnlyBelow(s, t, o)
    /\ o \in s.visited => SameBut(s, t, {"nodes"})
    /\ o \notin s.visited /\ t.blockers = {} => Has(t, o) /\ o \in t.subjects /\ AllBelow(s, t, o)

LEMMA VisitDid ==
    ASSUME RegistryAssumption, NEW s, DOMAIN s = ScanFields, s.stack \in Seq(Frames),
           NEW o \in Objects, NEW depth \in Nat, NEW outcome
    PROVE  DidVisit(s, visit(s, o, depth, outcome), o, depth, outcome)
  <1> DEFINE s1 == node(s, o, "UNKNOWN")
             s2 == [s1 EXCEPT !.visited = @ \union {o}, !.depths = With(@, o, depth)]
  <1>1. /\ SameBut(s, s1, {"nodes"})
        /\ o \in DOMAIN s1.nodes /\ DOMAIN s.nodes \subseteq DOMAIN s1.nodes
        /\ \A x : Has(s1, x) <=> Has(s, x)
    BY NodeKeeps
  <1>2. visit(s, o, depth, outcome) =
            IF o \in s.visited THEN s1
            ELSE IF outcome = "ok" THEN Expanded(s2, o, depth) ELSE block(s2, outcome)
    BY DEF visit
  <1> HIDE DEF s1
  <1>3. /\ DOMAIN s1 = ScanFields /\ s1.stack = s.stack /\ s1.blockers = s.blockers
        /\ s1.subjects = s.subjects /\ s1.visited = s.visited /\ s1.depths = s.depths
    BY <1>1 DEF SameBut, ScanFields
  <1>4. /\ SameBut(s1, s2, {"visited", "depths"})
        /\ s2.visited = s.visited \union {o}
        /\ s2.depths = With(s.depths, o, depth)
    BY <1>3 DEF SameBut, ScanFields
  <1> HIDE DEF s2
  <1>5. /\ DOMAIN s2 = ScanFields /\ s2.stack = s.stack /\ s2.blockers = s.blockers
        /\ s2.subjects = s.subjects /\ s2.nodes = s1.nodes
        /\ \A x : Has(s2, x) <=> Has(s, x)
    BY <1>1, <1>3, <1>4 DEF SameBut, ScanFields, Has
  <1>6. SameBut(s, s2, {"nodes", "visited", "depths"})
    BY <1>1, <1>4 DEF SameBut
  <1>7. \A op, x, from : ToDo(s2, op, x, from) <=> ToDo(s, op, x, from)
    BY <1>5 DEF ToDo
  <1>8. ASSUME o \notin s.visited, DOMAIN s.depths = s.visited
        PROVE  /\ DOMAIN s2.depths = s2.visited
               /\ \A x \in s2.visited :
                     s2.depths[x] = IF x \in s.visited THEN s.depths[x] ELSE depth
    BY <1>4, <1>8 DEF With
  <1>9. CASE o \in s.visited
    <2>1. SameBut(s, s1, {"nodes", "visited", "depths", "subjects", "stack", "blockers"})
      BY <1>1 DEF SameBut
    <2>2. OnlyBelow(s, s1, o)
      BY <1>3 DEF OnlyBelow, ToDo
    <2>3. DidVisit(s, s1, o, depth, outcome)
      BY <1>1, <1>3, <1>9, <2>1, <2>2 DEF DidVisit
    <2> QED
      BY <1>2, <1>9, <2>3
  <1>10. CASE o \notin s.visited /\ outcome = "ok"
    <2> DEFINE t == Expanded(s2, o, depth)
    <2>1. DidExpand(s2, t, o)
      BY <1>5, ExpandedDid
    <2> HIDE DEF t
    <2>2. SameBut(s, t, {"nodes", "visited", "depths", "subjects", "stack", "blockers"})
      BY <1>6, <2>1 DEF SameBut, DidExpand
    <2>3. t.visited = s2.visited /\ t.depths = s2.depths
      BY <1>5, <2>1 DEF SameBut, DidExpand, ScanFields
    <2>4. /\ OnlyBelow(s, t, o)
          /\ t.blockers = {} => o \in t.subjects /\ AllBelow(s, t, o)
      BY <1>7, <2>1 DEF DidExpand, OnlyBelow, AllBelow
    <2>5. /\ t.stack \in Seq(Frames)
          /\ s.blockers \subseteq t.blockers /\ s.subjects \subseteq t.subjects
          /\ o \in DOMAIN t.nodes /\ DOMAIN s.nodes \subseteq DOMAIN t.nodes
          /\ \A x : Has(t, x) <=> Has(s, x) \/ x = o
      BY <1>1, <1>5, <2>1 DEF DidExpand
    <2>6. DidVisit(s, t, o, depth, outcome)
      BY <1>4, <1>8, <1>10, <2>2, <2>3, <2>4, <2>5 DEF DidVisit
    <2> QED
      BY <1>2, <1>10, <2>6 DEF t
  <1>11. CASE o \notin s.visited /\ outcome # "ok"
    <2> DEFINE t == block(s2, outcome)
    <2>1. SameBut(s2, t, {"blockers"}) /\ t.blockers = s.blockers \union {outcome}
      BY <1>5, BlockKeeps
    <2> HIDE DEF t
    <2>2. SameBut(s, t, {"nodes", "visited", "depths", "subjects", "stack", "blockers"})
      BY <1>6, <2>1 DEF SameBut
    <2>3. /\ t.visited = s2.visited /\ t.depths = s2.depths /\ t.nodes = s1.nodes
          /\ t.stack = s.stack /\ t.subjects = s.subjects /\ t.blockers # {}
      BY <1>5, <2>1 DEF SameBut, ScanFields
    <2>4. \A x : Has(t, x) <=> Has(s, x)
      BY <1>1, <2>3 DEF Has
    <2>5. OnlyBelow(s, t, o)
      BY <2>3 DEF OnlyBelow, ToDo
    <2>6. DidVisit(s, t, o, depth, outcome)
      BY <1>1, <1>4, <1>8, <1>11, <2>1, <2>2, <2>3, <2>4, <2>5 DEF DidVisit
    <2> QED
      BY <1>2, <1>11, <2>6 DEF t
  <1> QED
    BY <1>9, <1>10, <1>11

-----------------------------------------------------------------------------
(***************************************************************************)
(* A step that meets no obstacle                                           *)
(***************************************************************************)

\* What was to be done is done.
Done(t, op, x, from) ==
    IF op = "referrers" THEN x \in DOMAIN t.refsets
    ELSE Has(t, x) /\ (from \in DOMAIN t.nodes => <<from, x>> \in t.edges)

\* A step of the scan keeps what it knows and does what it takes from the stack.
Progress(s, t) ==
    /\ \A x : Has(s, x) => Has(t, x)
    /\ s.edges \subseteq t.edges /\ s.subjects \subseteq t.subjects /\ s.visited \subseteq t.visited
    /\ \A op, x, from : ToDo(s, op, x, from) => ToDo(t, op, x, from) \/ Done(t, op, x, from)
    /\ \A o \in t.visited \ s.visited :
          /\ Has(t, o) /\ o \in Manifests /\ o \in t.subjects
          /\ \A op, x, from : Below(o, op, x, from) => ToDo(t, op, x, from)
    /\ \A o \in Manifests : Has(t, o) => Has(s, o) \/ o \in t.visited
    /\ DOMAIN s.refsets \subseteq DOMAIN t.refsets /\ DOMAIN t.refsets \subseteq t.visited
    /\ \A d \in DOMAIN t.refsets : \A r \in t.refsets[d] :
          (d \in DOMAIN s.refsets /\ r \in s.refsets[d]) \/ Will(t, r, d)
    /\ \A r \in t.roots : r \in s.roots \/ Has(t, r) \/ Will(t, r, Absent)

\* What is in memory or will be.
Owed(s, from, o) == Joined(s, from, o) \/ Will(s, o, from)

LEMMA ProgressJoins ==
    ASSUME NEW s, NEW t, Progress(s, t), NEW o, Has(t, o), NEW x, Owed(s, o, x)
    PROVE  Owed(t, o, x)
  <1>1. CASE Joined(s, o, x)
    BY <1>1 DEF Progress, Joined, Owed
  <1>2. CASE Will(s, x, o)
    <2>1. PICK op \in {"visit", "referrer", "blob"} : ToDo(s, op, x, o)
      BY <1>2 DEF Will
    <2>2. ToDo(t, op, x, o) \/ Done(t, op, x, o)
      BY <2>1 DEF Progress
    <2>3. o \in DOMAIN t.nodes /\ op # "referrers"
      BY <2>1 DEF Has
    <2> QED
      BY <2>1, <2>2, <2>3 DEF Done, Will, Joined, Owed
  <1> QED
    BY <1>1, <1>2 DEF Owed

\* No obstacle, no gap.
NoGap(s) == VisitedOK(s) /\ BelowOK(s) /\ ReferrersOK(s) /\ RootsOK(s)

LEMMA ProgressKeeps ==
    ASSUME RegistryAssumption, NEW s, NEW t, NoGap(s), Progress(s, t)
    PROVE  NoGap(t)
  <1>1. VisitedOK(t)
    BY DEF NoGap, VisitedOK, Progress
  <1>2. BelowOK(t)
    <2>1. ASSUME NEW o \in t.visited, NEW c \in Content[o]
          PROVE  Joined(t, o, c) \/ Will(t, c, o)
      <3>1. CASE o \in s.visited
        BY <1>1, <3>1, ProgressJoins DEF NoGap, BelowOK, Owed, VisitedOK
      <3>2. CASE o \notin s.visited
        <4>1. \A op, x, from : Below(o, op, x, from) => ToDo(t, op, x, from)
          BY <3>2 DEF Progress
        <4>2. \E op \in {"visit", "blob"} : Below(o, op, c, o)
          BY DEF Below
        <4> QED
          BY <4>1, <4>2 DEF Will
      <3> QED
        BY <3>1, <3>2
    <2>2. ASSUME NEW o \in t.visited, Subject[o] # Absent
          PROVE  Joined(t, o, Subject[o]) \/ Will(t, Subject[o], o)
      <3>1. CASE o \in s.visited
        BY <1>1, <2>2, <3>1, ProgressJoins DEF NoGap, BelowOK, Owed, VisitedOK
      <3>2. CASE o \notin s.visited
        <4>1. \A op, x, from : Below(o, op, x, from) => ToDo(t, op, x, from)
          BY <3>2 DEF Progress
        <4>2. Below(o, "visit", Subject[o], o)
          BY <2>2 DEF Below
        <4> QED
          BY <4>1, <4>2 DEF Will
      <3> QED
        BY <3>1, <3>2
    <2>3. ASSUME NEW o \in t.visited
          PROVE  o \in DOMAIN t.refsets \/ ToDo(t, "referrers", o, Absent)
      <3>1. CASE o \in s.visited
        BY <3>1 DEF NoGap, BelowOK, Progress, Done
      <3>2. CASE o \notin s.visited
        <4>1. \A op, x, from : Below(o, op, x, from) => ToDo(t, op, x, from)
          BY <3>2 DEF Progress
        <4> QED
          BY <4>1 DEF Below
      <3> QED
        BY <3>1, <3>2
    <2> QED
      BY <2>1, <2>2, <2>3 DEF BelowOK
  <1>3. ReferrersOK(t)
    <2>1. ASSUME NEW d \in DOMAIN t.refsets, NEW r \in t.refsets[d]
          PROVE  Joined(t, d, r) \/ Will(t, r, d)
      <3>1. CASE d \in DOMAIN s.refsets /\ r \in s.refsets[d]
        <4>1. Owed(s, d, r)
          BY <3>1 DEF NoGap, ReferrersOK, Owed
        <4>2. Has(t, d)
          BY <1>1 DEF Progress, VisitedOK
        <4> QED
          BY <4>1, <4>2, ProgressJoins DEF Owed
      <3> QED
        BY <3>1 DEF Progress
    <2> QED
      BY <2>1 DEF ReferrersOK
  <1>4. RootsOK(t)
    <2>1. ASSUME NEW r \in s.roots
          PROVE  Has(t, r) \/ Will(t, r, Absent)
      <3>1. CASE Has(s, r)
        BY <3>1 DEF Progress
      <3>2. CASE Will(s, r, Absent)
        <4>1. PICK op \in {"visit", "referrer", "blob"} : ToDo(s, op, r, Absent)
          BY <3>2 DEF Will
        <4>2. ToDo(t, op, r, Absent) \/ Done(t, op, r, Absent)
          BY <4>1 DEF Progress
        <4> QED
          BY <4>1, <4>2 DEF Done, Will
      <3> QED
        BY <3>1, <3>2 DEF NoGap, RootsOK
    <2> QED
      BY <2>1 DEF RootsOK, Progress
  <1> QED
    BY <1>1, <1>2, <1>3, <1>4 DEF NoGap

\* What a request for a blob does to the memory "s".
DidBlob(s, t, o, from, outcome) ==
    /\ SameBut(s, t, {"nodes", "edges", "blockers"})
    /\ s.blockers \subseteq t.blockers /\ s.edges \subseteq t.edges
    /\ \A x : Has(s, x) => Has(t, x)
    /\ \A x : Has(t, x) => Has(s, x) \/ (x = o /\ outcome = "ok" /\ ~Has(s, o))
    /\ t.blockers = {} => Has(t, o) /\ (from \in DOMAIN t.nodes => <<from, o>> \in t.edges)

LEMMA BlobDid ==
    ASSUME NEW s, DOMAIN s = ScanFields, NEW o, NEW from,
           NEW outcome \in {"ok", "missing", "request_failed"}
    PROVE  DidBlob(s, blob(s, o, from, outcome), o, from, outcome)
  <1> DEFINE n == node(s, o, "UNKNOWN")
             k == edge(n, from, o)
  <1>1. /\ SameBut(s, n, {"nodes"}) /\ DOMAIN n.nodes = DOMAIN s.nodes \union {o}
        /\ \A x : Has(n, x) <=> Has(s, x)
    BY NodeKeeps
  <1> HIDE DEF n
  <1>2. DOMAIN n = ScanFields /\ n.edges = s.edges /\ n.blockers = s.blockers
    BY <1>1 DEF SameBut, ScanFields
  <1>3. /\ SameBut(n, k, {"edges"}) /\ s.edges \subseteq k.edges
        /\ from \in DOMAIN n.nodes => <<from, o>> \in k.edges
    BY <1>1, <1>2, EdgeKeeps
  <1>4. blob(s, o, from, outcome) =
            IF Has(k, o) THEN k
            ELSE CASE outcome = "ok" -> node(k, o, "PRESENT")
                   [] outcome = "missing" -> block(node(k, o, "MISSING"), "missing")
                   [] OTHER -> block(k, outcome)
    BY DEF blob, k, n
  <1> HIDE DEF k
  <1>5. DOMAIN k = ScanFields /\ k.nodes = n.nodes /\ k.blockers = s.blockers
    BY <1>2, <1>3 DEF SameBut, ScanFields
  <1>6. \A x : Has(k, x) <=> Has(s, x)
    BY <1>1, <1>5 DEF Has
  <1>7. SameBut(s, k, {"nodes", "edges", "blockers"})
    BY <1>1, <1>3 DEF SameBut
  <1>8. CASE Has(k, o)
    BY <1>3, <1>4, <1>5, <1>6, <1>7, <1>8 DEF DidBlob
  <1>9. CASE ~Has(k, o) /\ outcome = "ok"
    <2> DEFINE t == node(k, o, "PRESENT")
    <2>1. /\ SameBut(k, t, {"nodes"}) /\ DOMAIN t.nodes = DOMAIN k.nodes \union {o}
          /\ \A x : Has(t, x) <=> Has(k, x) \/ x = o
      BY <1>5, NodeKeeps
    <2>2. blob(s, o, from, outcome) = t
      BY <1>4, <1>9
    <2> HIDE DEF t
    <2>3. SameBut(s, t, {"nodes", "edges", "blockers"})
      BY <1>7, <2>1 DEF SameBut
    <2>4. t.blockers = s.blockers /\ t.edges = k.edges /\ DOMAIN t.nodes = DOMAIN n.nodes
      BY <1>1, <1>5, <2>1 DEF SameBut, ScanFields
    <2> QED
      BY <1>3, <1>6, <1>9, <2>1, <2>2, <2>3, <2>4 DEF DidBlob
  <1>10. CASE ~Has(k, o) /\ outcome = "missing"
    <2> DEFINE m == node(k, o, "MISSING")
               t == block(m, "missing")
    <2>1. SameBut(k, m, {"nodes"}) /\ \A x : Has(m, x) <=> Has(k, x)
      BY <1>5, NodeKeeps
    <2>2. blob(s, o, from, outcome) = t
      BY <1>4, <1>10
    <2> HIDE DEF m
    <2>3. DOMAIN m = ScanFields /\ m.edges = k.edges /\ m.blockers = s.blockers
      BY <1>5, <2>1 DEF SameBut, ScanFields
    <2>4. SameBut(m, t, {"blockers"}) /\ t.blockers = m.blockers \union {"missing"}
      BY <2>3, BlockKeeps
    <2> HIDE DEF t
    <2>5. SameBut(s, t, {"nodes", "edges", "blockers"})
      BY <1>7, <2>1, <2>4 DEF SameBut
    <2>6. t.edges = k.edges /\ t.nodes = m.nodes
      BY <2>3, <2>4 DEF SameBut, ScanFields
    <2>7. \A x : Has(t, x) <=> Has(s, x)
      BY <1>6, <2>1, <2>6 DEF Has
    <2> QED
      BY <1>3, <2>2, <2>3, <2>4, <2>5, <2>6, <2>7 DEF DidBlob
  <1>11. CASE ~Has(k, o) /\ outcome = "request_failed"
    <2> DEFINE t == block(k, outcome)
    <2>1. SameBut(k, t, {"blockers"}) /\ t.blockers = k.blockers \union {outcome}
      BY <1>5, BlockKeeps
    <2>2. blob(s, o, from, outcome) = t
      BY <1>4, <1>11
    <2> HIDE DEF t
    <2>3. SameBut(s, t, {"nodes", "edges", "blockers"})
      BY <1>7, <2>1 DEF SameBut
    <2>4. t.edges = k.edges /\ t.nodes = k.nodes
      BY <1>5, <2>1 DEF SameBut, ScanFields
    <2>5. \A x : Has(t, x) <=> Has(s, x)
      BY <1>6, <2>4 DEF Has
    <2> QED
      BY <1>3, <1>5, <2>1, <2>2, <2>3, <2>4, <2>5 DEF DidBlob
  <1> QED
    BY <1>8, <1>9, <1>10, <1>11

-----------------------------------------------------------------------------
(***************************************************************************)
(* The steps of the scan                                                   *)
(***************************************************************************)

\* What is below an image is an image or a blob, as it is looked for.
LEMMA BelowTyped ==
    ASSUME RegistryAssumption, NEW o \in Manifests, NEW op, NEW x, NEW from, Below(o, op, x, from)
    PROVE  IF op = "blob" THEN x \notin Manifests ELSE x \in Manifests
  BY DEF RegistryAssumption, Below, Manifests

\* A stack that holds what another one held, and what is below a visited image.
LEMMA StackKept ==
    ASSUME RegistryAssumption, NEW s, NEW t, StackOK(s), t.stack \in Seq(Frames),
           NEW o \in Manifests, s.visited \union {o} \subseteq t.visited,
           \A op, x, from : ToDo(t, op, x, from) => ToDo(s, op, x, from) \/ Below(o, op, x, from)
    PROVE  StackOK(t)
  <1>1. ASSUME NEW x, NEW from, ToDo(t, "blob", x, from)
        PROVE  x \notin Manifests
    BY <1>1, BelowTyped DEF StackOK
  <1>2. ASSUME NEW op \in {"visit", "referrer", "referrers"}, NEW x, NEW from, ToDo(t, op, x, from)
        PROVE  x \in Manifests
    <2>1. op # "blob"
      BY <1>2
    <2>2. CASE ToDo(s, op, x, from)
      BY <1>2, <2>2 DEF StackOK
    <2>3. CASE Below(o, op, x, from)
      BY <2>1, <2>3, BelowTyped
    <2> QED
      BY <1>2, <2>2, <2>3
  <1>3. ASSUME NEW x, NEW from, ToDo(t, "referrers", x, from)
        PROVE  x \in t.visited
    BY <1>3 DEF StackOK, Below
  <1> QED
    BY <1>1, <1>2, <1>3 DEF StackOK

\* A stack with nothing new on it.
LEMMA StackSame ==
    ASSUME NEW s, NEW t, StackOK(s), t.stack \in Seq(Frames), s.visited \subseteq t.visited,
           \A op, x, from : ToDo(t, op, x, from) => ToDo(s, op, x, from)
    PROVE  StackOK(t)
  BY DEF StackOK

\* A step of the scan leaves everything else alone.
LEMMA ScanStepKeeps ==
    ASSUME RegistryInv, scan # Absent,
           UNCHANGED <<registry, now, knowledge, authority, observations, inventories, journal>>,
           fixed'.objects \subseteq present, fixed'.tags \subseteq {t \in Tags : tags[t] # Absent},
           ScanTypes(scan'), scan.roots \subseteq scan'.roots,
           \A x \in Objects : Has(scan', x) => Has(scan, x) \/ x \in present,
           scan'.blockers = {} => Thorough(scan)'
    PROVE  RegistryInv'
  <1> USE DEF registry, knowledge, authority
  <1>1. RepositoryOK'
    BY DEF RegistryInv, RepositoryOK
  <1>2. \A g : GraphOK(g) => GraphOK(g)'
    BY DEF GraphOK, SeenSince, Whole
  <1>3. ServerOK'
    BY <1>2 DEF RegistryInv, ServerOK
  <1>4. JournalOK'
    BY <1>2 DEF RegistryInv, JournalOK
  <1>5. SeenSince(scan', journal.started)
    <2>1. SeenSince(scan, journal.started) /\ journal.started \in Nat /\ journal.started <= now
          /\ now \in Nat /\ \A o \in Objects : o \in present => lastSeen[o] = now
      <3>1. journal.started # Absent
        BY RegistryAssumption DEF RegistryAssumption, RegistryInv, ScanOK
      <3> QED
        BY <3>1 DEF RegistryInv, ScanOK, JournalOK, RepositoryOK
    <2> QED
      BY <2>1 DEF SeenSince
  <1>6. ScanTypes(scan)'
    OBVIOUS
  <1>7. SeenSince(scan, journal.started)'
    BY <1>5 DEF SeenSince
  <1>8. ScanOK'
    BY <1>6, <1>7 DEF RegistryInv, ScanOK
  <1> QED
    BY <1>1, <1>3, <1>4, <1>8 DEF RegistryInv

-----------------------------------------------------------------------------
(***************************************************************************)
(* The steps of the scan                                                   *)
(***************************************************************************)

\* An object is visited, in the four ways a visit can end: it was visited
\* before, it was read, it is at the depth limit, or it could not be read.
LEMMA VisitNextKeeps ==
    ASSUME RegistryAssumption, RegistryInv, NEW o \in Objects, VisitNext(o)
    PROVE  RegistryInv'
  <1> DEFINE f == Top(scan)
             p == Pop(scan, o)
  <1>1. PICK outcome \in {"ok", "missing", "request_failed"} :
            /\ Asked(o \in scan.visited, o, outcome)
            /\ scan' = linked(visit(p, o, f.depth, outcome), f, o)
    BY DEF VisitNext
  <1>2. /\ scan # Absent /\ ScanTypes(scan) /\ DOMAIN scan = ScanFields
        /\ scan.stack \in Seq(Frames) /\ scan.stack # <<>> /\ o \in f.objs
        /\ f.op \in {"visit", "referrer"} /\ fixed' = fixed
    BY DEF VisitNext, Turn, Scanning, RegistryInv, ScanOK, ScanTypes, StackOK
  <1>3. /\ SameBut(scan, p, {"stack"}) /\ p.stack \in Seq(Frames)
        /\ \A op, x, from : ToDo(scan, op, x, from)
              <=> ToDo(p, op, x, from) \/ (op = f.op /\ x = o /\ from = f.from)
    BY <1>2, PopKeeps
  <1>4. f \in Frames /\ f.depth \in Nat
    BY <1>2, InTail DEF Top, Frames
  <1>5. o \in Manifests
    <2>1. ToDo(scan, f.op, o, f.from)
      BY <1>3
    <2> QED
      BY <1>2, <2>1 DEF ScanTypes, StackOK
  <1> HIDE DEF f, p
  <1>6. /\ DOMAIN p = ScanFields /\ p.nodes = scan.nodes /\ p.visited = scan.visited
        /\ p.blockers = scan.blockers /\ p.edges = scan.edges /\ p.subjects = scan.subjects
        /\ p.depths = scan.depths
        /\ \A x : Has(p, x) <=> Has(scan, x)
    BY <1>2, <1>3 DEF SameBut, ScanFields, Has
  <1> DEFINE v == visit(p, o, f.depth, outcome)
             t == linked(v, f, o)
  <1>7. DidVisit(p, v, o, f.depth, outcome)
    BY <1>3, <1>4, <1>6, VisitDid
  <1> HIDE DEF v
  <1>8. DOMAIN v = ScanFields
    BY <1>6, <1>7 DEF DidVisit, SameBut
  <1>9. /\ SameBut(v, t, {"edges", "blockers"})
        /\ v.edges \subseteq t.edges /\ v.blockers \subseteq t.blockers
        /\ t.blockers = {} => (f.from \in DOMAIN t.nodes => <<f.from, o>> \in t.edges)
    <2>1. CASE f.op = "referrer" /\ o \notin v.subjects
      <3>1. /\ t = block(v, "descriptor_conflict")
            /\ SameBut(v, t, {"blockers"}) /\ t.blockers = v.blockers \union {"descriptor_conflict"}
        BY <1>8, <2>1, BlockKeeps DEF linked
      <3>2. t.edges = v.edges /\ SameBut(v, t, {"edges", "blockers"})
        BY <1>8, <3>1 DEF SameBut, ScanFields
      <3> QED
        BY <3>1, <3>2
    <2>2. CASE ~(f.op = "referrer" /\ o \notin v.subjects)
      <3>1. t = edge(v, f.from, o)
        BY <2>2 DEF linked
      <3>2. /\ SameBut(v, t, {"edges"}) /\ v.edges \subseteq t.edges
            /\ {f.from, o} \subseteq DOMAIN v.nodes => <<f.from, o>> \in t.edges
        BY <1>8, <3>1, EdgeKeeps
      <3>3. t.blockers = v.blockers /\ t.nodes = v.nodes /\ SameBut(v, t, {"edges", "blockers"})
        BY <1>8, <3>2 DEF SameBut, ScanFields
      <3>4. o \in DOMAIN v.nodes
        BY <1>7 DEF DidVisit
      <3> QED
        BY <3>2, <3>3, <3>4
    <2> QED
      BY <2>1, <2>2
  <1>10. scan' = t
    BY <1>1 DEF v
  <1> HIDE DEF t
  <1>11. /\ DOMAIN t = ScanFields /\ t.stack = v.stack /\ t.visited = v.visited
         /\ t.depths = v.depths /\ t.nodes = v.nodes /\ t.subjects = v.subjects
         /\ t.phase = v.phase /\ t.todo = v.todo /\ t.roots = v.roots /\ t.refsets = v.refsets
    BY <1>8, <1>9 DEF SameBut, ScanFields
  <1>12. /\ v.phase = scan.phase /\ v.todo = scan.todo /\ v.roots = scan.roots
         /\ v.refsets = scan.refsets /\ v.edges = scan.edges
    BY <1>2, <1>3, <1>7 DEF DidVisit, SameBut, ScanFields
  <1>13. /\ \A x : Has(t, x) <=> Has(v, x)
         /\ \A op, x, from : ToDo(t, op, x, from) <=> ToDo(v, op, x, from)
    BY <1>11 DEF Has, ToDo
  <1>14. ScanTypes(t)
    <2>1. t.stack \in Seq(Frames) /\ t.visited = scan.visited \union {o}
      BY <1>6, <1>7, <1>11 DEF DidVisit
    <2>2. \A op, x, from : ToDo(t, op, x, from) => ToDo(scan, op, x, from) \/ Below(o, op, x, from)
      BY <1>3, <1>7, <1>13 DEF DidVisit, OnlyBelow
    <2>3. StackOK(t)
      BY <1>2, <1>5, <2>1, <2>2, StackKept DEF ScanTypes
    <2>4. DOMAIN scan.depths = scan.visited /\ \A x \in scan.visited : scan.depths[x] \in Nat
      BY <1>2 DEF ScanTypes
    <2>5. DOMAIN t.depths = t.visited /\ \A x \in t.visited : t.depths[x] \in Nat
      BY <1>4, <1>6, <1>7, <1>11, <2>4 DEF DidVisit
    <2> QED
      BY <1>2, <1>11, <1>12, <2>1, <2>3, <2>5 DEF ScanTypes
  <1>15. ASSUME NEW x, Has(t, x)
         PROVE  Has(scan, x) \/ x \in present
    <2>1. Has(scan, x) \/ (x = o /\ outcome = "ok" /\ o \notin scan.visited)
      BY <1>6, <1>7, <1>13, <1>15 DEF DidVisit
    <2>2. outcome = "ok" /\ o \notin scan.visited => o \in present
      BY <1>1 DEF Asked, fetch, Answer
    <2> QED
      BY <2>1, <2>2
  <1>16. ASSUME t.blockers = {}
         PROVE  Progress(scan, t) /\ Thorough(scan)
    <2>1. v.blockers = {} /\ scan.blockers = {}
      BY <1>6, <1>7, <1>9, <1>16 DEF DidVisit
    <2>2. Thorough(scan)
      BY <1>2, <2>1 DEF RegistryInv, ScanOK
    <2>3. Has(t, o)
      BY <1>6, <1>7, <1>13, <2>1, <2>2 DEF DidVisit, Thorough, VisitedOK
    <2>4. o \notin scan.visited => o \in t.subjects /\ AllBelow(p, v, o)
      BY <1>6, <1>7, <1>11, <2>1 DEF DidVisit
    <2>5. o \in scan.visited => v.stack = p.stack
      BY <1>6, <1>7 DEF DidVisit, SameBut, ScanFields
    <2>6. ASSUME NEW op, NEW x, NEW from, ToDo(scan, op, x, from)
          PROVE  ToDo(t, op, x, from) \/ Done(t, op, x, from)
      <3>1. CASE ToDo(p, op, x, from)
        BY <1>13, <2>4, <2>5, <3>1 DEF AllBelow, ToDo
      <3>2. CASE op = f.op /\ x = o /\ from = f.from
        BY <1>2, <1>9, <1>16, <2>3, <3>2 DEF Done
      <3> QED
        BY <1>3, <2>6, <3>1, <3>2
    <2>7. \A op, x, from : o \notin scan.visited /\ Below(o, op, x, from) => ToDo(t, op, x, from)
      BY <1>13, <2>4 DEF AllBelow
    <2>8. /\ \A x : Has(scan, x) => Has(t, x)
          /\ \A x : Has(t, x) => Has(scan, x) \/ x = o
      BY <1>6, <1>7, <1>13 DEF DidVisit
    <2>9. /\ scan.edges \subseteq t.edges /\ scan.subjects \subseteq t.subjects
          /\ t.visited = scan.visited \union {o}
      BY <1>6, <1>7, <1>9, <1>11, <1>12 DEF DidVisit
    <2>10. DOMAIN scan.refsets \subseteq t.visited /\ t.refsets = scan.refsets /\ t.roots = scan.roots
      BY <1>2, <1>11, <1>12, <2>9 DEF ScanTypes
    <2>11. Progress(scan, t)
      BY <1>5, <2>3, <2>4, <2>6, <2>7, <2>8, <2>9, <2>10 DEF Progress
    <2> QED
      BY <2>2, <2>11
  <1>17. ASSUME t.blockers = {}
         PROVE  Thorough(scan)'
    <2>1. Progress(scan, t) /\ Thorough(scan)
      BY <1>16, <1>17
    <2>2. NoGap(t)
      BY <2>1, ProgressKeeps DEF NoGap, Thorough
    <2>3. tags' = tags /\ fixed' = fixed
      BY <1>1, <1>2 DEF Asked, fetch, Read, Failed, registry
    <2>4. AgainOK(scan)'
      BY <1>10, <1>11, <1>12, <2>1, <2>3 DEF AgainOK, Thorough, Progress
    <2>5. RereadOK(scan)'
      BY <1>2, <1>10, <1>11, <1>12, <2>1 DEF RereadOK, Thorough
    <2> QED
      BY <1>10, <2>2, <2>4, <2>5 DEF Thorough, NoGap
  <1>18. UNCHANGED <<registry, now, knowledge, authority, observations, inventories, journal>>
    BY <1>1 DEF Asked, fetch, Read, Failed
  <1>19. fixed'.objects \subseteq present /\ fixed'.tags \subseteq {x \in Tags : tags[x] # Absent}
    BY <1>2 DEF RegistryInv, RepositoryOK
  <1>20. scan.roots \subseteq t.roots
    BY <1>11, <1>12
  <1> QED
    BY <1>2, <1>10, <1>14, <1>15, <1>17, <1>18, <1>19, <1>20, ScanStepKeeps

\* A blob is looked for.
LEMMA BlobNextKeeps ==
    ASSUME RegistryAssumption, RegistryInv, NEW o \in Objects, BlobNext(o)
    PROVE  RegistryInv'
  <1> DEFINE f == Top(scan)
             p == Pop(scan, o)
             t == scan'
  <1>1. PICK outcome \in {"ok", "missing", "request_failed"} :
            /\ Asked(Has(scan, o), o, outcome)
            /\ scan' = blob(p, o, f.from, outcome)
    BY DEF BlobNext
  <1>2. /\ scan # Absent /\ ScanTypes(scan) /\ DOMAIN scan = ScanFields
        /\ scan.stack \in Seq(Frames) /\ scan.stack # <<>> /\ o \in f.objs
        /\ f.op = "blob" /\ fixed' = fixed
    BY DEF BlobNext, Turn, Scanning, RegistryInv, ScanOK, ScanTypes, StackOK
  <1>3. /\ SameBut(scan, p, {"stack"}) /\ p.stack \in Seq(Frames)
        /\ \A op, x, from : ToDo(scan, op, x, from)
              <=> ToDo(p, op, x, from) \/ (op = f.op /\ x = o /\ from = f.from)
    BY <1>2, PopKeeps
  <1>4. o \notin Manifests
    <2>1. ToDo(scan, f.op, o, f.from)
      BY <1>3
    <2> QED
      BY <1>2, <2>1 DEF ScanTypes, StackOK
  <1> HIDE DEF f, p
  <1>5. /\ DOMAIN p = ScanFields /\ p.edges = scan.edges /\ p.blockers = scan.blockers
        /\ \A x : Has(p, x) <=> Has(scan, x)
    BY <1>2, <1>3 DEF SameBut, ScanFields, Has
  <1>6. DidBlob(p, t, o, f.from, outcome)
    BY <1>1, <1>5, BlobDid
  <1>7. SameBut(scan, t, {"stack", "nodes", "edges", "blockers"})
    BY <1>3, <1>6 DEF DidBlob, SameBut
  <1>8. /\ DOMAIN t = ScanFields /\ t.visited = scan.visited /\ t.depths = scan.depths
        /\ t.subjects = scan.subjects /\ t.phase = scan.phase /\ t.todo = scan.todo
        /\ t.roots = scan.roots /\ t.refsets = scan.refsets
    BY <1>2, <1>7 DEF SameBut, ScanFields
  <1>9. t.stack = p.stack
    BY <1>5, <1>6 DEF DidBlob, SameBut, ScanFields
  <1>10. \A op, x, from : ToDo(t, op, x, from) <=> ToDo(p, op, x, from)
    BY <1>9 DEF ToDo
  <1>11. ScanTypes(t)
    <2>1. StackOK(t)
      BY <1>2, <1>3, <1>8, <1>9, <1>10, StackSame DEF ScanTypes
    <2> QED
      BY <1>2, <1>8, <2>1 DEF ScanTypes
  <1>12. ASSUME NEW x, Has(t, x)
         PROVE  Has(scan, x) \/ x \in present
    BY <1>1, <1>5, <1>6, <1>12 DEF DidBlob, Asked, fetch, Answer
  <1>13. ASSUME t.blockers = {}
         PROVE  Thorough(scan)'
    <2>1. Thorough(scan) /\ Has(t, o) /\ (f.from \in DOMAIN t.nodes => <<f.from, o>> \in t.edges)
      BY <1>2, <1>5, <1>6, <1>13 DEF DidBlob, RegistryInv, ScanOK
    <2>2. ASSUME NEW op, NEW x, NEW from, ToDo(scan, op, x, from)
          PROVE  ToDo(t, op, x, from) \/ Done(t, op, x, from)
      <3>1. CASE ToDo(p, op, x, from)
        BY <1>10, <3>1
      <3>2. CASE op = f.op /\ x = o /\ from = f.from
        BY <1>2, <2>1, <3>2 DEF Done
      <3> QED
        BY <1>3, <2>2, <3>1, <3>2
    <2>3. /\ \A x : Has(scan, x) => Has(t, x)
          /\ \A x : Has(t, x) => Has(scan, x) \/ x = o
          /\ scan.edges \subseteq t.edges
      BY <1>5, <1>6 DEF DidBlob
    <2>4. DOMAIN scan.refsets \subseteq t.visited
      BY <1>2, <1>8 DEF ScanTypes
    <2>5. Progress(scan, t)
      BY <1>4, <1>8, <2>2, <2>3, <2>4 DEF Progress
    <2>6. NoGap(t)
      BY <2>1, <2>5, ProgressKeeps DEF NoGap, Thorough
    <2>7. tags' = tags
      BY <1>1 DEF Asked, fetch, Read, Failed, registry
    <2>8. AgainOK(scan)'
      BY <1>2, <1>8, <2>1, <2>3, <2>7 DEF AgainOK, Thorough
    <2>9. RereadOK(scan)'
      BY <1>2, <1>8, <2>1 DEF RereadOK, Thorough
    <2> QED
      BY <2>6, <2>8, <2>9 DEF Thorough, NoGap
  <1>14. UNCHANGED <<registry, now, knowledge, authority, observations, inventories, journal>>
    BY <1>1 DEF Asked, fetch, Read, Failed
  <1>15. fixed'.objects \subseteq present /\ fixed'.tags \subseteq {x \in Tags : tags[x] # Absent}
    BY <1>2 DEF RegistryInv, RepositoryOK
  <1> QED
    BY <1>2, <1>8, <1>11, <1>12, <1>13, <1>14, <1>15, ScanStepKeeps

\* A note of the outcome of a listing.
LEMMA ToldKeeps ==
    ASSUME NEW s, DOMAIN s = ScanFields, NEW code
    PROVE  /\ SameBut(s, Told(s, code), {"blockers"})
           /\ s.blockers \subseteq Told(s, code).blockers
           /\ Told(s, code).blockers = {} => code = ""
  <1>1. CASE code = ""
    BY <1>1 DEF Told, SameBut
  <1>2. CASE code # ""
    BY <1>2, BlockKeeps DEF Told
  <1> QED
    BY <1>1, <1>2

LEMMA ListedAreImages ==
    ASSUME RegistryAssumption, RegistryInv, NEW d \in Objects, NEW refs \in SUBSET Referrers(d)
    PROVE  refs \in SUBSET Manifests
  BY DEF RegistryAssumption, RegistryInv, RepositoryOK, Referrers, Manifests

\* The referrers of a visited object are listed and put on the stack.
LEMMA ReferrersNextKeeps ==
    ASSUME RegistryAssumption, RegistryInv, NEW d \in Objects, ReferrersNext(d)
    PROVE  RegistryInv'
  <1> DEFINE f == Top(scan)
             p == Pop(scan, d)
             t == scan'
  <1>1. PICK refs \in SUBSET Referrers(d), code \in {"", "referrers_unknown", "request_failed"} :
            /\ referrers(d, refs, code)
            /\ scan' = Push([Told(p, code) EXCEPT !.refsets = With(@, d, refs)],
                            Frame("referrer", refs, f.depth + 1, d))
    BY DEF ReferrersNext
  <1>2. /\ scan # Absent /\ ScanTypes(scan) /\ DOMAIN scan = ScanFields
        /\ scan.stack \in Seq(Frames) /\ scan.stack # <<>> /\ d \in f.objs
        /\ f.op = "referrers" /\ fixed' = fixed
    BY DEF ReferrersNext, Turn, Scanning, RegistryInv, ScanOK, ScanTypes, StackOK
  <1>3. /\ SameBut(scan, p, {"stack"}) /\ p.stack \in Seq(Frames)
        /\ \A op, x, from : ToDo(scan, op, x, from)
              <=> ToDo(p, op, x, from) \/ (op = f.op /\ x = d /\ from = f.from)
    BY <1>2, PopKeeps
  <1>4. f \in Frames /\ f.depth \in Nat
    BY <1>2, InTail DEF Top, Frames
  <1>5. d \in Manifests /\ d \in scan.visited
    <2>1. ToDo(scan, f.op, d, f.from)
      BY <1>3
    <2>2. ToDo(scan, "referrers", d, f.from)
      BY <1>2, <2>1
    <2> QED
      BY <1>2, <2>2 DEF ScanTypes, StackOK
  <1> HIDE DEF f, p
  <1>6. DOMAIN p = ScanFields /\ p.blockers = scan.blockers
    BY <1>2, <1>3 DEF SameBut, ScanFields
  <1> DEFINE k == Told(p, code)
             m == [k EXCEPT !.refsets = With(@, d, refs)]
             g == Frame("referrer", refs, f.depth + 1, d)
  <1>7. /\ SameBut(p, k, {"blockers"}) /\ p.blockers \subseteq k.blockers
        /\ k.blockers = {} => code = ""
    BY <1>6, ToldKeeps
  <1> HIDE DEF k
  <1>8. DOMAIN k = ScanFields /\ k.refsets = scan.refsets
    BY <1>2, <1>3, <1>6, <1>7 DEF SameBut, ScanFields
  <1>9. SameBut(k, m, {"refsets"}) /\ m.refsets = With(scan.refsets, d, refs)
    BY <1>8 DEF SameBut, ScanFields
  <1>10. scan' = Push(m, g)
    BY <1>1 DEF k
  <1> HIDE DEF m
  <1>11. refs \in SUBSET Manifests
    BY <1>1, ListedAreImages
  <1>12. g \in Seq(Frames) /\ Leaves(g, "referrer", refs, d)
    <2>1. "referrer" \in {"visit", "referrer", "blob", "referrers"}
      OBVIOUS
    <2>2. refs \in SUBSET Objects
      BY <1>11 DEF Manifests
    <2>3. f.depth + 1 \in Nat
      BY <1>4, NextDepth
    <2>4. d \in Objects \union {Absent}
      OBVIOUS
    <2> QED
      BY <2>1, <2>2, <2>3, <2>4, InFrame
  <1> HIDE DEF g
  <1>13. DOMAIN m = ScanFields /\ m.stack = p.stack /\ m.blockers = k.blockers
    BY <1>7, <1>8, <1>9 DEF SameBut, ScanFields
  <1>14. /\ SameBut(m, t, {"stack"}) /\ t.stack \in Seq(Frames)
         /\ \A op, x, from : ToDo(t, op, x, from) <=> InStack(g, op, x, from) \/ ToDo(m, op, x, from)
    BY <1>3, <1>10, <1>12, <1>13, PushKeeps
  <1>15. SameBut(scan, t, {"stack", "blockers", "refsets"})
    BY <1>3, <1>7, <1>9, <1>14 DEF SameBut
  <1>16. /\ DOMAIN t = ScanFields /\ t.visited = scan.visited /\ t.depths = scan.depths
         /\ t.subjects = scan.subjects /\ t.phase = scan.phase /\ t.todo = scan.todo
         /\ t.roots = scan.roots /\ t.nodes = scan.nodes /\ t.edges = scan.edges
    BY <1>2, <1>15 DEF SameBut, ScanFields
  <1>17. t.refsets = With(scan.refsets, d, refs) /\ t.blockers = k.blockers
    BY <1>9, <1>13, <1>14 DEF SameBut, ScanFields
  <1>18. /\ DOMAIN t.refsets = DOMAIN scan.refsets \union {d} /\ t.refsets[d] = refs
         /\ \A e \in DOMAIN scan.refsets : e # d => t.refsets[e] = scan.refsets[e]
    BY <1>17 DEF With
  <1>19. \A op, x, from : ToDo(t, op, x, from)
              <=> (op = "referrer" /\ x \in refs /\ from = d) \/ ToDo(p, op, x, from)
    <2>1. \A op, x, from : ToDo(m, op, x, from) <=> ToDo(p, op, x, from)
      BY <1>13 DEF ToDo
    <2>2. \A op, x, from : InStack(g, op, x, from) <=> op = "referrer" /\ x \in refs /\ from = d
      BY <1>12 DEF Leaves
    <2> QED
      BY <1>14, <2>1, <2>2
  <1>20. ScanTypes(t)
    <2>1. StackOK(t)
      <3>1. ASSUME NEW x, NEW from, ToDo(t, "blob", x, from)
            PROVE  x \notin Manifests
        BY <1>2, <1>3, <1>19, <3>1 DEF ScanTypes, StackOK
      <3>2. ASSUME NEW op \in {"visit", "referrer", "referrers"}, NEW x, NEW from,
                   ToDo(t, op, x, from)
            PROVE  x \in Manifests
        <4>1. CASE op = "referrer" /\ x \in refs
          BY <1>11, <4>1
        <4>2. CASE ToDo(p, op, x, from)
          BY <1>2, <1>3, <3>2, <4>2 DEF ScanTypes, StackOK
        <4> QED
          BY <1>19, <3>2, <4>1, <4>2
      <3>3. ASSUME NEW x, NEW from, ToDo(t, "referrers", x, from)
            PROVE  x \in t.visited
        BY <1>2, <1>3, <1>16, <1>19, <3>3 DEF ScanTypes, StackOK
      <3> QED
        BY <1>14, <3>1, <3>2, <3>3 DEF StackOK
    <2>2. /\ DOMAIN scan.depths = scan.visited /\ \A x \in scan.visited : scan.depths[x] \in Nat
          /\ DOMAIN scan.refsets \subseteq scan.visited
          /\ \A e \in DOMAIN scan.refsets : scan.refsets[e] \subseteq Manifests
          /\ scan.roots \subseteq Manifests
          /\ scan.phase = "REREAD" => scan.todo \subseteq DOMAIN scan.refsets
      BY <1>2 DEF ScanTypes
    <2>3. \A e \in DOMAIN t.refsets : t.refsets[e] \subseteq Manifests
      BY <1>11, <1>18, <2>2
    <2> QED
      BY <1>5, <1>16, <1>18, <2>1, <2>2, <2>3 DEF ScanTypes
  <1>21. \A x : Has(t, x) <=> Has(scan, x)
    BY <1>16 DEF Has
  <1>22. ASSUME t.blockers = {}
         PROVE  Thorough(scan)'
    <2>1. Thorough(scan)
      BY <1>2, <1>6, <1>7, <1>17, <1>22 DEF RegistryInv, ScanOK
    <2>2. ASSUME NEW op, NEW x, NEW from, ToDo(scan, op, x, from)
          PROVE  ToDo(t, op, x, from) \/ Done(t, op, x, from)
      <3>1. CASE ToDo(p, op, x, from)
        BY <1>19, <3>1
      <3>2. CASE op = f.op /\ x = d /\ from = f.from
        BY <1>2, <1>18, <3>2 DEF Done
      <3> QED
        BY <1>3, <2>2, <3>1, <3>2
    <2>3. DOMAIN t.refsets \subseteq t.visited
      BY <1>2, <1>5, <1>16, <1>18 DEF ScanTypes
    <2>4. \A e \in DOMAIN t.refsets : \A r \in t.refsets[e] :
              (e \in DOMAIN scan.refsets /\ r \in scan.refsets[e]) \/ Will(t, r, e)
      BY <1>18, <1>19 DEF Will
    <2>5. Progress(scan, t)
      BY <1>16, <1>18, <1>21, <2>2, <2>3, <2>4 DEF Progress
    <2>6. NoGap(t)
      BY <2>1, <2>5, ProgressKeeps DEF NoGap, Thorough
    <2>7. tags' = tags
      BY <1>1 DEF referrers, Read, Failed, registry
    <2>8. AgainOK(scan)'
      BY <1>2, <1>16, <1>21, <2>1, <2>7 DEF AgainOK, Thorough
    <2>9. RereadOK(scan)'
      BY <1>2, <1>16, <2>1 DEF RereadOK, Thorough
    <2> QED
      BY <2>6, <2>8, <2>9 DEF Thorough, NoGap
  <1>23. UNCHANGED <<registry, now, knowledge, authority, observations, inventories, journal>>
    BY <1>1 DEF referrers, Read, Failed
  <1>24. fixed'.objects \subseteq present /\ fixed'.tags \subseteq {x \in Tags : tags[x] # Absent}
    BY <1>2 DEF RegistryInv, RepositoryOK
  <1> QED
    BY <1>2, <1>16, <1>20, <1>21, <1>22, <1>23, <1>24, ScanStepKeeps

\* A step that reads nothing new and leaves the stack.
SameGraph(s, t) ==
    /\ DOMAIN t = ScanFields /\ t.stack = s.stack /\ t.nodes = s.nodes /\ t.edges = s.edges
    /\ t.roots = s.roots /\ t.visited = s.visited /\ t.subjects = s.subjects
    /\ t.depths = s.depths /\ t.refsets = s.refsets

LEMMA SameGraphKeeps ==
    ASSUME NEW s, NEW t, ScanTypes(s), SameGraph(s, t),
           t.phase = "REREAD" => t.todo \subseteq DOMAIN t.refsets
    PROVE  /\ ScanTypes(t) /\ (NoGap(s) => NoGap(t))
           /\ \A x : Has(t, x) <=> Has(s, x)
  <1>1. \A x : Has(t, x) <=> Has(s, x)
    BY DEF SameGraph, Has
  <1>2. \A op, x, from : ToDo(t, op, x, from) <=> ToDo(s, op, x, from)
    BY DEF SameGraph, ToDo
  <1>3. \A o, x : Will(t, o, x) <=> Will(s, o, x)
    BY <1>2 DEF Will
  <1>4. \A o, x : Joined(t, o, x) <=> Joined(s, o, x)
    BY <1>1 DEF SameGraph, Joined
  <1>5. StackOK(t)
    BY <1>2 DEF SameGraph, ScanTypes, StackOK
  <1>6. ScanTypes(t)
    BY <1>5 DEF SameGraph, ScanTypes
  <1>7. VisitedOK(s) => VisitedOK(t)
    BY <1>1 DEF SameGraph, VisitedOK
  <1>8. BelowOK(s) => BelowOK(t)
    BY <1>2, <1>3, <1>4 DEF SameGraph, BelowOK
  <1>9. ReferrersOK(s) => ReferrersOK(t)
    BY <1>3, <1>4 DEF SameGraph, ReferrersOK
  <1>10. RootsOK(s) => RootsOK(t)
    BY <1>1, <1>3 DEF SameGraph, RootsOK
  <1> QED
    BY <1>1, <1>6, <1>7, <1>8, <1>9, <1>10 DEF NoGap

\* The second listing of the tags begins what "fixed" measures.
LEMMA tagsListKeeps ==
    ASSUME RegistryAssumption, RegistryInv, tagsList
    PROVE  RegistryInv'
  <1> DEFINE t == scan'
             next(list) == [scan EXCEPT !.todo = list, !.aliases = {}, !.first = scan.aliases,
                                        !.phase = IF scan.phase = "TAGS" THEN "AGAIN" ELSE "TAGS"]
  <1>1. /\ scan # Absent /\ ScanTypes(scan) /\ DOMAIN scan = ScanFields
        /\ scan.phase \in {"ROOTS", "TAGS"}
    BY DEF tagsList, Scanning, RegistryInv, ScanOK, ScanTypes
  <1>2. \/ /\ Read /\ t = next(Listed)
           /\ fixed' = IF scan.phase = "TAGS" THEN [objects |-> present, tags |-> Listed] ELSE fixed
        \/ Failed /\ t = block(next({}), "request_failed")
    BY DEF tagsList
  <1>3. \A list : /\ SameGraph(scan, next(list)) /\ next(list).todo = list
                  /\ next(list).blockers = scan.blockers
                  /\ next(list).phase = IF scan.phase = "TAGS" THEN "AGAIN" ELSE "TAGS"
    BY <1>1 DEF SameGraph, ScanFields
  <1> HIDE DEF next
  <1>4. UNCHANGED <<registry, now, knowledge, authority, observations, inventories, journal>>
    BY <1>2 DEF Read, Failed
  <1>5. fixed'.objects \subseteq present /\ fixed'.tags \subseteq {x \in Tags : tags[x] # Absent}
    BY <1>2 DEF RegistryInv, RepositoryOK, Listed, Failed
  <1>6. CASE Read /\ t = next(Listed)
    <2>1. /\ SameGraph(scan, t) /\ t.todo = Listed /\ t.blockers = scan.blockers
          /\ t.phase = IF scan.phase = "TAGS" THEN "AGAIN" ELSE "TAGS"
      BY <1>3, <1>6
    <2>2. /\ ScanTypes(t) /\ (NoGap(scan) => NoGap(t))
          /\ \A x : Has(t, x) <=> Has(scan, x)
      BY <1>1, <2>1, SameGraphKeeps
    <2>3. ASSUME t.blockers = {}
          PROVE  Thorough(scan)'
      <3>1. NoGap(t)
        BY <1>1, <2>1, <2>2, <2>3 DEF RegistryInv, ScanOK, Thorough, NoGap
      <3>2. AgainOK(scan)'
        <4>1. t.phase = "AGAIN" => fixed'.tags = t.todo \/ fixed'.tags = {}
          <5>1. CASE fixed' = IF scan.phase = "TAGS" THEN [objects |-> present, tags |-> Listed]
                              ELSE fixed
            BY <1>1, <2>1, <5>1
          <5>2. CASE t = block(next({}), "request_failed")
            <6>1. DOMAIN next({}) = ScanFields
              BY <1>3 DEF SameGraph
            <6>2. t.blockers # {}
              BY <5>2, <6>1, BlockKeeps
            <6> QED
              BY <2>3, <6>2
          <5> QED
            BY <1>2, <5>1, <5>2
        <4> QED
          BY <4>1 DEF AgainOK
      <3>3. RereadOK(scan)'
        BY <2>1 DEF RereadOK
      <3> QED
        BY <3>1, <3>2, <3>3 DEF Thorough, NoGap
    <2>4. scan.roots \subseteq t.roots
      BY <2>1 DEF SameGraph
    <2> QED
      BY <1>1, <1>4, <1>5, <2>2, <2>3, <2>4, ScanStepKeeps
  <1>7. CASE t = block(next({}), "request_failed")
    <2> DEFINE n == next({})
    <2>1. SameGraph(scan, n) /\ n.phase # "REREAD" /\ DOMAIN n = ScanFields
      BY <1>1, <1>3 DEF SameGraph
    <2> HIDE DEF n
    <2>2. SameBut(n, t, {"blockers"}) /\ t.blockers # {}
      BY <1>7, <2>1, BlockKeeps DEF n
    <2>3. SameGraph(scan, t) /\ t.phase # "REREAD"
      BY <2>1, <2>2 DEF SameGraph, SameBut, ScanFields
    <2>4. ScanTypes(t) /\ \A x : Has(t, x) <=> Has(scan, x)
      BY <1>1, <2>3, SameGraphKeeps
    <2>5. scan.roots \subseteq t.roots
      BY <2>3 DEF SameGraph
    <2> QED
      BY <1>1, <1>4, <1>5, <2>2, <2>4, <2>5, ScanStepKeeps
  <1> QED
    BY <1>2, <1>6, <1>7

\* Every tag was resolved twice: those that did not move point to what was read.
LEMMA ComparedKeeps ==
    ASSUME RegistryAssumption, RegistryInv, Compared
    PROVE  RegistryInv'
  <1> DEFINE t == scan'
             n == [scan EXCEPT !.phase = "REREAD", !.todo = DOMAIN scan.refsets]
  <1>1. /\ scan # Absent /\ ScanTypes(scan) /\ DOMAIN scan = ScanFields
        /\ scan.phase = "AGAIN" /\ scan.stack = <<>> /\ scan.todo = {} /\ fixed' = fixed
        /\ Read
        /\ t = IF scan.aliases = scan.first THEN n ELSE block(n, "discovery_changed")
    BY DEF Compared, Scanning, RegistryInv, ScanOK, ScanTypes
  <1>2. /\ SameGraph(scan, n) /\ n.phase = "REREAD" /\ n.todo = DOMAIN scan.refsets
        /\ n.blockers = scan.blockers
    BY <1>1 DEF SameGraph, ScanFields
  <1> HIDE DEF n
  <1>3. /\ SameGraph(scan, t) /\ t.phase = "REREAD" /\ t.todo = DOMAIN scan.refsets
        /\ scan.blockers \subseteq t.blockers
    <2>1. CASE t = n
      BY <1>2, <2>1
    <2>2. CASE t = block(n, "discovery_changed")
      <3>1. SameBut(n, t, {"blockers"}) /\ scan.blockers \subseteq t.blockers
        BY <1>2, <2>2, BlockKeeps DEF SameGraph
      <3> QED
        BY <1>2, <3>1 DEF SameGraph, SameBut, ScanFields
    <2> QED
      BY <1>1, <2>1, <2>2
  <1>4. /\ ScanTypes(t) /\ (NoGap(scan) => NoGap(t))
        /\ \A x : Has(t, x) <=> Has(scan, x)
    <2>1. t.todo \subseteq DOMAIN t.refsets
      BY <1>3 DEF SameGraph
    <2> QED
      BY <1>1, <1>3, <2>1, SameGraphKeeps
  <1>5. ASSUME t.blockers = {}
        PROVE  Thorough(scan)'
    <2>1. Thorough(scan)
      BY <1>1, <1>3, <1>5 DEF RegistryInv, ScanOK
    <2>2. NoGap(t)
      BY <1>4, <2>1 DEF Thorough, NoGap
    <2>3. \A x \in fixed.tags : Has(t, tags[x])
      BY <1>1, <1>4, <2>1 DEF Thorough, AgainOK
    <2>4. tags' = tags
      BY <1>1 DEF Read, registry
    <2>5. RereadOK(scan)'
      BY <1>1, <1>3, <2>3, <2>4 DEF RereadOK, SameGraph
    <2>6. AgainOK(scan)'
      BY <1>3 DEF AgainOK
    <2> QED
      BY <2>2, <2>5, <2>6 DEF Thorough, NoGap
  <1>6. UNCHANGED <<registry, now, knowledge, authority, observations, inventories, journal>>
    BY <1>1 DEF Read
  <1>7. fixed'.objects \subseteq present /\ fixed'.tags \subseteq {x \in Tags : tags[x] # Absent}
    BY <1>1 DEF RegistryInv, RepositoryOK
  <1>8. scan.roots \subseteq t.roots
    BY <1>3 DEF SameGraph
  <1> QED
    BY <1>1, <1>4, <1>5, <1>6, <1>7, <1>8, ScanStepKeeps

\* A tag is resolved: what it points to becomes a root and is visited.
LEMMA resolveTagsKeeps ==
    ASSUME RegistryAssumption, RegistryInv, NEW g \in Tags, resolveTags(g)
    PROVE  RegistryInv'
  <1> DEFINE t == scan'
             n == [scan EXCEPT !.todo = @ \ {g}]
             o == tags[g]
  <1>1. /\ scan # Absent /\ ScanTypes(scan) /\ DOMAIN scan = ScanFields
        /\ scan.phase \in {"TAGS", "AGAIN"} /\ fixed' = fixed
    BY DEF resolveTags, Scanning, RegistryInv, ScanOK, ScanTypes
  <1>2. SameGraph(scan, n) /\ SameBut(scan, n, {"todo"}) /\ n.todo = scan.todo \ {g}
    BY <1>1 DEF SameGraph, SameBut, ScanFields
  <1>3. \/ /\ o # Absent /\ o \in present /\ Read
           /\ t = [visit(n, o, 0, "ok") EXCEPT
                     !.aliases = @ \union {<<g, o>>}, !.roots = @ \union {o}]
        \/ /\ Read \/ Failed
           /\ \E code \in {"missing", "request_failed"} :
                 t = block([n EXCEPT !.aliases = @ \union {<<g, Absent>>}], code)
    BY DEF resolveTags
  <1> HIDE DEF n, o
  <1>4. UNCHANGED <<registry, now, knowledge, authority, observations, inventories, journal>>
    BY <1>3 DEF Read, Failed
  <1>5. fixed'.objects \subseteq present /\ fixed'.tags \subseteq {x \in Tags : tags[x] # Absent}
    BY <1>1 DEF RegistryInv, RepositoryOK
  <1>6. n.phase = scan.phase /\ n.blockers = scan.blockers /\ DOMAIN n = ScanFields
    BY <1>1, <1>2 DEF SameBut, ScanFields
  <1>7. ScanTypes(n) /\ (NoGap(scan) => NoGap(n)) /\ \A x : Has(n, x) <=> Has(scan, x)
    BY <1>1, <1>2, <1>6, SameGraphKeeps
  <1>8. CASE /\ o # Absent /\ o \in present
             /\ t = [visit(n, o, 0, "ok") EXCEPT
                       !.aliases = @ \union {<<g, o>>}, !.roots = @ \union {o}]
    <2> DEFINE v == visit(n, o, 0, "ok")
    <2>1. o \in Manifests /\ o \in Objects
      BY <1>8 DEF RegistryInv, RepositoryOK, o, Manifests
    <2>2. n.stack \in Seq(Frames)
      BY <1>7 DEF ScanTypes, StackOK
    <2>3. DidVisit(n, v, o, 0, "ok")
      BY <1>6, <2>1, <2>2, VisitDid
    <2>4. t = [v EXCEPT !.aliases = @ \union {<<g, o>>}, !.roots = @ \union {o}]
      BY <1>8
    <2> HIDE DEF v
    <2>5. DOMAIN v = ScanFields /\ v.roots = scan.roots /\ v.phase = scan.phase
          /\ v.todo = n.todo /\ v.refsets = scan.refsets /\ v.edges = scan.edges
      BY <1>2, <1>6, <2>3 DEF DidVisit, SameBut, SameGraph, ScanFields
    <2>6. /\ SameBut(v, t, {"aliases", "roots"}) /\ t.roots = scan.roots \union {o}
      BY <2>4, <2>5 DEF SameBut, ScanFields
    <2>7. /\ DOMAIN t = ScanFields /\ t.stack = v.stack /\ t.visited = v.visited
          /\ t.depths = v.depths /\ t.nodes = v.nodes /\ t.subjects = v.subjects
          /\ t.phase = scan.phase /\ t.todo = n.todo /\ t.refsets = scan.refsets
          /\ t.edges = scan.edges /\ t.blockers = v.blockers
      BY <2>5, <2>6 DEF SameBut, ScanFields
    <2>8. /\ \A x : Has(t, x) <=> Has(v, x)
          /\ \A op, x, from : ToDo(t, op, x, from) <=> ToDo(v, op, x, from)
      BY <2>7 DEF Has, ToDo
    <2>9. n.visited = scan.visited /\ n.depths = scan.depths /\ n.subjects = scan.subjects
          /\ \A op, x, from : ToDo(n, op, x, from) <=> ToDo(scan, op, x, from)
      BY <1>2 DEF SameGraph, ToDo
    <2>10. ScanTypes(t)
      <3>1. t.stack \in Seq(Frames) /\ t.visited = scan.visited \union {o}
        BY <2>3, <2>7, <2>9 DEF DidVisit
      <3>2. \A op, x, from : ToDo(t, op, x, from) => ToDo(scan, op, x, from) \/ Below(o, op, x, from)
        BY <2>3, <2>8, <2>9 DEF DidVisit, OnlyBelow
      <3>3. StackOK(t)
        BY <1>1, <2>1, <3>1, <3>2, StackKept DEF ScanTypes
      <3>4. DOMAIN scan.depths = scan.visited /\ \A x \in scan.visited : scan.depths[x] \in Nat
        BY <1>1 DEF ScanTypes
      <3>5. DOMAIN t.depths = t.visited /\ \A x \in t.visited : t.depths[x] \in Nat
        <4>1. DOMAIN t.depths = t.visited
          BY <2>3, <2>7, <2>9, <3>4 DEF DidVisit
        <4>2. \A x \in t.visited : t.depths[x] = IF x \in scan.visited THEN scan.depths[x] ELSE 0
          BY <2>3, <2>7, <2>9, <3>4 DEF DidVisit
        <4> QED
          BY <3>4, <4>1, <4>2
      <3>6. t.roots \subseteq Manifests
        BY <1>1, <2>1, <2>6 DEF ScanTypes
      <3> QED
        BY <1>1, <2>7, <3>1, <3>3, <3>5, <3>6 DEF ScanTypes
    <2>11. \A x : Has(t, x) => Has(scan, x) \/ x \in present
      BY <1>7, <1>8, <2>3, <2>8 DEF DidVisit
    <2>12. ASSUME t.blockers = {}
           PROVE  Thorough(scan)'
      <3>1. v.blockers = {} /\ scan.blockers = {}
        BY <1>6, <2>3, <2>7, <2>12 DEF DidVisit
      <3>2. Thorough(scan)
        BY <1>1, <3>1 DEF RegistryInv, ScanOK
      <3>3. Has(t, o)
        BY <1>7, <2>3, <2>8, <2>9, <3>1, <3>2 DEF DidVisit, Thorough, VisitedOK
      <3>4. o \notin scan.visited => o \in t.subjects /\ AllBelow(n, v, o)
        BY <2>3, <2>7, <2>9, <3>1 DEF DidVisit
      <3>5. o \in scan.visited => v.stack = n.stack
        BY <1>6, <2>3, <2>9 DEF DidVisit, SameBut, ScanFields
      <3>6. ASSUME NEW op, NEW x, NEW from, ToDo(scan, op, x, from)
            PROVE  ToDo(t, op, x, from)
        <4>1. ToDo(n, op, x, from)
          BY <2>9, <3>6
        <4>2. ToDo(v, op, x, from)
          BY <3>4, <3>5, <4>1 DEF AllBelow, ToDo
        <4> QED
          BY <2>8, <4>2
      <3>7. \A op, x, from : o \notin scan.visited /\ Below(o, op, x, from) => ToDo(t, op, x, from)
        BY <2>8, <3>4 DEF AllBelow
      <3>8. /\ \A x : Has(scan, x) => Has(t, x)
            /\ \A x : Has(t, x) => Has(scan, x) \/ x = o
        BY <1>7, <2>3, <2>8 DEF DidVisit
      <3>9. scan.subjects \subseteq t.subjects /\ t.visited = scan.visited \union {o}
        BY <2>3, <2>7, <2>9 DEF DidVisit
      <3>10. DOMAIN scan.refsets \subseteq t.visited
        BY <1>1, <3>9 DEF ScanTypes
      <3>11. Progress(scan, t)
        BY <2>1, <2>6, <2>7, <3>3, <3>4, <3>6, <3>7, <3>8, <3>9, <3>10 DEF Progress
      <3>12. NoGap(t)
        BY <3>2, <3>11, ProgressKeeps DEF NoGap, Thorough
      <3>13. tags' = tags
        BY <1>4 DEF registry
      <3>14. AgainOK(scan)'
        <4>1. ASSUME t.phase = "AGAIN", NEW x \in fixed.tags, x \notin t.todo
              PROVE  Has(t, tags[x])
          <5>1. x \in scan.todo => x = g
            BY <1>2, <2>7, <4>1
          <5>2. x \in scan.todo \/ Has(scan, tags[x])
            BY <2>7, <3>2, <4>1 DEF Thorough, AgainOK
          <5> QED
            BY <3>3, <3>8, <5>1, <5>2 DEF o
        <4> QED
          BY <1>1, <3>13, <4>1 DEF AgainOK
      <3>15. RereadOK(scan)'
        BY <1>1, <2>7 DEF RereadOK
      <3> QED
        BY <3>12, <3>14, <3>15 DEF Thorough, NoGap
    <2>13. scan.roots \subseteq t.roots
      BY <2>6
    <2> QED
      BY <1>1, <1>4, <1>5, <2>10, <2>11, <2>12, <2>13, ScanStepKeeps
  <1>9. ASSUME NEW code, t = block([n EXCEPT !.aliases = @ \union {<<g, Absent>>}], code)
        PROVE  RegistryInv'
    <2> DEFINE m == [n EXCEPT !.aliases = @ \union {<<g, Absent>>}]
    <2>1. SameBut(n, m, {"aliases"}) /\ DOMAIN m = ScanFields
      BY <1>6 DEF SameBut
    <2> HIDE DEF m
    <2>2. SameBut(m, t, {"blockers"}) /\ t.blockers # {}
      BY <1>9, <2>1, BlockKeeps DEF m
    <2>3. SameBut(n, t, {"aliases", "blockers"})
      BY <2>1, <2>2 DEF SameBut
    <2>4. SameGraph(n, t) /\ t.phase = n.phase /\ t.todo = n.todo
      BY <1>6, <2>3 DEF SameGraph, SameBut, ScanFields
    <2>5. ScanTypes(t) /\ \A x : Has(t, x) <=> Has(n, x)
      BY <1>1, <1>6, <1>7, <2>4, SameGraphKeeps
    <2>6. scan.roots \subseteq t.roots
      BY <1>2, <2>4 DEF SameGraph
    <2> QED
      BY <1>1, <1>4, <1>5, <1>7, <2>2, <2>5, <2>6, ScanStepKeeps
  <1> QED
    BY <1>3, <1>8, <1>9

\* The referrers are listed again; a difference blocks the scan.
LEMMA RereadKeeps ==
    ASSUME RegistryAssumption, RegistryInv, NEW d \in Objects, Reread(d)
    PROVE  RegistryInv'
  <1> DEFINE t == scan'
             n == [scan EXCEPT !.todo = @ \ {d}]
  <1>1. PICK refs \in SUBSET Referrers(d), code \in {"", "referrers_unknown", "request_failed"} :
            /\ referrers(d, refs, code)
            /\ scan' = IF refs = scan.refsets[d] THEN Told(n, code)
                       ELSE Push(block(Told(n, code), "discovery_changed"),
                                 Frame("referrer", refs, scan.depths[d] + 1, d))
    BY DEF Reread
  <1>2. /\ scan # Absent /\ ScanTypes(scan) /\ DOMAIN scan = ScanFields
        /\ scan.phase = "REREAD" /\ d \in scan.todo /\ fixed' = fixed
    BY DEF Reread, Scanning, RegistryInv, ScanOK, ScanTypes
  <1>3. SameGraph(scan, n) /\ SameBut(scan, n, {"todo"}) /\ n.todo = scan.todo \ {d}
    BY <1>2 DEF SameGraph, SameBut, ScanFields
  <1> HIDE DEF n
  <1>4. n.phase = "REREAD" /\ n.blockers = scan.blockers /\ DOMAIN n = ScanFields
    BY <1>2, <1>3 DEF SameBut, ScanFields
  <1> DEFINE k == Told(n, code)
  <1>5. /\ SameBut(n, k, {"blockers"}) /\ n.blockers \subseteq k.blockers
        /\ k.blockers = {} => code = ""
    BY <1>4, ToldKeeps
  <1> HIDE DEF k
  <1>6. SameGraph(scan, k) /\ k.phase = "REREAD" /\ k.todo = scan.todo \ {d}
    BY <1>3, <1>4, <1>5 DEF SameGraph, SameBut, ScanFields
  <1>7. scan.todo \subseteq DOMAIN scan.refsets /\ DOMAIN scan.refsets \subseteq scan.visited
    BY <1>2 DEF ScanTypes
  <1>8. ScanTypes(k) /\ (NoGap(scan) => NoGap(k)) /\ \A x : Has(k, x) <=> Has(scan, x)
    <2>1. k.todo \subseteq DOMAIN k.refsets
      BY <1>6, <1>7 DEF SameGraph
    <2> QED
      BY <1>2, <1>6, <2>1, SameGraphKeeps
  <1>9. UNCHANGED <<registry, now, knowledge, authority, observations, inventories, journal>>
    BY <1>1 DEF referrers, Read, Failed
  <1>10. fixed'.objects \subseteq present /\ fixed'.tags \subseteq {x \in Tags : tags[x] # Absent}
    BY <1>2 DEF RegistryInv, RepositoryOK
  <1>11. CASE refs = scan.refsets[d] /\ t = k
    <2>1. ASSUME t.blockers = {}
          PROVE  Thorough(scan)'
      <3>1. code = "" /\ Thorough(scan)
        BY <1>2, <1>4, <1>5, <1>11, <2>1 DEF RegistryInv, ScanOK
      <3>2. refs = Referrers(d)
        BY <1>1, <3>1 DEF referrers
      <3>3. NoGap(t)
        BY <1>8, <1>11, <3>1 DEF Thorough, NoGap
      <3>4. tags' = tags
        BY <1>9 DEF registry
      <3>5. AgainOK(scan)'
        BY <1>6, <1>11 DEF AgainOK
      <3>6. t.stack = <<>> /\ \A x \in fixed.tags : Has(t, tags[x])
        BY <1>2, <1>6, <1>8, <1>11, <3>1 DEF Thorough, RereadOK, SameGraph
      <3>7. ASSUME NEW e \in DOMAIN t.refsets, e \notin t.todo,
                   NEW x \in fixed.objects, Subject[x] = e
            PROVE  x \in t.refsets[e]
        <4>1. t.refsets = scan.refsets
          BY <1>6, <1>11 DEF SameGraph
        <4>2. CASE e = d
          BY <1>11, <3>2, <3>7, <4>1, <4>2 DEF Referrers, RegistryInv, RepositoryOK
        <4>3. CASE e # d
          BY <1>2, <1>6, <1>11, <3>1, <3>7, <4>1, <4>3 DEF Thorough, RereadOK
        <4> QED
          BY <4>2, <4>3
      <3>8. RereadOK(scan)'
        BY <1>2, <3>4, <3>6, <3>7 DEF RereadOK
      <3> QED
        BY <3>3, <3>5, <3>8 DEF Thorough, NoGap
    <2>2. scan.roots \subseteq t.roots
      BY <1>6, <1>11 DEF SameGraph
    <2> QED
      BY <1>2, <1>8, <1>9, <1>10, <1>11, <2>1, <2>2, ScanStepKeeps
  <1>12. CASE t = Push(block(k, "discovery_changed"),
                       Frame("referrer", refs, scan.depths[d] + 1, d))
    <2> DEFINE m == block(k, "discovery_changed")
               g == Frame("referrer", refs, scan.depths[d] + 1, d)
    <2>1. SameBut(k, m, {"blockers"}) /\ m.blockers # {}
      <3>1. DOMAIN k = ScanFields
        BY <1>6 DEF SameGraph
      <3>2. SameBut(k, m, {"blockers"}) /\ m.blockers = k.blockers \union {"discovery_changed"}
        BY <3>1, BlockKeeps
      <3> QED
        BY <3>2
    <2> HIDE DEF m
    <2>2. SameGraph(scan, m) /\ m.phase = "REREAD" /\ m.todo = scan.todo \ {d}
          /\ DOMAIN m = ScanFields
      BY <1>6, <2>1 DEF SameGraph, SameBut, ScanFields
    <2>3. refs \in SUBSET Manifests
      BY <1>1, ListedAreImages
    <2>4. g \in Seq(Frames) /\ Leaves(g, "referrer", refs, d)
      <3>1. "referrer" \in {"visit", "referrer", "blob", "referrers"}
        OBVIOUS
      <3>2. refs \in SUBSET Objects
        BY <2>3 DEF Manifests
      <3>3. scan.depths[d] \in Nat
        BY <1>2, <1>7 DEF ScanTypes
      <3>4. scan.depths[d] + 1 \in Nat
        BY <3>3, NextDepth
      <3>5. d \in Objects \union {Absent}
        OBVIOUS
      <3> QED
        BY <3>1, <3>2, <3>4, <3>5, InFrame
    <2> HIDE DEF g
    <2>5. m.stack \in Seq(Frames)
      BY <1>2, <2>2 DEF SameGraph, ScanTypes, StackOK
    <2>6. /\ SameBut(m, t, {"stack"}) /\ t.stack \in Seq(Frames)
          /\ \A op, x, from : ToDo(t, op, x, from) <=> InStack(g, op, x, from) \/ ToDo(m, op, x, from)
      BY <1>12, <2>2, <2>4, <2>5, PushKeeps DEF m, g
    <2>7. /\ DOMAIN t = ScanFields /\ t.visited = scan.visited /\ t.depths = scan.depths
          /\ t.refsets = scan.refsets /\ t.roots = scan.roots /\ t.nodes = scan.nodes
          /\ t.phase = "REREAD" /\ t.todo = scan.todo \ {d} /\ t.blockers # {}
      BY <2>1, <2>2, <2>6 DEF SameGraph, SameBut, ScanFields
    <2>8. \A op, x, from : ToDo(t, op, x, from)
              <=> (op = "referrer" /\ x \in refs /\ from = d) \/ ToDo(scan, op, x, from)
      <3>1. \A op, x, from : ToDo(m, op, x, from) <=> ToDo(scan, op, x, from)
        BY <2>2 DEF ToDo, SameGraph
      <3>2. \A op, x, from : InStack(g, op, x, from) <=> op = "referrer" /\ x \in refs /\ from = d
        BY <2>4 DEF Leaves
      <3> QED
        BY <2>6, <3>1, <3>2
    <2>9. StackOK(t)
      <3>1. ASSUME NEW x, NEW from, ToDo(t, "blob", x, from)
            PROVE  x \notin Manifests
        BY <1>2, <2>8, <3>1 DEF ScanTypes, StackOK
      <3>2. ASSUME NEW op \in {"visit", "referrer", "referrers"}, NEW x, NEW from,
                   ToDo(t, op, x, from)
            PROVE  x \in Manifests
        <4>1. CASE op = "referrer" /\ x \in refs /\ from = d
          BY <2>3, <4>1
        <4>2. CASE ToDo(scan, op, x, from)
          BY <1>2, <3>2, <4>2 DEF ScanTypes, StackOK
        <4> QED
          BY <2>8, <3>2, <4>1, <4>2
      <3>3. ASSUME NEW x, NEW from, ToDo(t, "referrers", x, from)
            PROVE  x \in t.visited
        BY <1>2, <2>7, <2>8, <3>3 DEF ScanTypes, StackOK
      <3> QED
        BY <2>6, <3>1, <3>2, <3>3 DEF StackOK
    <2>10. ScanTypes(t)
      BY <1>2, <1>7, <2>7, <2>9 DEF ScanTypes
    <2>11. \A x : Has(t, x) <=> Has(scan, x)
      BY <2>7 DEF Has
    <2>12. scan.roots \subseteq t.roots
      BY <2>7
    <2> QED
      BY <1>2, <1>9, <1>10, <2>7, <2>10, <2>11, <2>12, ScanStepKeeps
  <1> QED
    BY <1>1, <1>11, <1>12 DEF k

-----------------------------------------------------------------------------
(***************************************************************************)
(* Everyone else                                                           *)
(***************************************************************************)

\* What was seen was seen, and what a job was asked to look at stays.
Later ==
    /\ \A o \in Objects : lastSeen[o] \in Nat => lastSeen'[o] \in Nat /\ lastSeen[o] <= lastSeen'[o]
    /\ \A i \in 1..Len(observations) :
          i \in 1..Len(observations') /\ observations'[i].roots = observations[i].roots

\* What a scan or a report claims of the past stays true.
LEMMA SeenSinceKept ==
    ASSUME Later, NEW s, NEW at \in Nat, SeenSince(s, at)
    PROVE  SeenSince(s, at)'
  <1>1. ASSUME NEW o \in Objects, Has(s, o)
        PROVE  lastSeen'[o] \in Nat /\ at <= lastSeen'[o]
    <2>1. lastSeen[o] \in Nat /\ at <= lastSeen[o]
      BY <1>1 DEF SeenSince
    <2>2. lastSeen'[o] \in Nat /\ lastSeen[o] <= lastSeen'[o]
      BY <2>1 DEF Later
    <2> QED
      BY <2>1, <2>2
  <1> QED
    BY <1>1 DEF SeenSince

LEMMA GraphKept ==
    ASSUME Later, NEW g, GraphOK(g)
    PROVE  GraphOK(g)'
  <1>1. SeenSince(g, g.started)'
    BY SeenSinceKept DEF GraphOK
  <1>2. g.job \in 1..Len(observations') /\ observations'[g.job].roots = observations[g.job].roots
    BY DEF GraphOK, Later
  <1>3. g.complete => Whole(g)'
    BY <1>2 DEF GraphOK, Whole
  <1> QED
    BY <1>1, <1>2, <1>3 DEF GraphOK

\* The registry and the product go on while the observer does nothing.
LEMMA OutsideKeeps ==
    ASSUME RegistryInv, Later, RepositoryOK',
           known' \subseteq Manifests, protected' \subseteq known', now <= now',
           UNCHANGED <<config, observations, inventories, journal, scan>>,
           fixed'.objects \subseteq fixed.objects, fixed'.tags \subseteq fixed.tags,
           \A t \in fixed'.tags : tags'[t] = tags[t]
    PROVE  RegistryInv'
  <1>1. ServerOK'
    BY GraphKept DEF RegistryInv, ServerOK
  <1>2. JournalOK'
    <2>1. journal.state = "report" => GraphOK(journal.report)'
      BY GraphKept DEF RegistryInv, JournalOK
    <2>2. now \in Nat /\ now' \in Nat
      BY DEF RegistryInv, RepositoryOK
    <2>3. journal.started # Absent => journal.started \in Nat /\ journal.started <= now'
      BY <2>2 DEF RegistryInv, JournalOK
    <2> QED
      BY <2>1, <2>3 DEF RegistryInv, JournalOK
  <1>3. ScanOK'
    <2>1. CASE scan = Absent
      BY <2>1 DEF ScanOK
    <2>2. CASE scan # Absent
      <3>1. SeenSince(scan, journal.started)'
        <4>1. SeenSince(scan, journal.started) /\ journal.started \in Nat
          BY <2>2 DEF RegistryInv, ScanOK
        <4>2. \A o \in Objects : Has(scan, o) => lastSeen'[o] \in Nat /\ journal.started <= lastSeen'[o]
          BY <4>1, SeenSinceKept DEF SeenSince
        <4> QED
          BY <4>2 DEF SeenSince
      <3>2. ASSUME Thorough(scan)
            PROVE  Thorough(scan)'
        <4>1. AgainOK(scan)'
          BY <3>2 DEF Thorough, AgainOK
        <4>2. RereadOK(scan)'
          BY <3>2 DEF Thorough, RereadOK
        <4> QED
          BY <3>2, <4>1, <4>2 DEF Thorough
      <3> QED
        BY <2>2, <3>1, <3>2 DEF RegistryInv, ScanOK
    <2> QED
      BY <2>1, <2>2
  <1> QED
    BY <1>1, <1>2, <1>3 DEF RegistryInv

\* Time stands still and what is there is seen.
LEMMA SeenKeeps ==
    ASSUME RegistryAssumption, RepositoryOK, Seen, present' \subseteq Objects, now' = now,
           UNCHANGED observations
    PROVE  /\ Later
           /\ \A o \in Objects :
                 /\ lastSeen'[o] \in Nat \union {Absent}
                 /\ lastSeen'[o] # Absent => lastSeen'[o] <= now'
                 /\ o \in present' => lastSeen'[o] = now'
  <1>1. now \in Nat
    BY DEF RepositoryOK
  <1>2. ASSUME NEW o \in Objects
        PROVE  /\ lastSeen'[o] \in Nat \union {Absent}
               /\ lastSeen'[o] # Absent => lastSeen'[o] <= now'
               /\ o \in present' => lastSeen'[o] = now'
               /\ lastSeen[o] \in Nat => lastSeen'[o] \in Nat /\ lastSeen[o] <= lastSeen'[o]
    <2>1. lastSeen'[o] = IF o \in present \union present' THEN now ELSE lastSeen[o]
      BY DEF Seen
    <2>2. lastSeen[o] \in Nat => lastSeen[o] # Absent
      BY DEF RegistryAssumption
    <2>3. lastSeen[o] \in Nat \union {Absent} /\ (lastSeen[o] # Absent => lastSeen[o] <= now)
      BY DEF RepositoryOK
    <2>4. CASE o \in present \union present'
      <3>1. lastSeen'[o] = now
        BY <2>1, <2>4
      <3>2. now <= now
        BY <1>1
      <3> QED
        BY <1>1, <2>2, <2>3, <3>1, <3>2
    <2>5. CASE o \notin present \union present'
      <3>1. lastSeen'[o] = lastSeen[o]
        BY <2>1, <2>5
      <3>2. lastSeen[o] \in Nat => lastSeen[o] <= lastSeen[o]
        OBVIOUS
      <3> QED
        BY <2>3, <2>5, <3>1, <3>2
    <2> QED
      BY <2>4, <2>5
  <1> QED
    BY <1>2 DEF Later

LEMMA UnfixedKeeps ==
    ASSUME RepositoryOK, Unfixed
    PROVE  /\ fixed'.objects \subseteq fixed.objects /\ fixed'.objects \subseteq present'
           /\ fixed'.tags \subseteq fixed.tags /\ \A t \in fixed'.tags : tags'[t] = tags[t]
           /\ fixed'.tags \subseteq {t \in Tags : tags'[t] # Absent}
  <1>1. fixed'.objects = fixed.objects \intersect present'
    BY DEF Unfixed
  <1>2. fixed'.tags = {t \in fixed.tags : tags'[t] = tags[t]}
    BY DEF Unfixed
  <1> QED
    BY <1>1, <1>2 DEF RepositoryOK

LEMMA PushObjectKeeps ==
    ASSUME RegistryAssumption, RegistryInv, NEW o \in Objects, PushObject(o)
    PROVE  RegistryInv'
  <1>1. present' \subseteq Objects /\ tags' = tags /\ now' = now /\ known' = known
        /\ protected' = protected /\ Seen /\ Unfixed /\ now \in Nat
    BY DEF PushObject, RegistryAssumption, RegistryInv, RepositoryOK, knowledge
  <1>2. UNCHANGED <<config, observations, inventories, journal, scan>>
    BY DEF PushObject, Elsewhere, authority
  <1>3. RepositoryOK'
    BY <1>1, <1>2, SeenKeeps, UnfixedKeeps DEF RegistryInv, RepositoryOK
  <1>4. Later
    BY <1>1, <1>2, SeenKeeps DEF RegistryInv
  <1>5. now <= now' /\ known' \subseteq Manifests /\ protected' \subseteq known'
    BY <1>1 DEF RegistryInv, ServerOK
  <1> QED
    BY <1>1, <1>2, <1>3, <1>4, <1>5, UnfixedKeeps, OutsideKeeps DEF RegistryInv

LEMMA DeleteObjectKeeps ==
    ASSUME RegistryAssumption, RegistryInv, NEW o \in Objects, DeleteObject(o)
    PROVE  RegistryInv'
  <1>1. present' \subseteq Objects /\ now' = now /\ known' = known
        /\ protected' = protected /\ Seen /\ Unfixed /\ now \in Nat
        /\ tags' \in [Tags -> Manifests \union {Absent}]
    BY DEF DeleteObject, RegistryInv, RepositoryOK, knowledge
  <1>2. UNCHANGED <<config, observations, inventories, journal, scan>>
    BY DEF DeleteObject, Elsewhere, authority
  <1>3. RepositoryOK'
    BY <1>1, <1>2, SeenKeeps, UnfixedKeeps DEF RegistryInv, RepositoryOK
  <1>4. Later
    BY <1>1, <1>2, SeenKeeps DEF RegistryInv
  <1>5. now <= now' /\ known' \subseteq Manifests /\ protected' \subseteq known'
    BY <1>1 DEF RegistryInv, ServerOK
  <1> QED
    BY <1>1, <1>2, <1>3, <1>4, <1>5, UnfixedKeeps, OutsideKeeps DEF RegistryInv

LEMMA SeenStill ==
    ASSUME RepositoryOK, lastSeen' = lastSeen, UNCHANGED observations
    PROVE  Later
  <1>1. \A n \in Nat : n <= n
    OBVIOUS
  <1> QED
    BY <1>1 DEF Later

LEMMA RetagKeeps ==
    ASSUME RegistryAssumption, RegistryInv, NEW t \in Tags, NEW o \in Objects \union {Absent},
           Retag(t, o)
    PROVE  RegistryInv'
  <1>1. /\ UNCHANGED <<present, lastSeen, now, known, protected>> /\ Unfixed
        /\ tags' \in [Tags -> Manifests \union {Absent}]
    BY DEF Retag, RegistryInv, RepositoryOK, knowledge
  <1>2. UNCHANGED <<config, observations, inventories, journal, scan>>
    BY DEF Retag, Elsewhere, authority
  <1>3. RepositoryOK'
    BY <1>1, UnfixedKeeps DEF RegistryInv, RepositoryOK
  <1>4. Later
    BY <1>1, <1>2, SeenStill DEF RegistryInv
  <1>5. now <= now' /\ known' \subseteq Manifests /\ protected' \subseteq known'
    BY <1>1 DEF RegistryInv, ServerOK, RepositoryOK
  <1> QED
    BY <1>1, <1>2, <1>3, <1>4, <1>5, UnfixedKeeps, OutsideKeeps DEF RegistryInv

LEMMA KnowKeeps ==
    ASSUME RegistryAssumption, RegistryInv, NEW o \in Objects, Know(o) \/ Unprotect(o)
    PROVE  RegistryInv'
  <1>1. /\ UNCHANGED <<present, lastSeen, tags, now, fixed>>
        /\ known' \subseteq Manifests /\ protected' \subseteq known'
    BY DEF Know, Unprotect, RegistryInv, ServerOK, registry
  <1>2. UNCHANGED <<config, observations, inventories, journal, scan>>
    BY DEF Know, Unprotect, Elsewhere, authority
  <1>3. RepositoryOK'
    BY <1>1 DEF RegistryInv, RepositoryOK
  <1>4. Later
    BY <1>1, <1>2, SeenStill DEF RegistryInv
  <1>5. now <= now'
    BY <1>1 DEF RegistryInv, RepositoryOK
  <1> QED
    BY <1>1, <1>2, <1>3, <1>4, <1>5, OutsideKeeps

LEMMA TickKeeps ==
    ASSUME RegistryAssumption, RegistryInv, Tick
    PROVE  RegistryInv'
  <1>1. /\ UNCHANGED <<present, tags, known, protected, fixed>> /\ now \in Nat
        /\ now' = now + 1
        /\ lastSeen' = [o \in Objects |-> IF o \in present THEN now + 1 ELSE lastSeen[o]]
    BY DEF Tick, RegistryInv, RepositoryOK, knowledge
  <1>2. UNCHANGED <<config, observations, inventories, journal, scan>>
    BY DEF Tick, Elsewhere, authority
  <1>3. ASSUME NEW o \in Objects
        PROVE  /\ lastSeen'[o] \in Nat \union {Absent}
               /\ lastSeen'[o] # Absent => lastSeen'[o] <= now'
               /\ o \in present => lastSeen'[o] = now'
               /\ lastSeen[o] \in Nat => lastSeen'[o] \in Nat /\ lastSeen[o] <= lastSeen'[o]
    <2>1. lastSeen'[o] = IF o \in present THEN now' ELSE lastSeen[o]
      BY <1>1
    <2>2. lastSeen[o] \in Nat => lastSeen[o] # Absent
      BY DEF RegistryAssumption
    <2>3. lastSeen[o] \in Nat \union {Absent} /\ (lastSeen[o] # Absent => lastSeen[o] <= now)
      BY DEF RegistryInv, RepositoryOK
    <2>4. now' \in Nat /\ now' <= now' /\ \A n \in Nat : n <= now => n <= now' /\ n <= n
      BY <1>1
    <2> QED
      BY <2>1, <2>2, <2>3, <2>4
  <1>4. now' \in Nat /\ now <= now'
    BY <1>1
  <1>5. RepositoryOK'
    BY <1>1, <1>3, <1>4 DEF RegistryInv, RepositoryOK
  <1>6. Later
    BY <1>2, <1>3 DEF Later
  <1>7. known' \subseteq Manifests /\ protected' \subseteq known'
    BY <1>1 DEF RegistryInv, ServerOK
  <1>8. fixed'.objects \subseteq fixed.objects /\ fixed'.tags \subseteq fixed.tags
        /\ \A t \in fixed'.tags : tags'[t] = tags[t]
    BY <1>1
  <1> QED
    BY <1>2, <1>4, <1>5, <1>6, <1>7, <1>8, OutsideKeeps

-----------------------------------------------------------------------------
(***************************************************************************)
(* The observer process and the server                                     *)
(***************************************************************************)

LEMMA LaterStill ==
    ASSUME RepositoryOK, UNCHANGED lastSeen,
           \A i \in 1..Len(observations) :
              i \in 1..Len(observations') /\ observations'[i].roots = observations[i].roots
    PROVE  Later
  <1>1. \A n \in Nat : n <= n
    OBVIOUS
  <1> QED
    BY <1>1 DEF Later

\* One observation that changes anything but its roots.
LEMMA ObservationKept ==
    ASSUME RegistryInv, NEW j \in 1..Len(observations), NEW new \in Observation,
           new.roots = observations[j].roots, observations' = [observations EXCEPT ![j] = new]
    PROVE  /\ observations' \in Seq(Observation)
           /\ \A i \in 1..Len(observations) :
                 i \in 1..Len(observations') /\ observations'[i].roots = observations[i].roots
  <1>1. observations \in Seq(Observation)
    BY DEF RegistryInv, ServerOK
  <1>2. observations' \in Seq(Observation) /\ Len(observations') = Len(observations)
    BY <1>1
  <1>3. \A i \in 1..Len(observations) : observations'[i] = IF i = j THEN new ELSE observations[i]
    BY <1>1
  <1> QED
    BY <1>2, <1>3

LEMMA JournalKept ==
    ASSUME RegistryInv, Later, UNCHANGED <<journal, now>>
    PROVE  JournalOK'
  <1>1. journal.state = "report" => GraphOK(journal.report)'
    BY GraphKept DEF RegistryInv, JournalOK
  <1>2. journal.state # "none" => journal.job \in 1..Len(observations')
    BY DEF RegistryInv, JournalOK, Later
  <1> QED
    BY <1>1, <1>2 DEF RegistryInv, JournalOK

LEMMA ScanKept ==
    ASSUME RegistryInv, Later, UNCHANGED <<scan, fixed, journal, tags, lastSeen>>
    PROVE  ScanOK'
  <1>1. CASE scan = Absent
    BY <1>1 DEF ScanOK
  <1>2. CASE scan # Absent
    <2>1. journal.job \in 1..Len(observations')
          /\ observations'[journal.job].roots = observations[journal.job].roots
      BY <1>2 DEF RegistryInv, ScanOK, Later
    <2>2. SeenSince(scan, journal.started)'
      BY <1>2 DEF RegistryInv, ScanOK, SeenSince
    <2>3. Thorough(scan) => Thorough(scan)'
      BY DEF Thorough, AgainOK, RereadOK
    <2> QED
      BY <1>2, <2>1, <2>2, <2>3 DEF RegistryInv, ScanOK
  <1> QED
    BY <1>1, <1>2

\* The registry and what the product knows stay; the journal and the scan are right.
LEMMA InsideKeeps ==
    ASSUME RegistryInv, UNCHANGED <<registry, now, knowledge>>, Later, JournalOK', ScanOK',
           config' \in Nat, observations' \in Seq(Observation),
           fixed' = fixed \/ fixed' = Nothing,
           \A v \in inventories' : v \in inventories \/ GraphOK(v.graph)
    PROVE  RegistryInv'
  <1>1. RepositoryOK'
    <2>1. fixed'.objects \subseteq fixed.objects /\ fixed'.tags \subseteq fixed.tags
      BY DEF Nothing
    <2> QED
      BY <2>1 DEF RegistryInv, RepositoryOK, registry
  <1>2. \A v \in inventories' : GraphOK(v.graph)'
    BY GraphKept DEF RegistryInv, ServerOK
  <1>3. ServerOK'
    BY <1>2 DEF RegistryInv, ServerOK, knowledge
  <1> QED
    BY <1>1, <1>3 DEF RegistryInv

LEMMA ReconfigureKeeps ==
    ASSUME RegistryInv, Reconfigure \/ RestoreBackup
    PROVE  RegistryInv'
  <1>1. UNCHANGED <<registry, now, knowledge, observations, inventories, journal, scan, fixed>>
    BY DEF Reconfigure, RestoreBackup
  <1>2. config' \in Nat
    BY DEF Reconfigure, RestoreBackup, RegistryInv, ServerOK
  <1>3. Later
    BY <1>1, LaterStill DEF RegistryInv, registry
  <1>4. JournalOK' /\ ScanOK'
    BY <1>1, <1>3, JournalKept, ScanKept DEF registry
  <1>5. observations' \in Seq(Observation)
    BY <1>1 DEF RegistryInv, ServerOK
  <1> QED
    BY <1>1, <1>2, <1>3, <1>4, <1>5, InsideKeeps

LEMMA refreshRegistryInventoryKeeps ==
    ASSUME RegistryInv, refreshRegistryInventory
    PROVE  RegistryInv'
  <1> DEFINE new == [status |-> "QUEUED", roots |-> known, config |-> config, updated |-> now]
  <1>1. /\ UNCHANGED <<registry, now, knowledge, config, inventories, journal, scan, fixed>>
        /\ observations' = Append(observations, new)
    BY DEF refreshRegistryInventory, Kept, authority
  <1>2. observations \in Seq(Observation) /\ config \in Nat /\ config' \in Nat
    BY <1>1 DEF RegistryInv, ServerOK
  <1>6. new \in Observation
    <2>1. known \in SUBSET Manifests /\ now \in Nat /\ "QUEUED" \in Statuses
      BY DEF RegistryInv, ServerOK, RepositoryOK, Statuses
    <2> QED
      BY <1>2, <2>1 DEF Observation
  <1> HIDE DEF new
  <1>3. /\ observations' \in Seq(Observation)
        /\ \A i \in 1..Len(observations) :
              i \in 1..Len(observations') /\ observations'[i] = observations[i]
    BY <1>1, <1>2, <1>6
  <1>4. Later
    BY <1>1, <1>3, LaterStill DEF RegistryInv, registry
  <1>5. JournalOK' /\ ScanOK'
    BY <1>1, <1>4, JournalKept, ScanKept DEF registry
  <1> QED
    BY <1>1, <1>2, <1>3, <1>4, <1>5, InsideKeeps

LEMMA recoverWorkerKeeps ==
    ASSUME RegistryInv, NEW j \in 1..Len(observations), recoverWorker(j)
    PROVE  RegistryInv'
  <1> DEFINE status == CASE observations[j].status = "RUNNING" -> "RECONCILIATION_REQUIRED"
                         [] observations[j].status = "CLAIMED" -> "FAILED"
                         [] OTHER -> "DEADLINE_EXCEEDED"
  <1>1. UNCHANGED <<registry, now, knowledge, config, inventories, journal, scan, fixed>>
    BY DEF recoverWorker, Kept, authority
  <1>2. observations \in Seq(Observation) /\ observations[j] \in Observation /\ now \in Nat /\ config \in Nat
    BY DEF RegistryInv, ServerOK, RepositoryOK
  <1>3. observations' = [observations EXCEPT ![j].status = status, ![j].updated = now]
    BY <1>2 DEF recoverWorker
  <1>10. status \in Statuses
    BY DEF Statuses
  <1> HIDE DEF status
  <1>4. [observations[j] EXCEPT !.status = status, !.updated = now] \in Observation
    BY <1>2, <1>10 DEF Observation
  <1>5. observations' = [observations EXCEPT ![j] = [observations[j] EXCEPT !.status = status, !.updated = now]]
    BY <1>2, <1>3
  <1>6. [observations[j] EXCEPT !.status = status, !.updated = now].roots = observations[j].roots
    BY <1>2 DEF Observation
  <1>7. /\ observations' \in Seq(Observation)
        /\ \A i \in 1..Len(observations) :
              i \in 1..Len(observations') /\ observations'[i].roots = observations[i].roots
    BY <1>4, <1>5, <1>6, ObservationKept
  <1>8. Later
    BY <1>1, <1>7, LaterStill DEF RegistryInv, registry
  <1>9. JournalOK' /\ ScanOK'
    BY <1>1, <1>8, JournalKept, ScanKept DEF registry
  <1> QED
    BY <1>1, <1>2, <1>7, <1>8, <1>9, InsideKeeps

\* The status of an observation moves on.
LEMMA StatusKept ==
    ASSUME RegistryInv, NEW j \in 1..Len(observations), NEW status \in Statuses,
           observations' = [observations EXCEPT ![j].status = status], UNCHANGED lastSeen
    PROVE  Later /\ observations' \in Seq(Observation)
  <1>1. observations \in Seq(Observation) /\ observations[j] \in Observation
    BY DEF RegistryInv, ServerOK
  <1> DEFINE new == [observations[j] EXCEPT !.status = status]
  <1>2. new \in Observation /\ new.roots = observations[j].roots
    BY <1>1 DEF Observation
  <1>3. observations' = [observations EXCEPT ![j] = new]
    BY <1>1
  <1> HIDE DEF new
  <1> QED
    BY <1>2, <1>3, ObservationKept, LaterStill DEF RegistryInv

LEMMA ClaimKeeps ==
    ASSUME RegistryInv, NEW j \in 1..Len(observations), Claim(j)
    PROVE  RegistryInv'
  <1>1. /\ UNCHANGED <<registry, now, knowledge, config, inventories, scan, fixed>> /\ scan = Absent
        /\ observations' = [observations EXCEPT ![j].status = "CLAIMED"]
    BY DEF Claim, Kept, authority
  <1>2. Later /\ observations' \in Seq(Observation)
    <2>1. "CLAIMED" \in Statuses
      BY DEF Statuses
    <2> QED
      BY <1>1, <2>1, StatusKept DEF registry
  <1>3. \/ journal' = [Empty EXCEPT !.state = "claimed", !.job = j, !.config = config]
        \/ journal' = Empty
    BY DEF Claim
  <1>4. JournalOK'
    <2>1. j \in 1..Len(observations')
      BY <1>2 DEF Later
    <2>2. CASE journal' = Empty
      BY <2>2 DEF JournalOK, Empty
    <2>3. CASE journal' = [Empty EXCEPT !.state = "claimed", !.job = j, !.config = config]
      <3>1. /\ DOMAIN journal' = {"state", "job", "config", "started", "report"}
            /\ journal'.state = "claimed" /\ journal'.job = j
            /\ journal'.started = Absent /\ journal'.report = Absent
        BY <2>3 DEF Empty
      <3> QED
        BY <2>1, <3>1 DEF JournalOK
    <2> QED
      BY <1>3, <2>2, <2>3
  <1>5. ScanOK' /\ config' \in Nat
    BY <1>1 DEF ScanOK, RegistryInv, ServerOK
  <1> QED
    BY <1>1, <1>2, <1>4, <1>5, InsideKeeps

LEMMA SendKeeps ==
    ASSUME RegistryInv, Send
    PROVE  RegistryInv'
  <1> DEFINE g == journal.report
  <1>1. /\ UNCHANGED <<registry, now, knowledge, config, scan, fixed>> /\ scan = Absent
        /\ observations' = [observations EXCEPT ![journal.job].status = "SUCCEEDED"]
        /\ journal.state = "report"
    BY DEF Send, Kept, authority, Idle
  <1>2. journal.job \in 1..Len(observations) /\ GraphOK(g)
    BY <1>1 DEF RegistryInv, JournalOK
  <1>3. Later /\ observations' \in Seq(Observation)
    <2>1. "SUCCEEDED" \in Statuses
      BY DEF Statuses
    <2> QED
      BY <1>1, <1>2, <2>1, StatusKept DEF registry
  <1>4. \A v \in inventories' : v \in inventories \/ GraphOK(v.graph)
    <2>1. inventories' = inventories \/ inventories' = admitRegistryInventory(g)
      BY DEF Send
    <2> QED
      BY <1>2, <2>1 DEF admitRegistryInventory
  <1>5. JournalOK'
    <2>1. CASE journal' = journal
      BY <1>1, <1>3, <2>1, JournalKept
    <2>2. CASE journal' = [journal EXCEPT !.state = "done", !.report = Absent]
      <3>1. /\ DOMAIN journal' = {"state", "job", "config", "started", "report"}
            /\ journal'.state = "done" /\ journal'.job = journal.job
            /\ journal'.started = journal.started /\ journal'.report = Absent
        BY <2>2 DEF RegistryInv, JournalOK
      <3>2. journal.job \in 1..Len(observations')
        BY <1>2, <1>3 DEF Later
      <3> QED
        BY <1>1, <3>1, <3>2 DEF RegistryInv, JournalOK
    <2> QED
      BY <2>1, <2>2 DEF Send
  <1>6. ScanOK' /\ config' \in Nat
    BY <1>1 DEF ScanOK, RegistryInv, ServerOK
  <1> QED
    BY <1>1, <1>3, <1>4, <1>5, <1>6, InsideKeeps

\* A scan that begins has its roots to visit and nothing else.
LEMMA FreshScan ==
    ASSUME RegistryAssumption, NEW roots \in SUBSET Manifests
    PROVE  LET s == scanner(roots)
           IN /\ ScanTypes(s) /\ NoGap(s) /\ s.phase = "ROOTS" /\ s.roots = roots
              /\ \A o : ~Has(s, o)
  <1> DEFINE s == scanner(roots)
             f == Frame("visit", roots, 0, Absent)
  <1>1. f \in Seq(Frames) /\ Leaves(f, "visit", roots, Absent)
    <2>1. roots \in SUBSET Objects /\ 0 \in Nat
      BY DEF Manifests
    <2> QED
      BY <2>1, InFrame
  <1> HIDE DEF f
  <1>2. /\ DOMAIN s = ScanFields
        /\ s.phase = "ROOTS" /\ s.stack = f /\ s.nodes = [o \in roots |-> "UNKNOWN"]
        /\ s.roots = roots /\ s.visited = {} /\ s.depths = NoneYet /\ s.refsets = NoneYet
    BY DEF scanner, ScanFields, f
  <1> HIDE DEF s
  <1>3. \A op, x, from : ToDo(s, op, x, from) <=> op = "visit" /\ x \in roots /\ from = Absent
    BY <1>1, <1>2 DEF ToDo, Leaves
  <1>4. DOMAIN NoneYet = {}
    BY DEF NoneYet
  <1>5. \A o : ~Has(s, o)
    BY <1>2 DEF Has
  <1>6. StackOK(s)
    BY <1>1, <1>2, <1>3 DEF StackOK
  <1>7. ScanTypes(s)
    BY <1>2, <1>4, <1>6 DEF ScanTypes
  <1>8. RootsOK(s)
    BY <1>2, <1>3 DEF RootsOK, Will
  <1>9. VisitedOK(s) /\ BelowOK(s) /\ ReferrersOK(s)
    BY <1>2, <1>4, <1>5 DEF VisitedOK, BelowOK, ReferrersOK
  <1> QED
    BY <1>2, <1>5, <1>7, <1>8, <1>9 DEF NoGap, s

\* A scan begins, with the time its journal has or gets now.
LEMMA StartKeeps ==
    ASSUME RegistryAssumption, RegistryInv, Start
    PROVE  RegistryInv'
  <1> DEFINE j == journal.job
             roots == observations[j].roots
  <1>1. /\ UNCHANGED <<registry, now, knowledge, config, inventories, fixed>>
        /\ observations' = [observations EXCEPT ![j].status = "RUNNING"]
        /\ journal.state \in {"claimed", "started"} /\ scan = Absent
    BY DEF Start, Kept, authority, Idle
  <1>2. j \in 1..Len(observations) /\ journal.report = Absent
    BY <1>1 DEF RegistryInv, JournalOK
  <1>3. Later /\ observations' \in Seq(Observation) /\ j \in 1..Len(observations')
        /\ observations'[j].roots = roots
    <2>1. "RUNNING" \in Statuses
      BY DEF Statuses
    <2>2. Later /\ observations' \in Seq(Observation)
      BY <1>1, <1>2, <2>1, StatusKept DEF registry
    <2> QED
      BY <1>2, <2>2 DEF Later
  <1>4. CASE UNCHANGED <<journal, scan>>
    <2>1. JournalOK' /\ ScanOK'
      BY <1>1, <1>3, <1>4, JournalKept DEF ScanOK
    <2> QED
      BY <1>1, <1>3, <2>1, InsideKeeps DEF RegistryInv, ServerOK
  <1>5. CASE /\ journal' = [journal EXCEPT !.state = "started", !.started = IF @ = Absent THEN now ELSE @]
             /\ scan' = scanner(roots)
    <2>1. /\ DOMAIN journal' = {"state", "job", "config", "started", "report"}
          /\ journal'.state = "started" /\ journal'.job = j /\ journal'.report = Absent
          /\ journal'.started = IF journal.started = Absent THEN now ELSE journal.started
      BY <1>2, <1>5 DEF RegistryInv, JournalOK
    <2>2. journal'.started \in Nat /\ journal'.started <= now
      <3>1. now \in Nat /\ now <= now
        BY DEF RegistryInv, RepositoryOK
      <3> QED
        BY <2>1, <3>1 DEF RegistryInv, JournalOK
    <2>3. JournalOK'
      BY <1>1, <1>3, <2>1, <2>2 DEF JournalOK
    <2>4. roots \in SUBSET Manifests
      <3>1. observations \in Seq(Observation)
        BY DEF RegistryInv, ServerOK
      <3>2. observations[j] \in Observation
        BY <1>2, <3>1
      <3> QED
        BY <3>2 DEF Observation
    <2>5. /\ ScanTypes(scan') /\ NoGap(scan') /\ scan'.phase = "ROOTS" /\ scan'.roots = roots
          /\ \A o : ~Has(scan', o)
      BY <1>5, <2>4, FreshScan
    <2>6. Thorough(scan)' /\ SeenSince(scan, journal.started)'
      BY <2>5 DEF Thorough, NoGap, AgainOK, RereadOK, SeenSince
    <2>7. ScanOK'
      BY <1>3, <2>1, <2>2, <2>5, <2>6 DEF ScanOK
    <2> QED
      BY <1>1, <1>3, <2>3, <2>7, InsideKeeps DEF RegistryInv, ServerOK
  <1> QED
    BY <1>4, <1>5 DEF Start

LEMMA InterruptedKeeps ==
    ASSUME RegistryInv, Interrupted
    PROVE  RegistryInv'
  <1>1. /\ UNCHANGED <<registry, now, knowledge, config, inventories, observations, journal>>
        /\ scan' = Absent /\ fixed' = Nothing
    BY DEF Interrupted, Kept, authority
  <1>2. Later
    BY <1>1, LaterStill DEF RegistryInv, registry
  <1>3. JournalOK' /\ ScanOK'
    BY <1>1, <1>2, JournalKept DEF ScanOK
  <1>4. config' \in Nat /\ observations' \in Seq(Observation)
    BY <1>1 DEF RegistryInv, ServerOK
  <1> QED
    BY <1>1, <1>2, <1>3, <1>4, InsideKeeps

\* A scan at its end has handled everything: nothing is on its stack and
\* nothing waits for its second look.
LEMMA EndedIsWhole ==
    ASSUME RegistryAssumption, RegistryInv, scan # Absent, scan.stack = <<>>,
           scan.phase = "REREAD", scan.todo = {}, scan.blockers = {},
           NEW g, g = Report(scan, journal.job)
    PROVE  Whole(g)
  <1> DEFINE s == scan
             roots == observations[journal.job].roots
  <1>1. ScanTypes(s) /\ Thorough(s) /\ roots \subseteq s.roots /\ s.roots \subseteq Manifests
    BY DEF RegistryInv, ScanOK, ScanTypes
  <1>2. /\ g.job = journal.job /\ g.nodes = s.nodes /\ g.edges = s.edges
        /\ g.fixed.objects = fixed.objects /\ g.fixed.roots = {tags[t] : t \in fixed.tags}
    BY DEF Report
  <1>3. \A x : Has(g, x) <=> Has(s, x)
    BY <1>2 DEF Has
  <1>4. \A op, o, from : ~ToDo(s, op, o, from)
    <2>1. Len(s.stack) = 0
      OBVIOUS
    <2> QED
      BY <2>1 DEF ToDo, InStack
  <1>5. \A o, from : ~Will(s, o, from)
    BY <1>4 DEF Will
  <1>6. tags \in [Tags -> Manifests \union {Absent}] /\ fixed.tags \subseteq {t \in Tags : tags[t] # Absent}
        /\ fixed.objects \subseteq Objects
    BY DEF RegistryInv, RepositoryOK
  <1>7. g.fixed.roots \subseteq Objects /\ g.fixed.objects \subseteq Objects
    BY <1>2, <1>6 DEF Manifests
  <1>8. \A r \in roots \union g.fixed.roots : Has(g, r)
    <2>1. \A r \in roots : Has(g, r)
      BY <1>1, <1>3, <1>5 DEF Thorough, RootsOK
    <2>2. \A t \in fixed.tags : Has(g, tags[t])
      BY <1>1, <1>3 DEF Thorough, RereadOK
    <2> QED
      BY <1>2, <2>1, <2>2
  <1>9. ASSUME NEW o \in Objects, Has(g, o)
        PROVE  /\ \A c \in Content[o] : Joined(g, o, c)
               /\ Subject[o] # Absent => Has(g, Subject[o])
               /\ \A x \in g.fixed.objects : Subject[x] = o => Has(g, x)
    <2>1. CASE o \in Manifests
      <3>1. o \in s.visited
        BY <1>1, <1>3, <1>9, <2>1 DEF Thorough, VisitedOK
      <3>2. /\ \A c \in Content[o] : Joined(s, o, c)
            /\ Subject[o] # Absent => Joined(s, o, Subject[o])
            /\ o \in DOMAIN s.refsets
        BY <1>1, <1>4, <1>5, <3>1 DEF Thorough, BelowOK
      <3>3. ASSUME NEW x \in g.fixed.objects, Subject[x] = o
            PROVE  Has(g, x)
        <4>1. x \in s.refsets[o]
          BY <1>1, <1>2, <3>2, <3>3 DEF Thorough, RereadOK
        <4>2. Joined(s, o, x)
          BY <1>1, <1>5, <3>2, <4>1 DEF Thorough, ReferrersOK
        <4> QED
          BY <1>3, <4>2 DEF Joined
      <3> QED
        BY <1>2, <1>3, <3>2, <3>3 DEF Joined
    <2>2. CASE o \notin Manifests
      <3>1. Content[o] = {} /\ Subject[o] = Absent
        BY <2>2 DEF RegistryAssumption, Manifests
      <3>2. \A x \in Objects : Subject[x] # o
        BY <2>2 DEF RegistryAssumption
      <3> QED
        BY <1>2, <1>6, <3>1, <3>2
    <2> QED
      BY <2>1, <2>2
  <1>10. g.job = journal.job
    BY <1>2
  <1> QED
    BY <1>7, <1>8, <1>9, <1>10 DEF Whole

\* The report of a scan that ended is true.
LEMMA ObservedKeeps ==
    ASSUME RegistryAssumption, RegistryInv, Observed
    PROVE  RegistryInv'
  <1> DEFINE roots == observations[journal.job].roots
  <1>0. PICK g : g = Report(scan, journal.job)
    OBVIOUS
  <1>1. /\ UNCHANGED <<registry, now, knowledge, config, inventories, observations>>
        /\ scan' = Absent /\ fixed' = Nothing /\ scan # Absent
        /\ scan.stack = <<>> /\ scan.phase = "REREAD" /\ scan.todo = {}
        /\ journal' = journal \/ journal' = [journal EXCEPT !.state = "report", !.report = g]
    BY <1>0 DEF Observed, Kept, authority, Scanning
  <1>2. Later
    BY <1>1, LaterStill DEF RegistryInv, registry
  <1>3. config' \in Nat /\ observations' \in Seq(Observation) /\ ScanOK'
    BY <1>1 DEF RegistryInv, ServerOK, ScanOK
  <1>4. CASE journal' = journal
    <2>1. JournalOK'
      BY <1>1, <1>2, <1>4, JournalKept
    <2> QED
      BY <1>1, <1>2, <1>3, <2>1, InsideKeeps
  <1>5. CASE journal' = [journal EXCEPT !.state = "report", !.report = g]
    <2>1. /\ journal.job \in 1..Len(observations) /\ journal.started \in Nat
          /\ SeenSince(scan, journal.started)
      BY <1>1 DEF RegistryInv, ScanOK
    <2>2. /\ g.job = journal.job /\ g.nodes = scan.nodes /\ g.started = journal.started
          /\ g.complete = Complete(scan) /\ g.content = imageContentRoots(scan, roots)
      BY <1>0 DEF Report
    <2>3. g.complete => Whole(g)
      BY <1>1, <1>0, <2>2, EndedIsWhole DEF Complete
    <2>4. \A x : Has(g, x) <=> Has(scan, x)
      BY <2>2 DEF Has
    <2>5. SeenSince(g, g.started)
      BY <2>1, <2>2, <2>4 DEF SeenSince
    <2>6. \A r \in g.content : r \in Objects /\ \A o \in Pull({r}) : Has(g, o)
      <3>1. observations \in Seq(Observation)
        BY DEF RegistryInv, ServerOK
      <3>2. observations[journal.job] \in Observation
        BY <2>1, <3>1
      <3>3. roots \subseteq Objects
        BY <3>2 DEF Observation, Manifests
      <3> QED
        BY <2>2, <2>4, <3>3 DEF imageContentRoots
    <2>7. GraphOK(g)
      BY <2>1, <2>2, <2>3, <2>5, <2>6 DEF GraphOK
    <2>8. GraphOK(g)'
      BY <1>2, <2>7, GraphKept
    <2>9. /\ DOMAIN journal' = {"state", "job", "config", "started", "report"}
          /\ journal'.state = "report" /\ journal'.job = journal.job
          /\ journal'.started = journal.started /\ journal'.report = g
      BY <1>5 DEF RegistryInv, JournalOK
    <2>10. journal'.job \in 1..Len(observations') /\ journal'.started <= now'
      BY <1>1, <2>1, <2>9 DEF RegistryInv, JournalOK, ScanOK, RegistryAssumption
    <2>11. GraphOK(journal.report)'
      BY <2>8, <2>9
    <2>12. JournalOK'
      BY <2>1, <2>9, <2>10, <2>11 DEF JournalOK
    <2> QED
      BY <1>1, <1>2, <1>3, <2>12, InsideKeeps
  <1> QED
    BY <1>1, <1>4, <1>5

-----------------------------------------------------------------------------
(***************************************************************************)
(* The invariant of the specification                                      *)
(***************************************************************************)

\* The invariant holds at first and every step keeps it.
LEMMA RegistryInitInv ==
    ASSUME RegistryAssumption, RegistryInit
    PROVE  RegistryInv
  <1>1. RepositoryOK
    <2>1. now \in Nat /\ now <= now /\ present \subseteq Objects
      BY DEF RegistryInit, RegistryAssumption
    <2>2. tags \in [Tags -> Manifests \union {Absent}]
      BY DEF RegistryInit, Manifests
    <2>3. \A o \in Objects : lastSeen[o] = IF o \in present THEN now ELSE Absent
      BY DEF RegistryInit
    <2>4. fixed.objects = {} /\ fixed.tags = {}
      BY DEF RegistryInit, Nothing
    <2> QED
      BY <2>1, <2>2, <2>3, <2>4 DEF RepositoryOK
  <1>2. ServerOK
    <2>1. observations \in Seq(Observation) /\ config \in Nat /\ inventories = {}
      BY DEF RegistryInit
    <2>2. known \subseteq Manifests /\ protected \subseteq known
      BY DEF RegistryInit, RegistryAssumption
    <2> QED
      BY <2>1, <2>2 DEF ServerOK
  <1>3. JournalOK
    BY DEF RegistryInit, Empty, JournalOK
  <1>4. ScanOK
    BY DEF RegistryInit, ScanOK
  <1> QED
    BY <1>1, <1>2, <1>3, <1>4 DEF RegistryInv

LEMMA RegistryStepInv ==
    ASSUME RegistryAssumption, RegistryInv, [RegistryNext]_registryVars
    PROVE  RegistryInv'
  <1>1. ASSUME ScanNext
        PROVE  RegistryInv'
    BY <1>1, VisitNextKeeps, BlobNextKeeps, ReferrersNextKeeps, RereadKeeps, tagsListKeeps,
       resolveTagsKeeps, ComparedKeeps DEF ScanNext
  <1>2. ASSUME NEW j \in 1..Len(observations), Claim(j) \/ recoverWorker(j)
        PROVE  RegistryInv'
    BY <1>2, ClaimKeeps, recoverWorkerKeeps
  <1>3. ASSUME Start \/ Observed \/ Interrupted \/ Send \/ refreshRegistryInventory
        PROVE  RegistryInv'
    BY <1>3, StartKeeps, ObservedKeeps, InterruptedKeeps, SendKeeps, refreshRegistryInventoryKeeps
  <1>4. ASSUME NEW o \in Objects, PushObject(o) \/ DeleteObject(o) \/ Know(o) \/ Unprotect(o)
        PROVE  RegistryInv'
    BY <1>4, PushObjectKeeps, DeleteObjectKeeps, KnowKeeps
  <1>5. ASSUME NEW t \in Tags, NEW o \in Objects \union {Absent}, Retag(t, o)
        PROVE  RegistryInv'
    BY <1>5, RetagKeeps
  <1>6. ASSUME Tick \/ Reconfigure \/ RestoreBackup
        PROVE  RegistryInv'
    BY <1>6, TickKeeps, ReconfigureKeeps
  <1>7. ASSUME UNCHANGED registryVars
        PROVE  RegistryInv'
    <2>1. UNCHANGED <<registry, now, knowledge, config, observations, inventories, journal, scan, fixed>>
      BY <1>7 DEF registryVars, authority
    <2>2. Later
      BY <2>1, LaterStill DEF RegistryInv, registry
    <2>3. JournalOK' /\ ScanOK'
      BY <2>1, <2>2, JournalKept, ScanKept DEF registry
    <2>4. config' \in Nat /\ observations' \in Seq(Observation)
      BY <2>1 DEF RegistryInv, ServerOK
    <2> QED
      BY <2>1, <2>2, <2>3, <2>4, InsideKeeps
  <1> QED
    BY <1>1, <1>2, <1>3, <1>4, <1>5, <1>6, <1>7 DEF RegistryNext

\* A scan that nothing blocks is thorough, and every report, in the journal or
\* admitted, is true of what was in the registry since it was started
\* (registryobserver/graph.go, visit and Observe; runner.go, RunOnce;
\* application/registry_inventory.go).
THEOREM RegistryInvariantHolds == RegistrySpec => []RegistryInv
  <1>1. RegistryInit => RegistryInv
    BY RegistryAssumption, RegistryInitInv
  <1>2. RegistryInv /\ [RegistryNext]_registryVars => RegistryInv'
    BY RegistryAssumption, RegistryStepInv
  <1> QED
    BY <1>1, <1>2, PTL DEF RegistrySpec

-----------------------------------------------------------------------------
(***************************************************************************)
(* The reports and what is concluded from them                             *)
(***************************************************************************)

\* What is reached is the least set that holds the beginning and is closed.
LEMMA ReachableIn ==
    ASSUME NEW edges, NEW from, NEW S \in SUBSET Objects, from \subseteq S, Closed(edges, S)
    PROVE  Reachable(edges, from) \subseteq S
  BY DEF Reachable

\* What is reached holds the beginning and is closed itself, and more edges
\* from more beginnings reach more.
LEMMA ReachableHolds ==
    ASSUME NEW edges, NEW from, from \subseteq Objects
    PROVE  /\ from \subseteq Reachable(edges, from)
           /\ \A e \in edges : e[1] \in Reachable(edges, from) /\ e[2] \in Objects
                                  => e[2] \in Reachable(edges, from)
  <1>1. from \subseteq Reachable(edges, from)
    BY DEF Reachable
  <1>2. ASSUME NEW e \in edges, e[1] \in Reachable(edges, from), e[2] \in Objects
        PROVE  e[2] \in Reachable(edges, from)
    <2>1. ASSUME NEW S \in SUBSET Objects, from \subseteq S, Closed(edges, S)
          PROVE  e[2] \in S
      <3>1. e[1] \in S
        BY <1>2, <2>1, ReachableIn
      <3> QED
        BY <2>1, <3>1 DEF Closed
    <2> QED
      BY <1>2, <2>1 DEF Reachable
  <1> QED
    BY <1>1, <1>2

LEMMA ReachableGrows ==
    ASSUME NEW edges, NEW edges2, edges \subseteq edges2,
           NEW from, NEW from2, from \subseteq from2
    PROVE  Reachable(edges, from) \subseteq Reachable(edges2, from2)
  BY DEF Reachable, Closed

\* What an image needs is what it lists, what that needs, and so on.
LEMMA PullClosed ==
    ASSUME NEW from, from \subseteq Objects
    PROVE  from \subseteq Pull(from) /\ Pull(from) \subseteq Objects /\ Closed(PullEdges, Pull(from))
  <1>1. \A e \in PullEdges : e[2] \in Objects
    BY DEF PullEdges
  <1>2. /\ from \subseteq Pull(from)
        /\ \A e \in PullEdges : e[1] \in Pull(from) /\ e[2] \in Objects => e[2] \in Pull(from)
    BY ReachableHolds DEF Pull
  <1>3. Pull(from) \subseteq Objects
    BY DEF Pull, Reachable
  <1> QED
    BY <1>1, <1>2, <1>3 DEF Closed

\* What a complete graph has is closed, along what an image needs and along
\* everything nobody can have escaped.
LEMMA WholeIsClosed ==
    ASSUME RegistryAssumption, NEW g, Whole(g)
    PROVE  Closed(PullEdges, {o \in Objects : Has(g, o)})
  BY DEF Closed, PullEdges, Whole, Joined

\* A complete report has read everything nobody can have escaped.
LEMMA InescapableRead ==
    ASSUME RegistryAssumption, RegistryInv, NEW g, GraphOK(g), g.complete
    PROVE  Inescapable(g) \subseteq {o \in Objects : Has(g, o)}
  <1> DEFINE S == {o \in Objects : Has(g, o)}
             down == {<<o, Subject[o]>> : o \in {x \in Objects : Subject[x] # Absent}}
             up == {<<Subject[o], o>> : o \in {x \in g.fixed.objects : Subject[x] # Absent}}
             roots == observations[g.job].roots \union g.fixed.roots
  <1>1. Whole(g)
    BY DEF GraphOK
  <1>2. roots \subseteq S
    <2>1. observations \in Seq(Observation) /\ g.job \in 1..Len(observations)
      BY DEF RegistryInv, ServerOK, GraphOK
    <2>2. observations[g.job] \in Observation
      BY <2>1
    <2>3. observations[g.job].roots \subseteq Objects
      BY <2>2 DEF Observation, Manifests
    <2> QED
      BY <1>1, <2>3 DEF Whole
  <1>3. Closed(PullEdges, S)
    BY <1>1, WholeIsClosed
  <1>4. Closed(down, S)
    <2>1. \A o \in S : Subject[o] # Absent => Subject[o] \in S
      BY <1>1 DEF Whole, RegistryAssumption
    <2> QED
      BY <2>1 DEF Closed
  <1>5. Closed(up, S)
    <2>1. \A x \in g.fixed.objects : Subject[x] \in S => x \in S
      BY <1>1 DEF Whole
    <2> QED
      BY <2>1 DEF Closed
  <1>6. Closed(PullEdges \union down \union up, S)
    BY <1>3, <1>4, <1>5 DEF Closed
  <1>7. S \in SUBSET Objects
    OBVIOUS
  <1>8. Inescapable(g) = Reachable(PullEdges \union down \union up, roots)
    BY DEF Inescapable
  <1> HIDE DEF S, down, up, roots
  <1>9. Inescapable(g) \subseteq S
    BY <1>2, <1>6, <1>7, <1>8, ReachableIn
  <1> QED
    BY <1>9 DEF S

\* A complete report missed nothing that was there all the time, and a proven
\* image was read to the last byte, however objects and tags came and went
\* (registryobserver/graph.go, Observe; image_content.go, imageContentRoots).
THEOREM CompleteReportsAreTrue == RegistrySpec => []CompleteIsTrue
  <1>1. RegistryInv => CompleteIsTrue
    <2>1. SUFFICES ASSUME RegistryInv, journal.report # Absent
                   PROVE  LET g == journal.report
                              read == {o \in Objects : Has(g, o)}
                          IN /\ g.complete => Inescapable(g) \subseteq read
                             /\ Pull(g.content) \subseteq read
      BY DEF CompleteIsTrue
    <2>2. PICK g : g = journal.report
      OBVIOUS
    <2> DEFINE S == {o \in Objects : Has(g, o)}
               T == {o \in Objects : \E r \in g.content : o \in Pull({r})}
    <2>3. GraphOK(g)
      BY <2>1, <2>2 DEF RegistryInv, JournalOK
    <2>4. g.complete => Inescapable(g) \subseteq S
      BY <2>1, <2>3, RegistryAssumption, InescapableRead
    <2>5. \A r \in g.content : r \in Objects /\ {r} \subseteq Pull({r})
                                  /\ Closed(PullEdges, Pull({r})) /\ \A o \in Pull({r}) : Has(g, o)
      <3>1. TAKE r \in g.content
      <3>2. {r} \subseteq Objects /\ \A o \in Pull({r}) : Has(g, o)
        BY <2>3 DEF GraphOK
      <3> QED
        BY <3>2, PullClosed
    <2>6. g.content \subseteq T
      BY <2>5
    <2>7. Closed(PullEdges, T)
      <3>1. \A e \in PullEdges : e[2] \in Objects
        BY DEF PullEdges
      <3> QED
        BY <2>5, <3>1 DEF Closed
    <2>8. T \subseteq S /\ T \in SUBSET Objects
      BY <2>5
    <2> HIDE DEF T
    <2>9. Pull(g.content) \subseteq T
      BY <2>6, <2>7, <2>8, ReachableIn DEF Pull
    <2> QED
      BY <2>2, <2>4, <2>8, <2>9
  <1> QED
    BY <1>1, RegistryInvariantHolds, PTL

\* What CURRENT says of the latest inventory.
LEMMA CurrentInventory ==
    ASSUME registrySummary = "CURRENT"
    PROVE  \E v \in inventories :
              /\ now - v.graph.started <= Window
              /\ v.graph.complete
              /\ \A o \in known : Has(v.graph, o)
  <1> DEFINE latest == CHOOSE v \in registryLatest : TRUE
  <1>1. registryLatest # {}
    BY DEF registrySummary
  <1>2. latest \in registryLatest
    BY <1>1
  <1>3. latest \in inventories
    BY <1>2 DEF registryLatest
  <1>4. /\ RegistryInventoryFreshness(latest) # "STALE"
        /\ \A o \in known : registryCovered(latest.graph, o)
        /\ latest.graph.complete
    BY DEF registrySummary
  <1>5. now - latest.graph.started <= Window
    BY <1>4 DEF RegistryInventoryFreshness
  <1>6. \A o \in known : Has(latest.graph, o)
    BY <1>4 DEF registryCovered
  <1> QED
    BY <1>3, <1>4, <1>5, <1>6

\* While the report says CURRENT, all that the known images need was in the
\* registry within the window, and what protected images need is protected
\* (domain/registry_retention.go, registrySummary and registryRetention).
THEOREM CurrentMeansCurrent == RegistrySpec => []CurrentIsCurrent
  <1>1. RegistryInv => CurrentIsCurrent
    <2>1. SUFFICES ASSUME RegistryInv, registrySummary = "CURRENT"
                   PROVE  /\ \A o \in Pull(known) : lastSeen[o] # Absent /\ now - lastSeen[o] <= Window
                          /\ Pull(protected) \subseteq registryRetention
      BY DEF CurrentIsCurrent
    <2>2. PICK v \in inventories : /\ now - v.graph.started <= Window
                                   /\ v.graph.complete
                                   /\ \A o \in known : Has(v.graph, o)
      BY <2>1, CurrentInventory
    <2>3. PICK g : g = v.graph
      OBVIOUS
    <2> DEFINE S == {o \in Objects : Has(g, o)}
               R == registryRetention
    <2>4. GraphOK(g) /\ Whole(g)
      BY <2>1, <2>2, <2>3 DEF RegistryInv, ServerOK, GraphOK
    <2>5. known \subseteq S /\ protected \subseteq known /\ protected \subseteq Objects
      BY <2>1, <2>2, <2>3 DEF RegistryInv, ServerOK, Manifests
    <2>6. Closed(PullEdges, S) /\ S \in SUBSET Objects
      BY <2>4, RegistryAssumption, WholeIsClosed
    <2>7. ASSUME NEW o \in Pull(known)
          PROVE  lastSeen[o] # Absent /\ now - lastSeen[o] <= Window
      <3>1. o \in S
        <4> HIDE DEF S
        <4> QED
          BY <2>5, <2>6, <2>7, ReachableIn DEF Pull
      <3>2. lastSeen[o] \in Nat /\ g.started <= lastSeen[o] /\ g.started \in Nat
        BY <2>4, <3>1 DEF GraphOK, SeenSince
      <3>3. now \in Nat /\ Window \in Nat /\ Absent \notin Nat
        BY <2>1, RegistryAssumption DEF RegistryAssumption, RegistryInv, RepositoryOK
      <3>4. now - lastSeen[o] <= Window
        BY <2>2, <2>3, <3>2, <3>3
      <3> QED
        BY <3>2, <3>3, <3>4
    <2>8. Pull(protected) \subseteq R
      <3>1. /\ protected \subseteq R
            /\ \A e \in HistoricalEdges : e[1] \in R /\ e[2] \in Objects => e[2] \in R
        BY <2>5, ReachableHolds DEF registryRetention
      <3>2. g.edges \subseteq HistoricalEdges
        BY <2>2, <2>3 DEF HistoricalEdges
      <3>3. Closed(PullEdges, S \intersect R)
        <4>1. ASSUME NEW o \in Objects, NEW c \in Content[o], c \in Objects, o \in S, o \in R
              PROVE  c \in S /\ c \in R
          <5>1. Has(g, c) /\ <<o, c>> \in HistoricalEdges
            BY <2>4, <3>2, <4>1 DEF Whole, Joined
          <5>2. c \in R
            BY <3>1, <4>1, <5>1
          <5> QED
            BY <4>1, <5>1, <5>2
        <4> HIDE DEF S, R
        <4> QED
          BY <4>1 DEF Closed, PullEdges
      <3>4. protected \subseteq S \intersect R /\ S \intersect R \in SUBSET Objects
        BY <2>5, <2>6, <3>1
      <3> HIDE DEF S, R
      <3>5. Pull(protected) \subseteq S \intersect R
        BY <3>3, <3>4, ReachableIn DEF Pull
      <3> QED
        BY <3>5
    <2> QED
      BY <2>7, <2>8
  <1> QED
    BY <1>1, RegistryInvariantHolds, PTL

\* An inventory once admitted is kept.
LEMMA InventoriesGrow ==
    ASSUME [RegistryNext]_registryVars
    PROVE  inventories \subseteq inventories'
  <1>1. CASE ScanNext
    <2>1. CASE \E o \in Objects : VisitNext(o) \/ BlobNext(o)
      BY <2>1 DEF VisitNext, BlobNext, Asked, fetch, Read, Failed
    <2>2. CASE \E o \in Objects : ReferrersNext(o) \/ Reread(o)
      BY <2>2 DEF ReferrersNext, Reread, referrers, Read, Failed
    <2>3. CASE tagsList \/ (\E t \in Tags : resolveTags(t)) \/ Compared
      BY <2>3 DEF tagsList, resolveTags, Compared, Read, Failed
    <2> QED
      BY <1>1, <2>1, <2>2, <2>3 DEF ScanNext
  <1>2. CASE \E j \in 1..Len(observations) : Claim(j) \/ recoverWorker(j)
    BY <1>2 DEF Claim, recoverWorker
  <1>3. CASE Start \/ Observed \/ Interrupted \/ refreshRegistryInventory
    BY <1>3 DEF Start, Observed, Interrupted, refreshRegistryInventory
  <1>4. CASE Send
    BY <1>4 DEF Send, admitRegistryInventory
  <1>5. CASE \E o \in Objects : PushObject(o) \/ DeleteObject(o) \/ Know(o) \/ Unprotect(o)
    BY <1>5 DEF PushObject, DeleteObject, Know, Unprotect, Elsewhere
  <1>6. CASE \E t \in Tags, o \in Objects \union {Absent} : Retag(t, o)
    BY <1>6 DEF Retag, Elsewhere
  <1>7. CASE Tick \/ Reconfigure \/ RestoreBackup
    BY <1>7 DEF Tick, Reconfigure, RestoreBackup, Elsewhere
  <1>8. CASE UNCHANGED registryVars
    BY <1>8 DEF registryVars
  <1> QED
    BY <1>1, <1>2, <1>3, <1>4, <1>5, <1>6, <1>7, <1>8 DEF RegistryNext

\* What an older inventory found below an image that stays protected is never
\* given up (domain/registry_retention.go, registryRetention).
THEOREM ClosuresAreKept == RegistrySpec => ClosureIsKept
  <1>1. ASSUME [RegistryNext]_registryVars
        PROVE  Reachable(HistoricalEdges, protected \intersect protected') \subseteq registryRetention'
    <2>1. HistoricalEdges \subseteq HistoricalEdges'
      BY <1>1, InventoriesGrow DEF HistoricalEdges
    <2>2. protected \intersect protected' \subseteq protected'
      OBVIOUS
    <2>3. registryRetention' = Reachable(HistoricalEdges', protected')
      BY DEF registryRetention
    <2> QED
      BY <2>1, <2>2, <2>3, ReachableGrows
  <1>2. [RegistryNext]_registryVars
           => [inventories' # inventories \/ protected' # protected =>
                 Reachable(HistoricalEdges, protected \intersect protected')
                    \subseteq registryRetention']_registryVars
    BY <1>1
  <1> QED
    BY <1>2, PTL DEF RegistrySpec, ClosureIsKept

===============================================================================
