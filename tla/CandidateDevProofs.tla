-------------------------- MODULE CandidateDevProofs --------------------------
(***************************************************************************)
(* Proofs about CandidateDev, for every set of components and layouts and  *)
(* any number of restorations, edits, reopened proposals and lost calls.   *)
(***************************************************************************)
EXTENDS CandidateDev, FiniteSetTheorems, SequenceTheorems, TLAPS

-----------------------------------------------------------------------------
(***************************************************************************)
(* Types                                                                   *)
(***************************************************************************)

States == {"none", "ref", "open", "closed", "merged"}
Blobs == [image : {Original, Candidate, Other}, version : Nat]
Baselines == {<<>>} \union [Components -> Blobs]
HeadsSeen == {<<>>} \union [Groups -> Nat]
Settlements == {<<>>} \union UNION {[S -> States] : S \in SUBSET Leaders}

Captures ==
    [phase : {"NONE", "CAPTURE_GITOPS", "WAIT_REGISTRY", "BASELINE_CAPTURED", "BASELINE_UNVERIFIED"},
     generation : Nat, blobs : Baselines, heads : HeadsSeen]

Intents == [head : Nat, started : BOOLEAN, recorded : BOOLEAN]

Restorations ==
    [phase : {"RECONCILE_EFFECTS", "PREPARE_PROPOSALS", "WAIT_EXTERNAL_MERGE",
              "GITOPS_APPLIED", "UNAPPROVED_EFFECT"},
     effects : SUBSET Leaders, current : Baselines, heads : HeadsSeen,
     settlement : Settlements, confirmed : BOOLEAN, results : HeadsSeen, attempt : Nat,
     proof : {"none", "pending", "VERIFIED", "UNVERIFIED"}, proven : Settlements]

Ticks == {NoTick} \union [on : {TRUE}, settlement : Settlements]
Releases == {NoRelease} \union [stage : {"started", "observed"}, generation : Nat, attempt : Nat]
Proposals == [state : States, approved : BOOLEAN, reopened : BOOLEAN]

TypeOK ==
    /\ layout \in Layouts
    /\ epoch \in Nat /\ hold \in {"none", "reserved", "released"}
    /\ capture \in Captures
    /\ activation \in {"none", "RUNNING", "SUCCEEDED", "FAILED"}
    /\ child \in [Selected -> {"INSPECT", "APPLY"} \union Over]
    /\ intents \in [Leaders -> Intents]
    /\ restorations \in Seq(Restorations)
    /\ tick \in Ticks /\ confirming \in Nat /\ release \in Releases
    /\ calls \in [Leaders -> {"none", "latched", "ref", "pr"}]
    /\ wire \subseteq Leaders \X {"ref", "pr"}
    /\ sent \in [Leaders -> Nat]
    /\ proposals \in [Leaders -> Proposals]
    /\ files \in [Components -> Blobs] /\ heads \in [Groups -> Nat \ {0}]
    /\ mishaps \in Nat

-----------------------------------------------------------------------------
(***************************************************************************)
(* The inductive invariant                                                 *)
(***************************************************************************)

\* What a leader's proposal needs before it can have a batch.
Begun(k) ==
    IF k[1] = 0 THEN activation # "none"
    ELSE k[1] \in 1 .. Latest /\ restorations[k[1]].phase # "RECONCILE_EFFECTS"

\* A saved intent comes before the call, and the call before its requests.
IntentOK(k) ==
    /\ intents[k].started => intents[k].head # 0
    /\ intents[k].head # 0 => Begun(k)
    /\ ~intents[k].started => calls[k] = "none" /\ sent[k] = 0

\* The branch is asked for once and the pull request once it is there; what
\* is on the wire is the next thing that can happen to the proposal.
ProposalOK(k) ==
    /\ sent[k] <= 1
    /\ sent[k] = 0 => /\ proposals[k].state = "none" /\ calls[k] \in {"none", "latched"}
                      /\ <<k, "ref">> \notin wire /\ <<k, "pr">> \notin wire
    /\ calls[k] = "latched" => sent[k] = 0
    /\ calls[k] = "ref" => <<k, "pr">> \notin wire /\ proposals[k].state \in {"none", "ref"}
    /\ <<k, "ref">> \in wire => proposals[k].state = "none" /\ <<k, "pr">> \notin wire
    /\ <<k, "pr">> \in wire => proposals[k].state = "ref"
    /\ proposals[k].reopened => proposals[k].state \in {"open", "closed", "merged"}

\* The blobs a plan starts from name the image that was captured or the candidate's.
PlanOK(current) ==
    /\ current \in [Components -> Blobs]
    /\ \A c \in Components : current[c].image \in {OriginalImage(c), Candidate}

\* Whatever was started in an earlier epoch is among the effects of a generation.
RestorationOK(n) ==
    /\ restorations[n].phase # "RECONCILE_EFFECTS" => PlanOK(restorations[n].current)
    /\ restorations[n].phase = "GITOPS_APPLIED" =>
          \A k \in Started(n) : proposals[k].state = "merged" /\ proposals[k].approved
    /\ restorations[n].proof # "none" => restorations[n].phase = "GITOPS_APPLIED"
    /\ \A k \in Leaders : intents[k].started /\ k[1] < n => k \in restorations[n].effects

EpochOK ==
    /\ Latest <= MaxGeneration
    /\ hold = "none" => epoch = 0 /\ Latest = 0 /\ activation = "none"
    /\ hold = "reserved" => epoch = EpochOf(Latest)
    /\ activation # "none" \/ Latest > 0 => capture.phase = "BASELINE_CAPTURED"

NoCandidate == \A c \in Components : files[c].image # Candidate

\* The candidate's image comes into a file by a merge only, and was in none
\* when the baseline was captured.
BaselineOK ==
    /\ capture.phase \in {"WAIT_REGISTRY", "BASELINE_CAPTURED"} =>
          /\ capture.blobs \in [Components -> Blobs]
          /\ \A c \in Components : OriginalImage(c) # Candidate
    /\ (\A k \in Leaders : proposals[k].state # "merged") => NoCandidate

TickOK == tick.on => Latest > 0 /\ restorations[Latest].phase = "RECONCILE_EFFECTS"

\* Nothing can still arrive or be merged unless people reopened it.
Settled(k) ==
    intents[k].started => proposals[k].state \in {"closed", "merged"} \/ proposals[k].reopened

Clean == (\A k \in Leaders : Settled(k)) /\ (NothingReopened => NoCandidate)

ReleaseOK ==
    /\ release # NoRelease =>
          /\ release.generation \in 1 .. Latest
          /\ restorations[release.generation].phase = "GITOPS_APPLIED"
          /\ release.stage = "observed" /\ release.generation = Latest => Clean
    /\ hold = "released" => Clean

Inv ==
    /\ TypeOK
    /\ \A k \in Leaders : IntentOK(k) /\ ProposalOK(k)
    /\ \A n \in 1 .. Latest : RestorationOK(n)
    /\ EpochOK
    /\ BaselineOK
    /\ TickOK
    /\ ReleaseOK

-----------------------------------------------------------------------------
(***************************************************************************)
(* The parts of a state                                                    *)
(***************************************************************************)

LEMMA ImagesDiffer == Original # Candidate /\ Other # Candidate
  <1>0. Cardinality({Original, Candidate, Other}) = 3
    BY CandidateDevAssumption
  <1>1. ASSUME NEW a, NEW b PROVE IsFiniteSet({a, b}) /\ Cardinality({a, b}) <= 2
    <2>1. IsFiniteSet({a}) /\ Cardinality({a}) = 1
      BY FS_Singleton
    <2>2. {a, b} = {a} \union {b}
      OBVIOUS
    <2> QED
      BY <2>1, <2>2, FS_AddElement
  <1>2. ASSUME Original = Candidate PROVE FALSE
    <2>1. {Original, Candidate, Other} = {Original, Other}
      BY <1>2
    <2>2. Cardinality({Original, Other}) <= 2
      BY <1>1
    <2> QED
      BY <1>0, <2>1, <2>2
  <1>3. ASSUME Other = Candidate PROVE FALSE
    <2>1. {Original, Candidate, Other} = {Original, Candidate}
      BY <1>3
    <2>2. Cardinality({Original, Candidate}) <= 2
      BY <1>1
    <2> QED
      BY <1>0, <2>1, <2>2
  <1> QED
    BY <1>2, <1>3

LEMMA LayoutIs ==
    ASSUME layout \in Layouts
    PROVE  /\ Selected \subseteq Components /\ GroupOf \in [Components -> Nat \ {0}]
           /\ \A c \in Components : GroupOf[c] \in Groups
           /\ Groups \subseteq Nat \ {0}
           /\ \A k \in Leaders : k = <<k[1], k[2]>> /\ k[1] \in Nat /\ k[2] \in Groups
           /\ \A k \in Leaders : k[1] <= MaxGeneration
           /\ \A n \in 0 .. MaxGeneration, g \in Groups : <<n, g>> \in Leaders
  <1>1. layout \in [selected : SUBSET Components \ {{}}, groups : [Components -> Nat \ {0}]]
    BY CandidateDevAssumption
  <1>2. Selected \subseteq Components /\ GroupOf \in [Components -> Nat \ {0}]
    BY <1>1 DEF Selected, GroupOf
  <1>3. Groups \subseteq Nat \ {0} /\ \A c \in Components : GroupOf[c] \in Groups
    BY <1>2 DEF Groups
  <1>4. MaxGeneration \in Nat
    BY CandidateDevAssumption
  <1> QED
    BY <1>2, <1>3, <1>4 DEF Leaders

LEMMA SameLayout ==
    ASSUME layout' = layout
    PROVE  /\ Selected' = Selected /\ Groups' = Groups /\ Leaders' = Leaders
           /\ GroupOf' = GroupOf
           /\ HeadsSeen' = HeadsSeen /\ Settlements' = Settlements
           /\ Captures' = Captures /\ Restorations' = Restorations /\ Ticks' = Ticks
  <1>1. Selected' = Selected /\ GroupOf' = GroupOf
    BY DEF Selected, GroupOf
  <1>2. Groups' = Groups
    BY <1>1 DEF Groups
  <1>3. Leaders' = Leaders
    BY <1>2 DEF Leaders
  <1>4. HeadsSeen' = HeadsSeen /\ Settlements' = Settlements
    BY <1>2, <1>3 DEF HeadsSeen, Settlements
  <1> QED
    BY <1>1, <1>2, <1>3, <1>4 DEF Captures, Restorations, Ticks

LEMMA LatestIs ==
    ASSUME Inv
    PROVE  /\ Latest \in Nat /\ Latest <= MaxGeneration /\ MaxGeneration \in Nat
           /\ restorations \in Seq(Restorations)
           /\ \A n \in 1 .. Latest : restorations[n] \in Restorations /\ RestorationOK(n)
  <1>1. restorations \in Seq(Restorations)
    BY DEF Inv, TypeOK
  <1>2. Latest \in Nat
    BY <1>1, LenProperties DEF Latest
  <1>3. \A n \in 1 .. Latest : restorations[n] \in Restorations
    BY <1>1, ElementOfSeq DEF Latest
  <1>4. Latest <= MaxGeneration /\ MaxGeneration \in Nat
    BY CandidateDevAssumption DEF Inv, EpochOK
  <1> QED
    BY <1>1, <1>2, <1>3, <1>4 DEF Inv

LEMMA LeaderNamed ==
    ASSUME Inv, NEW n \in 0 .. Latest, NEW g \in Groups
    PROVE  <<n, g>> \in Leaders
  <1>1. n \in 0 .. MaxGeneration
    BY LatestIs
  <1> QED
    BY <1>1 DEF Leaders

LEMMA LeaderIs ==
    ASSUME Inv, NEW k \in Leaders
    PROVE  /\ intents[k] \in Intents /\ proposals[k] \in Proposals
           /\ calls[k] \in {"none", "latched", "ref", "pr"} /\ sent[k] \in Nat
           /\ IntentOK(k) /\ ProposalOK(k)
  BY DEF Inv, TypeOK

\* A proposal that is there was sent, and so it was started.
LEMMA ExistsMeansStarted ==
    ASSUME Inv, NEW k \in Leaders, proposals[k].state # "none" \/ calls[k] # "none"
    PROVE  intents[k].started /\ intents[k].head # 0 /\ Begun(k)
  <1>1. IntentOK(k) /\ ProposalOK(k)
    BY LeaderIs
  <1>2. intents[k].started
    <2>1. CASE calls[k] # "none"
      BY <1>1, <2>1 DEF IntentOK
    <2>2. CASE proposals[k].state # "none"
      BY <1>1, <2>2, LeaderIs DEF IntentOK, ProposalOK, Intents
    <2> QED
      BY <2>1, <2>2
  <1> QED
    BY <1>1, <1>2 DEF IntentOK

LEMMA PlanIs ==
    ASSUME Inv, NEW n \in 1 .. Latest, restorations[n].phase # "RECONCILE_EFFECTS"
    PROVE  PlanOK(restorations[n].current)
  BY LatestIs DEF RestorationOK

\* Once there is an activation or a restoration the baseline stands.
LEMMA BaselineIs ==
    ASSUME Inv, activation # "none" \/ Latest > 0
    PROVE  /\ capture.phase = "BASELINE_CAPTURED"
           /\ capture.blobs \in [Components -> Blobs]
           /\ \A c \in Components : OriginalImage(c) # Candidate
  BY DEF Inv, EpochOK, BaselineOK

-----------------------------------------------------------------------------
(***************************************************************************)
(* What a step leaves as it is                                             *)
(***************************************************************************)

\* Activation and restorations only go forward.
Onward ==
    /\ activation # "none" => activation' # "none"
    /\ Latest' >= Latest
    /\ \A n \in 1 .. Latest : restorations[n].phase # "RECONCILE_EFFECTS"
                                 => restorations'[n].phase # "RECONCILE_EFFECTS"

LEMMA BegunStays ==
    ASSUME Inv, Onward, Latest' \in Nat, NEW k \in Leaders, Begun(k)
    PROVE  Begun(k)'
  BY LatestIs DEF Onward, Begun

LEMMA LeaderStays ==
    ASSUME Inv, Onward, Latest' \in Nat, NEW k \in Leaders,
           intents'[k].head = intents[k].head, intents'[k].started = intents[k].started,
           calls'[k] = calls[k], sent'[k] = sent[k], proposals'[k] = proposals[k],
           \A what \in {"ref", "pr"} : <<k, what>> \in wire' => <<k, what>> \in wire
    PROVE  IntentOK(k)' /\ ProposalOK(k)'
  <1>1. IntentOK(k) /\ ProposalOK(k)
    BY LeaderIs
  <1>2. IntentOK(k)'
    BY <1>1, BegunStays DEF IntentOK
  <1>3. ProposalOK(k)'
    BY <1>1 DEF ProposalOK
  <1> QED
    BY <1>2, <1>3

LEMMA LeadersStay ==
    ASSUME Inv, Onward, Latest' \in Nat, layout' = layout,
           UNCHANGED <<intents, calls, sent, proposals, wire>>
    PROVE  (\A k \in Leaders : IntentOK(k) /\ ProposalOK(k))'
  BY LeaderStays, SameLayout

LEMMA SameRestorations ==
    ASSUME Inv, restorations' = restorations
    PROVE  /\ Latest' = Latest /\ Latest' \in Nat
           /\ (activation # "none" => activation' # "none") => Onward
  BY LatestIs DEF Latest, Onward

\* A merge that was approved stays one.
ApprovalsStay ==
    \A k \in Leaders : proposals[k].state = "merged" /\ proposals[k].approved =>
                          proposals'[k].state = "merged" /\ proposals'[k].approved

LEMMA RestorationStays ==
    ASSUME Inv, layout' = layout, capture' = capture, NEW n \in 1 .. Latest,
           restorations'[n] = restorations[n],
           \A k \in Leaders : intents'[k].started =>
                \/ intents[k].started
                \/ k[1] > n
                \/ k[1] = n /\ restorations[n].phase # "GITOPS_APPLIED",
           ApprovalsStay
    PROVE  RestorationOK(n)'
  <1>1. RestorationOK(n) /\ n \in Nat
    BY LatestIs
  <1>2. Leaders' = Leaders /\ Groups' = Groups /\ layout \in Layouts
    BY SameLayout DEF Inv, TypeOK
  <1>3. \A k \in Leaders : k[1] \in Nat
    BY <1>2, LayoutIs
  <1>4. (restorations[n].phase # "RECONCILE_EFFECTS" => PlanOK(restorations[n].current))'
    BY <1>1 DEF RestorationOK, PlanOK, OriginalImage
  <1>5. (restorations[n].phase = "GITOPS_APPLIED" =>
          \A k \in Started(n) : proposals[k].state = "merged" /\ proposals[k].approved)'
    <2>1. ASSUME restorations[n].phase = "GITOPS_APPLIED", NEW k \in Started(n)'
          PROVE  proposals'[k].state = "merged" /\ proposals'[k].approved
      <3>1. k \in {n} \X Groups /\ intents'[k].started
        BY <1>2, <2>1 DEF Started
      <3>2. k \in Leaders
        <4>1. n \in 0 .. MaxGeneration
          BY LatestIs
        <4> QED
          BY <1>2, <3>1, <4>1 DEF Leaders
      <3>3. k \in Started(n)
        BY <1>3, <2>1, <3>1, <3>2 DEF Started
      <3> QED
        BY <1>1, <2>1, <3>2, <3>3 DEF RestorationOK, ApprovalsStay
    <2> QED
      BY <2>1
  <1>6. (restorations[n].proof # "none" => restorations[n].phase = "GITOPS_APPLIED")'
    BY <1>1 DEF RestorationOK
  <1>7. (\A k \in Leaders : intents[k].started /\ k[1] < n => k \in restorations[n].effects)'
    BY <1>1, <1>2, <1>3 DEF RestorationOK
  <1> QED
    BY <1>4, <1>5, <1>6, <1>7 DEF RestorationOK

LEMMA RestorationsStay ==
    ASSUME Inv, layout' = layout, capture' = capture \/ Latest = 0, restorations' = restorations,
           \A k \in Leaders : intents'[k].started => intents[k].started,
           ApprovalsStay
    PROVE  (\A n \in 1 .. Latest : RestorationOK(n))'
  <1>1. Latest' = Latest /\ Latest \in Nat
    BY SameRestorations, LatestIs
  <1>2. ASSUME NEW n \in 1 .. Latest PROVE RestorationOK(n)'
    <2>1. capture' = capture
      BY <1>1
    <2> QED
      BY <2>1, RestorationStays
  <1> QED
    BY <1>1, <1>2

LEMMA EpochStays ==
    ASSUME Inv, UNCHANGED <<hold, epoch, capture, restorations>>,
           activation' = "none" <=> activation = "none"
    PROVE  EpochOK'
  BY SameRestorations DEF Inv, EpochOK, EpochOf

LEMMA BaselineStays ==
    ASSUME Inv, layout' = layout, UNCHANGED <<capture, files>>,
           \A k \in Leaders : proposals[k].state = "merged" => proposals'[k].state = "merged"
    PROVE  BaselineOK'
  BY SameLayout DEF Inv, BaselineOK, NoCandidate, OriginalImage

LEMMA TickStays ==
    ASSUME Inv, restorations' = restorations, tick' = tick \/ tick' = NoTick
    PROVE  TickOK'
  BY SameRestorations DEF Inv, TickOK, NoTick

LEMMA CleanStays ==
    ASSUME Clean, layout' = layout, UNCHANGED <<proposals, files>>,
           \A k \in Leaders : intents'[k].started => intents[k].started
    PROVE  Clean'
  BY SameLayout DEF Clean, Settled, NothingReopened, NoCandidate

LEMMA ReleaseStays ==
    ASSUME Inv, layout' = layout, UNCHANGED <<hold, restorations>>,
           release' = release \/ release' = NoRelease, Clean => Clean'
    PROVE  ReleaseOK'
  <1>1. Latest' = Latest
    BY SameRestorations
  <1>2. ReleaseOK
    BY DEF Inv
  <1>3. NoRelease.stage # "observed"
    BY DEF NoRelease
  <1> QED
    BY <1>1, <1>2, <1>3 DEF ReleaseOK

\* A step that leaves the proposals, their intents and the restorations alone.
LEMMA QuietStep ==
    ASSUME Inv, layout' = layout, TypeOK',
           UNCHANGED <<intents, restorations, calls, sent, wire, proposals>>,
           activation # "none" => activation' # "none",
           capture' = capture \/ Latest = 0,
           EpochOK', BaselineOK', TickOK', ReleaseOK'
    PROVE  Inv'
  <1>1. (\A k \in Leaders : IntentOK(k) /\ ProposalOK(k))'
    BY SameRestorations, LeadersStay
  <1>2. (\A n \in 1 .. Latest : RestorationOK(n))'
    BY RestorationsStay DEF ApprovalsStay
  <1> QED
    BY <1>1, <1>2 DEF Inv

-----------------------------------------------------------------------------
(***************************************************************************)
(* The reservation and the baseline                                        *)
(***************************************************************************)

LEMMA ReserveStep ==
    ASSUME Inv, layout' = layout, reserve_candidate_dev
    PROVE  Inv'
  <1> USE DEF reserve_candidate_dev, storeVars, workVars, sendVars, gitVars
  <1>1. TypeOK'
    BY SameLayout DEF Inv, TypeOK
  <1>2. EpochOK'
    BY SameRestorations DEF Inv, EpochOK, EpochOf, HoldEpoch
  <1>3. BaselineOK' /\ TickOK'
    BY BaselineStays, TickStays
  <1>4. ReleaseOK'
    <2>1. Latest = 0 /\ Latest' = Latest
      BY SameRestorations DEF Inv, EpochOK
    <2>2. release = NoRelease
      BY <2>1 DEF Inv, ReleaseOK
    <2> QED
      BY <2>2 DEF ReleaseOK
  <1> QED
    BY <1>1, <1>2, <1>3, <1>4, QuietStep

\* Before anything was started nothing is in flight and no file is a candidate's.
LEMMA NothingStarted ==
    ASSUME Inv, activation = "none", Latest = 0
    PROVE  /\ \A k \in Leaders : ~intents[k].started /\ proposals[k].state = "none" /\ calls[k] = "none"
           /\ NoCandidate /\ Clean
  <1>1. ASSUME NEW k \in Leaders
        PROVE  ~intents[k].started /\ proposals[k].state = "none" /\ calls[k] = "none"
    <2>1. ~Begun(k)
      BY DEF Begun
    <2>2. proposals[k].state = "none" /\ calls[k] = "none"
      BY <2>1, ExistsMeansStarted
    <2> QED
      BY <2>1, <2>2, LeaderIs DEF IntentOK
  <1>2. NoCandidate
    BY <1>1 DEF Inv, BaselineOK
  <1> QED
    BY <1>1, <1>2 DEF Clean, Settled

LEMMA GiveUpStep ==
    ASSUME Inv, layout' = layout, release_candidate_dev
    PROVE  Inv'
  <1> USE DEF release_candidate_dev, storeVars, workVars, sendVars, gitVars
  <1>1. TypeOK'
    BY SameLayout DEF Inv, TypeOK
  <1>2. EpochOK'
    BY SameRestorations DEF Inv, EpochOK
  <1>3. BaselineOK' /\ TickOK'
    BY BaselineStays, TickStays
  <1>4. Latest = 0 /\ Latest' = Latest
    BY SameRestorations, LatestIs DEF Inv, EpochOK, EpochOf, HoldEpoch
  <1>5. ReleaseOK'
    <2>1. Clean'
      BY <1>4, NothingStarted, CleanStays
    <2>2. release = NoRelease
      BY <1>4 DEF Inv, ReleaseOK
    <2> QED
      BY <2>1, <2>2 DEF ReleaseOK
  <1> QED
    BY <1>1, <1>2, <1>3, <1>5, QuietStep

\* The baseline can be captured only before anything was started.
LEMMA CaptureAllowed ==
    ASSUME Inv, baselineAllowed
    PROVE  Latest = 0 /\ activation = "none" /\ NoCandidate
  <1>1. Latest = 0 /\ activation = "none"
    BY LatestIs DEF baselineAllowed, Inv, EpochOK, EpochOf, HoldEpoch
  <1> QED
    BY <1>1, NothingStarted

\* A step that only changes the capture, before anything was started.
LEMMA CaptureStep ==
    ASSUME Inv, layout' = layout, Latest = 0, activation = "none",
           NEW p \in Captures, capture' = p,
           p.phase \in {"WAIT_REGISTRY", "BASELINE_CAPTURED"} =>
              p.blobs \in [Components -> Blobs] /\ \A c \in Components : p.blobs[c].image # Candidate,
           UNCHANGED <<epoch, hold, activation, child, intents, restorations,
                       workVars, sendVars, gitVars>>
    PROVE  Inv'
  <1> USE DEF workVars, sendVars, gitVars
  <1>1. TypeOK'
    BY SameLayout DEF Inv, TypeOK
  <1>2. EpochOK'
    BY SameRestorations DEF Inv, EpochOK, EpochOf
  <1>3. BaselineOK'
    BY SameLayout, NothingStarted DEF BaselineOK, NoCandidate, OriginalImage
  <1>4. TickOK'
    BY TickStays
  <1>5. ReleaseOK'
    BY ReleaseStays, CleanStays
  <1> QED
    BY <1>1, <1>2, <1>3, <1>4, <1>5, QuietStep

LEMMA NewCaptureStep ==
    ASSUME Inv, layout' = layout, capture_candidate_dev_baseline
    PROVE  Inv'
  <1>1. PICK p : /\ capture' = p
                 /\ p = [phase |-> "CAPTURE_GITOPS", generation |-> capture.generation + 1,
                         blobs |-> <<>>, heads |-> <<>>]
    BY DEF capture_candidate_dev_baseline
  <1>2. capture.generation \in Nat
    BY DEF Inv, TypeOK, Captures
  <1>3. p \in Captures /\ p.phase = "CAPTURE_GITOPS"
    BY <1>1, <1>2 DEF Captures, Baselines, HeadsSeen
  <1> QED
    BY <1>1, <1>3, CaptureAllowed, CaptureStep DEF capture_candidate_dev_baseline

LEMMA BaselineStep ==
    ASSUME Inv, layout' = layout, tickDevBaseline
    PROVE  Inv'
  <1>1. capture \in Captures /\ BaselineOK
    BY DEF Inv, TypeOK
  <1>2. UNCHANGED <<epoch, hold, activation, child, intents, restorations,
                    workVars, sendVars, gitVars>>
    BY DEF tickDevBaseline
  <1>3. Latest = 0 /\ activation = "none"
    <2>1. CASE StageBaseline \/ FinishBaseline
      BY <2>1, CaptureAllowed DEF StageBaseline, FinishBaseline
    <2>2. CASE BaselineUnverified
      BY <2>2, BaselineIs, LatestIs DEF BaselineUnverified
    <2> QED
      BY <2>1, <2>2 DEF tickDevBaseline
  <1>4. CASE StageBaseline
    <2>1. PICK p : capture' = p /\ p = [capture EXCEPT !.phase = "WAIT_REGISTRY", !.blobs = files, !.heads = heads]
      BY <1>4 DEF StageBaseline
    <2>2. files \in [Components -> Blobs] /\ heads \in [Groups -> Nat]
      BY DEF Inv, TypeOK
    <2>3. p \in Captures /\ p.blobs = files
      BY <1>1, <2>1, <2>2 DEF Captures, Baselines, HeadsSeen
    <2>4. \A c \in Components : p.blobs[c].image # Candidate
      BY <1>3, <2>3, NothingStarted DEF NoCandidate
    <2> QED
      BY <1>2, <1>3, <2>1, <2>2, <2>3, <2>4, CaptureStep
  <1>5. CASE FinishBaseline
    <2>1. PICK p : capture' = p /\ p = [capture EXCEPT !.phase = "BASELINE_CAPTURED"]
      BY <1>5 DEF FinishBaseline
    <2>2. p \in Captures /\ p.blobs = capture.blobs /\ capture.phase = "WAIT_REGISTRY"
      BY <1>1, <1>5, <2>1 DEF Captures, FinishBaseline
    <2>3. p.blobs \in [Components -> Blobs] /\ \A c \in Components : p.blobs[c].image # Candidate
      BY <1>1, <2>2 DEF BaselineOK, OriginalImage
    <2> QED
      BY <1>2, <1>3, <2>1, <2>2, <2>3, CaptureStep
  <1>6. CASE BaselineUnverified
    <2>1. PICK p : capture' = p /\ p = [capture EXCEPT !.phase = "BASELINE_UNVERIFIED"]
      BY <1>6 DEF BaselineUnverified
    <2>2. p \in Captures /\ p.phase = "BASELINE_UNVERIFIED"
      BY <1>1, <2>1 DEF Captures
    <2> QED
      BY <1>2, <1>3, <2>1, <2>2, CaptureStep
  <1> QED
    BY <1>4, <1>5, <1>6 DEF tickDevBaseline

-----------------------------------------------------------------------------
(***************************************************************************)
(* The activation                                                          *)
(***************************************************************************)

LEMMA DeployStep ==
    ASSUME Inv, layout' = layout, deploy_candidate_dev
    PROVE  Inv'
  <1> USE DEF deploy_candidate_dev, storeVars, workVars, sendVars, gitVars
  <1>1. TypeOK'
    BY SameLayout DEF Inv, TypeOK
  <1>2. EpochOK'
    BY SameRestorations DEF Inv, EpochOK, EpochOf, baselineAllowed
  <1>3. BaselineOK' /\ TickOK' /\ ReleaseOK'
    BY BaselineStays, TickStays, ReleaseStays, CleanStays
  <1> QED
    BY <1>1, <1>2, <1>3, QuietStep

\* A step of the activation that sends nothing.
LEMMA ActivationStep ==
    ASSUME Inv, layout' = layout,
           child' \in [Selected -> {"INSPECT", "APPLY"} \union Over],
           activation' \in {"none", "RUNNING", "SUCCEEDED", "FAILED"},
           activation' = "none" <=> activation = "none",
           UNCHANGED <<epoch, hold, capture, intents, restorations, workVars, sendVars, gitVars>>
    PROVE  Inv'
  <1> USE DEF workVars, sendVars, gitVars
  <1>1. TypeOK'
    BY SameLayout DEF Inv, TypeOK
  <1>2. EpochOK' /\ BaselineOK' /\ TickOK' /\ ReleaseOK'
    BY EpochStays, BaselineStays, TickStays, ReleaseStays, CleanStays
  <1> QED
    BY <1>1, <1>2, QuietStep

LEMMA ChildStep ==
    ASSUME Inv, layout' = layout,
           \/ \E c \in Selected : InspectChild(c) \/ BlockChild(c)
           \/ \E g \in Groups : waitDevActivationGroup(g)
           \/ tickDevActivation
    PROVE  Inv'
  <1>1. child \in [Selected -> {"INSPECT", "APPLY"} \union Over]
        /\ activation \in {"none", "RUNNING", "SUCCEEDED", "FAILED"}
    BY DEF Inv, TypeOK
  <1>2. ASSUME NEW c \in Selected, InspectChild(c) PROVE Inv'
    <2>1. child' \in [Selected -> {"INSPECT", "APPLY"} \union Over]
      BY <1>1, <1>2 DEF InspectChild
    <2> QED
      BY <1>1, <1>2, <2>1, ActivationStep DEF InspectChild
  <1>3. ASSUME NEW c \in Selected, BlockChild(c) PROVE Inv'
    <2>1. child' \in [Selected -> {"INSPECT", "APPLY"} \union Over]
      BY <1>1, <1>3 DEF BlockChild, Over
    <2> QED
      BY <1>1, <1>3, <2>1, ActivationStep DEF BlockChild
  <1>4. ASSUME NEW g \in Groups, waitDevActivationGroup(g) PROVE Inv'
    <2>1. child' \in [Selected -> {"INSPECT", "APPLY"} \union Over]
      BY <1>1, <1>4 DEF waitDevActivationGroup, Over
    <2> QED
      BY <1>1, <1>4, <2>1, ActivationStep DEF waitDevActivationGroup
  <1>5. CASE tickDevActivation
    BY <1>1, <1>5, ActivationStep DEF tickDevActivation
  <1> QED
    BY <1>2, <1>3, <1>4, <1>5

\* In the epoch of the activation there is no restoration and no release.
LEMMA ActivationIsFirst ==
    ASSUME Inv, devActivationAllowed
    PROVE  Latest = 0 /\ hold = "reserved" /\ activation # "none" /\ release = NoRelease /\ ~tick.on
  <1>1. Latest = 0 /\ hold = "reserved" /\ activation # "none"
    BY LatestIs DEF devActivationAllowed, Inv, EpochOK, EpochOf, HoldEpoch
  <1>2. release = NoRelease
    BY <1>1 DEF Inv, ReleaseOK
  <1>3. ~tick.on
    BY <1>1 DEF Inv, TickOK
  <1> QED
    BY <1>1, <1>2, <1>3

\* A step of the activation that changes the batch of one group.
LEMMA BatchStep ==
    ASSUME Inv, layout' = layout, devActivationAllowed,
           NEW k \in Leaders, NEW i \in Intents, i.head # 0, Begun(k),
           intents' = [intents EXCEPT ![k] = i],
           i.started \/ (calls'[k] = "none" /\ sent[k] = 0),
           NEW call \in {"none", "latched"}, calls' = [calls EXCEPT ![k] = call],
           call = "latched" => sent[k] = 0,
           UNCHANGED <<epoch, hold, capture, activation, child, restorations,
                       tick, confirming, release, sendVars, gitVars>>
    PROVE  Inv'
  <1> USE DEF sendVars, gitVars
  <1>1. /\ Latest = 0 /\ hold = "reserved" /\ release = NoRelease /\ ~tick.on
        /\ Latest' = Latest /\ Latest' \in Nat /\ Onward
    BY ActivationIsFirst, SameRestorations
  <1>2. intents \in [Leaders -> Intents] /\ calls \in [Leaders -> {"none", "latched", "ref", "pr"}]
    BY DEF Inv, TypeOK
  <1>3. TypeOK'
    BY <1>2, SameLayout DEF Inv, TypeOK
  <1>4. ASSUME NEW h \in Leaders PROVE IntentOK(h)' /\ ProposalOK(h)'
    <2>1. CASE h = k
      <3>1. Begun(k)' /\ IntentOK(k) /\ ProposalOK(k)
        BY <1>1, LeaderIs, BegunStays
      <3>2. IntentOK(k)'
        BY <1>2, <3>1 DEF IntentOK
      <3>3. ProposalOK(k)'
        BY <1>2, <3>1 DEF ProposalOK
      <3> QED
        BY <2>1, <3>2, <3>3
    <2>2. CASE h # k
      BY <1>1, <1>2, <2>2, LeaderStays
    <2> QED
      BY <2>1, <2>2
  <1>5. (\A n \in 1 .. Latest : RestorationOK(n))'
    BY <1>1
  <1>6. EpochOK' /\ BaselineOK'
    BY EpochStays, BaselineStays
  <1>7. TickOK' /\ ReleaseOK'
    BY <1>1 DEF TickOK, ReleaseOK
  <1> QED
    BY <1>3, <1>4, <1>5, <1>6, <1>7, SameLayout DEF Inv

LEMMA ApplyStep ==
    ASSUME Inv, layout' = layout, NEW g \in Groups, applyDevActivation(g)
    PROVE  Inv'
  <1>0. 0 \in 0 .. Latest
    BY LatestIs
  <1>1. PICK k \in Leaders : k = <<0, g>>
    BY <1>0, LeaderNamed
  <1>2. k[1] = 0 /\ Begun(k)
    BY <1>1, ActivationIsFirst DEF applyDevActivation, Begun
  <1>3. heads[g] \in Nat \ {0}
    BY DEF Inv, TypeOK
  <1>4. PICK i \in Intents : i = [head |-> heads[g], started |-> TRUE, recorded |-> FALSE]
    BY <1>3 DEF Intents
  <1>5. ~intents[k].started /\ sent[k] = 0
    <2>1. intents[k].head = 0
      BY <1>1 DEF applyDevActivation, NotYetApplied
    <2> QED
      BY <2>1, LeaderIs DEF IntentOK, Intents
  <1>6. /\ intents' = [intents EXCEPT ![k] = i] /\ calls' = [calls EXCEPT ![k] = "latched"]
        /\ devActivationAllowed
        /\ UNCHANGED <<epoch, hold, capture, activation, child, restorations,
                       tick, confirming, release, sendVars, gitVars>>
    BY <1>1, <1>4 DEF applyDevActivation
  <1>7. i.head # 0 /\ i.started
    BY <1>3, <1>4
  <1> QED
    BY <1>2, <1>5, <1>6, <1>7, BatchStep

LEMMA LookupActivationStep ==
    ASSUME Inv, layout' = layout, NEW g \in Groups, LookupActivation(g)
    PROVE  Inv'
  <1>0. 0 \in 0 .. Latest
    BY LatestIs
  <1>1. PICK k \in Leaders : k = <<0, g>>
    BY <1>0, LeaderNamed
  <1>2. k[1] = 0 /\ Begun(k)
    BY <1>1, ActivationIsFirst DEF LookupActivation, Begun
  <1>3. PICK i : i = [intents[k] EXCEPT !.recorded = TRUE]
    OBVIOUS
  <1>4. i \in Intents /\ i.head = intents[k].head /\ i.started = intents[k].started
    BY <1>3, LeaderIs DEF Intents
  <1>5. i.head # 0 /\ i.started
    <2>1. Exists(k)
      BY <1>1 DEF LookupActivation
    <2> QED
      BY <1>4, <2>1, ExistsMeansStarted DEF Exists
  <1>6. /\ intents' = [intents EXCEPT ![k] = i] /\ calls' = [calls EXCEPT ![k] = "none"]
        /\ devActivationAllowed
        /\ UNCHANGED <<epoch, hold, capture, activation, child, restorations,
                       tick, confirming, release, sendVars, gitVars>>
    BY <1>1, <1>3 DEF LookupActivation
  <1> QED
    BY <1>2, <1>4, <1>5, <1>6, BatchStep

-----------------------------------------------------------------------------
(***************************************************************************)
(* The restorations                                                        *)
(***************************************************************************)

\* The latest generation, while its epoch lasts: nothing can be started but by it.
LEMMA AllowedIsLatest ==
    ASSUME Inv, NEW n, restorationAllowed(n)
    PROVE  /\ n = Latest /\ n \in 1 .. Latest /\ n \in 1 .. MaxGeneration /\ Latest > 0
           /\ hold = "reserved" /\ capture.phase = "BASELINE_CAPTURED"
           /\ restorations[n] \in Restorations /\ RestorationOK(n)
  BY LatestIs, BaselineIs DEF restorationAllowed

\* Generation n is r from now on: it goes forward and keeps what it was planned from.
Follows(r, n) ==
    /\ r.effects = restorations[n].effects
    /\ restorations[n].phase # "RECONCILE_EFFECTS" =>
          r.phase # "RECONCILE_EFFECTS" /\ r.current = restorations[n].current
    /\ restorations[n].phase = "GITOPS_APPLIED" => r.phase = "GITOPS_APPLIED"
    /\ r.proof # "none" => r.phase = "GITOPS_APPLIED"
    /\ r.phase # "RECONCILE_EFFECTS" => PlanOK(r.current)

LEMMA OneRestoration ==
    ASSUME Inv, NEW n \in 1 .. Latest, NEW r \in Restorations, Follows(r, n),
           restorations' = [restorations EXCEPT ![n] = r]
    PROVE  /\ Latest' = Latest /\ Latest' \in Nat
           /\ restorations'[n] = r
           /\ \A m \in 1 .. Latest : m # n => restorations'[m] = restorations[m]
           /\ restorations' \in Seq(Restorations)
           /\ activation' = activation => Onward
  <1>1. restorations \in Seq(Restorations) /\ Latest \in Nat
    BY LatestIs
  <1>2. /\ restorations' \in Seq(Restorations) /\ Len(restorations') = Len(restorations)
        /\ restorations'[n] = r
        /\ \A m \in 1 .. Latest : m # n => restorations'[m] = restorations[m]
    BY <1>1, ExceptSeq DEF Latest
  <1>3. activation' = activation => Onward
    BY <1>1, <1>2 DEF Onward, Latest, Follows
  <1> QED
    BY <1>1, <1>2, <1>3 DEF Latest

\* A step that only moves one restoration.
LEMMA RestorationStep ==
    ASSUME Inv, layout' = layout,
           NEW n \in 1 .. Latest, NEW r \in Restorations, Follows(r, n),
           r.phase = "GITOPS_APPLIED" =>
              \A k \in Started(n) : proposals[k].state = "merged" /\ proposals[k].approved,
           restorations[n].phase = "RECONCILE_EFFECTS" => r.phase = "RECONCILE_EFFECTS",
           restorations' = [restorations EXCEPT ![n] = r],
           confirming' \in Nat,
           UNCHANGED <<epoch, hold, capture, activation, child, intents,
                       tick, release, calls, sendVars, gitVars>>
    PROVE  Inv'
  <1> USE DEF sendVars, gitVars
  <1>1. /\ Latest' = Latest /\ Latest' \in Nat /\ Onward
        /\ restorations'[n] = r
        /\ \A m \in 1 .. Latest : m # n => restorations'[m] = restorations[m]
        /\ restorations' \in Seq(Restorations)
    BY OneRestoration
  <1>2. TypeOK'
    BY <1>1, SameLayout DEF Inv, TypeOK
  <1>3. (\A k \in Leaders : IntentOK(k) /\ ProposalOK(k))'
    BY <1>1, LeadersStay
  <1>4. (\A m \in 1 .. Latest : RestorationOK(m))'
    <2>1. ASSUME NEW m \in 1 .. Latest, m # n PROVE RestorationOK(m)'
      BY <1>1, <2>1, RestorationStays DEF ApprovalsStay
    <2>2. RestorationOK(n)'
      <3>1. RestorationOK(n)
        BY LatestIs
      <3>2. (restorations[n].phase # "RECONCILE_EFFECTS" => PlanOK(restorations[n].current))'
        BY <1>1 DEF Follows, PlanOK, OriginalImage
      <3>3. Started(n)' = Started(n)
        BY SameLayout DEF Started
      <3>4. (restorations[n].phase = "GITOPS_APPLIED" =>
               \A k \in Started(n) : proposals[k].state = "merged" /\ proposals[k].approved)'
        BY <1>1, <3>3
      <3>5. (restorations[n].proof # "none" => restorations[n].phase = "GITOPS_APPLIED")'
        BY <1>1 DEF Follows
      <3>6. (\A k \in Leaders : intents[k].started /\ k[1] < n => k \in restorations[n].effects)'
        BY <1>1, <3>1, SameLayout DEF RestorationOK, Follows
      <3> QED
        BY <3>2, <3>4, <3>5, <3>6 DEF RestorationOK
    <2> QED
      BY <1>1, <2>1, <2>2
  <1>5. EpochOK'
    BY <1>1 DEF Inv, EpochOK, EpochOf
  <1>6. BaselineOK'
    BY BaselineStays
  <1>7. TickOK'
    BY <1>1, LatestIs DEF Inv, TickOK
  <1>8. ReleaseOK'
    <2>1. Clean => Clean'
      BY CleanStays
    <2>2. restorations[n].phase = "GITOPS_APPLIED" => r.phase = "GITOPS_APPLIED"
      BY DEF Follows
    <2>3. ASSUME release # NoRelease
          PROVE  restorations'[release.generation].phase = "GITOPS_APPLIED"
      BY <1>1, <2>2, <2>3 DEF Inv, ReleaseOK
    <2> QED
      BY <1>1, <2>1, <2>3 DEF Inv, ReleaseOK
  <1> QED
    BY <1>2, <1>3, <1>4, <1>5, <1>6, <1>7, <1>8 DEF Inv

\* A record of a generation keeps its type when its fields do.
LEMMA RestorationIs ==
    ASSUME Inv, NEW n \in 1 .. Latest
    PROVE  /\ restorations[n] \in Restorations
           /\ restorations[n].phase # "RECONCILE_EFFECTS" => PlanOK(restorations[n].current)
           /\ restorations[n].proof # "none" => restorations[n].phase = "GITOPS_APPLIED"
           /\ restorations[n].phase = "GITOPS_APPLIED" =>
                 \A k \in Started(n) : proposals[k].state = "merged" /\ proposals[k].approved
  BY LatestIs DEF RestorationOK

LEMMA StandStep ==
    ASSUME Inv, layout' = layout, NEW n \in 1 .. Latest, ProposalsStand(n) \/ markRestorationUnapproved(n)
    PROVE  Inv'
  <1>1. PICK phase \in {"WAIT_EXTERNAL_MERGE", "UNAPPROVED_EFFECT"} :
           restorations' = [restorations EXCEPT ![n].phase = phase]
    BY DEF ProposalsStand, markRestorationUnapproved
  <1>2. PICK r : r = [restorations[n] EXCEPT !.phase = phase]
    OBVIOUS
  <1>3. restorations[n].phase \in {"PREPARE_PROPOSALS", "WAIT_EXTERNAL_MERGE"}
    BY DEF ProposalsStand, markRestorationUnapproved
  <1>4. /\ r \in Restorations /\ r.phase = phase /\ r.effects = restorations[n].effects
        /\ r.current = restorations[n].current /\ r.proof = restorations[n].proof
    BY <1>2, RestorationIs DEF Restorations
  <1>5. Follows(r, n)
    BY <1>3, <1>4, RestorationIs DEF Follows
  <1>6. restorations' = [restorations EXCEPT ![n] = r]
    BY <1>1, <1>2
  <1>7. confirming' \in Nat /\ UNCHANGED <<tick, release, calls>>
    BY DEF Inv, TypeOK, ProposalsStand, markRestorationUnapproved, workVars
  <1> QED
    BY <1>3, <1>4, <1>5, <1>6, <1>7, RestorationStep DEF ProposalsStand, markRestorationUnapproved

LEMMA AdmitStep ==
    ASSUME Inv, layout' = layout, NEW n \in 1 .. Latest, AdmitConfirmation(n)
    PROVE  Inv'
  <1>1. PICK confirmed \in BOOLEAN :
           restorations' = [restorations EXCEPT ![n].confirmed = confirmed]
    <2>1. restorations[n].confirmed \in BOOLEAN /\ restorations[n] \in Restorations
      BY RestorationIs DEF Restorations
    <2>2. CASE restorations' = restorations
      <3>1. restorations[n] = [restorations[n] EXCEPT !.confirmed = restorations[n].confirmed]
        BY <2>1 DEF Restorations
      <3>2. restorations = [restorations EXCEPT ![n].confirmed = restorations[n].confirmed]
        BY <3>1, LatestIs DEF Latest
      <3> QED
        BY <2>1, <2>2, <3>2
    <2> QED
      BY <2>2 DEF AdmitConfirmation
  <1>2. PICK r : r = [restorations[n] EXCEPT !.confirmed = confirmed]
    OBVIOUS
  <1>3. /\ r \in Restorations /\ r.phase = restorations[n].phase
        /\ r.effects = restorations[n].effects
        /\ r.current = restorations[n].current /\ r.proof = restorations[n].proof
    BY <1>2, RestorationIs DEF Restorations
  <1>4. Follows(r, n)
    BY <1>3, RestorationIs DEF Follows
  <1>5. restorations' = [restorations EXCEPT ![n] = r]
    BY <1>1, <1>2
  <1>6. confirming' \in Nat
    BY DEF AdmitConfirmation
  <1> QED
    BY <1>3, <1>4, <1>5, <1>6, RestorationIs, RestorationStep DEF AdmitConfirmation

\* Only approved merges make a restoration applied.
LEMMA AppliedStep ==
    ASSUME Inv, layout' = layout, NEW n \in 1 .. Latest, GitOpsApplied(n)
    PROVE  Inv'
  <1>1. PICK r : r = [restorations[n] EXCEPT !.phase = "GITOPS_APPLIED", !.results = heads]
    OBVIOUS
  <1>2. heads \in HeadsSeen
    BY DEF Inv, TypeOK, HeadsSeen
  <1>3. /\ r \in Restorations /\ r.phase = "GITOPS_APPLIED" /\ r.effects = restorations[n].effects
        /\ r.current = restorations[n].current /\ r.proof = restorations[n].proof
    BY <1>1, <1>2, RestorationIs DEF Restorations
  <1>4. restorations[n].phase = "WAIT_EXTERNAL_MERGE"
    BY DEF GitOpsApplied
  <1>5. Follows(r, n)
    BY <1>3, <1>4, RestorationIs DEF Follows
  <1>6. ASSUME NEW k \in Started(n) PROVE proposals[k].state = "merged" /\ proposals[k].approved
    <2>1. k \in {n} \X Groups /\ intents[k].started /\ n \in 0 .. Latest
      BY LatestIs DEF Started
    <2>2. PICK g \in Groups : k = <<n, g>>
      BY <2>1
    <2>3. k \in Leaders
      BY <2>1, <2>2, LeaderNamed
    <2>4. g \in Writes(n)
      BY <2>1, <2>2, <2>3, LeaderIs DEF IntentOK, Writes
    <2> QED
      BY <2>2, <2>4 DEF GitOpsApplied, Collected, ApprovedMerge
  <1>7. restorations' = [restorations EXCEPT ![n] = r]
    BY <1>1 DEF GitOpsApplied
  <1>8. confirming' \in Nat /\ UNCHANGED <<tick, release, calls>>
    BY DEF Inv, TypeOK, GitOpsApplied, workVars
  <1> QED
    BY <1>3, <1>4, <1>5, <1>6, <1>7, <1>8, RestorationStep DEF GitOpsApplied

LEMMA SettlementIs ==
    ASSUME Inv, NEW n \in 1 .. Latest, NEW own \in BOOLEAN
    PROVE  EffectsOf(n, own) \subseteq Leaders /\ Settlement(n, own) \in Settlements
  <1>1. Started(n) \subseteq Leaders
    BY LeaderNamed, LatestIs DEF Started
  <1>2. restorations[n].effects \subseteq Leaders
    BY LatestIs DEF Restorations
  <1>3. EffectsOf(n, own) \subseteq Leaders
    BY <1>1, <1>2 DEF EffectsOf
  <1>4. Settlement(n, own) \in [EffectsOf(n, own) -> States]
    BY <1>3, LeaderIs DEF Settlement, Proposals
  <1> QED
    BY <1>3, <1>4 DEF Settlements

LEMMA ProofStep ==
    ASSUME Inv, layout' = layout, NEW n \in 1 .. Latest,
           verify_candidate_dev_restoration(n) \/ tickRestorationVerification(n)
    PROVE  Inv'
  <1>1. restorations[n].phase = "GITOPS_APPLIED" /\ restorations[n] \in Restorations
    BY RestorationIs DEF verify_candidate_dev_restoration, tickRestorationVerification
  <1>2. PICK r : /\ restorations' = [restorations EXCEPT ![n] = r]
                 /\ \/ r = [restorations[n] EXCEPT !.attempt = @ + 1, !.proof = "pending", !.proven = <<>>]
                    \/ r = [restorations[n] EXCEPT !.proof = "VERIFIED", !.proven = Settlement(n, TRUE)]
                    \/ r = [restorations[n] EXCEPT !.proof = "UNVERIFIED"]
    <2>1. CASE verify_candidate_dev_restoration(n)
      BY <2>1 DEF verify_candidate_dev_restoration
    <2>2. CASE restorations' = [restorations EXCEPT ![n].proof = "VERIFIED",
                                   ![n].proven = Settlement(n, TRUE)]
      BY <2>2
    <2>3. CASE restorations' = [restorations EXCEPT ![n].proof = "UNVERIFIED"]
      BY <2>3
    <2> QED
      BY <2>1, <2>2, <2>3 DEF tickRestorationVerification
  <1>3. /\ r \in Restorations /\ r.phase = restorations[n].phase
        /\ r.effects = restorations[n].effects /\ r.current = restorations[n].current
    <2>1. CASE r = [restorations[n] EXCEPT !.attempt = @ + 1, !.proof = "pending", !.proven = <<>>]
      <3>1. restorations[n].attempt + 1 \in Nat /\ <<>> \in Settlements
        BY <1>1 DEF Restorations, Settlements
      <3>2. PICK a \in Nat : a = restorations[n].attempt + 1
        BY <3>1
      <3>3. r = [restorations[n] EXCEPT !.attempt = a, !.proof = "pending", !.proven = <<>>]
        BY <2>1, <3>2
      <3> HIDE <2>1
      <3> QED
        BY <1>1, <3>1, <3>3 DEF Restorations
    <2>2. CASE r = [restorations[n] EXCEPT !.proof = "VERIFIED", !.proven = Settlement(n, TRUE)]
      <3>1. PICK s \in Settlements : s = Settlement(n, TRUE)
        BY SettlementIs
      <3> QED
        BY <1>1, <2>2, <3>1 DEF Restorations
    <2>3. CASE r = [restorations[n] EXCEPT !.proof = "UNVERIFIED"]
      BY <1>1, <2>3 DEF Restorations
    <2> QED
      BY <1>2, <2>1, <2>2, <2>3
  <1>4. Follows(r, n)
    BY <1>1, <1>3, RestorationIs DEF Follows
  <1>5. confirming' \in Nat /\ UNCHANGED <<tick, release, calls>>
    BY DEF Inv, TypeOK, verify_candidate_dev_restoration, tickRestorationVerification, workVars
  <1> QED
    BY <1>1, <1>2, <1>3, <1>4, <1>5, RestorationIs, RestorationStep
       DEF verify_candidate_dev_restoration, tickRestorationVerification

\* A new generation lists everything that was ever started as its effects.
LEMMA RequestStep ==
    ASSUME Inv, layout' = layout, request_candidate_dev_restoration
    PROVE  Inv'
  <1> USE DEF workVars, sendVars, gitVars
  <1>1. /\ hold = "reserved" /\ capture.phase = "BASELINE_CAPTURED" /\ Latest < MaxGeneration
        /\ UNCHANGED <<hold, capture, activation, child, intents, workVars, sendVars, gitVars>>
    BY DEF request_candidate_dev_restoration
  <1>2. PICK r : /\ restorations' = Append(restorations, r)
                 /\ r = [phase |-> "RECONCILE_EFFECTS", effects |-> restorationEffects,
                         current |-> <<>>, heads |-> <<>>, settlement |-> <<>>, confirmed |-> FALSE,
                         results |-> <<>>, attempt |-> 0, proof |-> "none", proven |-> <<>>]
    BY DEF request_candidate_dev_restoration
  <1>3. restorationEffects \subseteq Leaders
    BY DEF restorationEffects
  <1>4. /\ r \in Restorations /\ r.phase = "RECONCILE_EFFECTS" /\ r.proof = "none"
        /\ r.effects = restorationEffects
    BY <1>2, <1>3 DEF Restorations, Baselines, HeadsSeen, Settlements
  <1>5. restorations \in Seq(Restorations) /\ Latest \in Nat
    BY LatestIs
  <1>6. /\ restorations' \in Seq(Restorations) /\ Latest' = Latest + 1
        /\ restorations'[Latest + 1] = r
        /\ \A n \in 1 .. Latest : restorations'[n] = restorations[n]
    BY <1>2, <1>4, <1>5, AppendProperties DEF Latest
  <1>7. Onward /\ Latest' \in Nat
    BY <1>1, <1>5, <1>6 DEF Onward
  <1>8. epoch' = EpochOf(Latest') /\ epoch' \in Nat
    BY <1>5, <1>6 DEF request_candidate_dev_restoration, EpochOf, HoldEpoch
  <1>9. TypeOK'
    BY <1>1, <1>6, <1>8, SameLayout DEF Inv, TypeOK
  <1>10. (\A k \in Leaders : IntentOK(k) /\ ProposalOK(k))'
    BY <1>1, <1>7, LeadersStay
  <1>11. (\A n \in 1 .. Latest : RestorationOK(n))'
    <2>1. ASSUME NEW n \in 1 .. Latest PROVE RestorationOK(n)'
      BY <1>1, <1>6, <2>1, RestorationStays DEF ApprovalsStay
    <2>2. PICK m \in Nat : m = Latest + 1
      BY <1>5
    <2>3. RestorationOK(m)'
      <3>1. restorations'[m] = r
        BY <1>6, <2>2
      <3>2. \A k \in Leaders : intents'[k].started => k \in r.effects
        BY <1>1, <1>4 DEF restorationEffects
      <3> QED
        BY <1>4, <3>1, <3>2, SameLayout DEF RestorationOK
    <2> QED
      BY <1>5, <1>6, <2>1, <2>2, <2>3
  <1>12. EpochOK'
    BY <1>1, <1>5, <1>6, <1>8, LatestIs DEF EpochOK
  <1>13. BaselineOK'
    BY <1>1, BaselineStays
  <1>14. TickOK'
    <2>1. ~tick.on
      BY <1>1, <1>5 DEF request_candidate_dev_restoration, Idle, Inv, TickOK
    <2> QED
      BY <1>1, <2>1 DEF TickOK
  <1>15. ReleaseOK'
    BY <1>1, <1>5, <1>6 DEF Inv, ReleaseOK
  <1> QED
    BY <1>9, <1>10, <1>11, <1>12, <1>13, <1>14, <1>15 DEF Inv

LEMMA SettleStep ==
    ASSUME Inv, layout' = layout,
           SettlingEnds \/ \E n \in 1 .. Latest : SettleEffects(n) \/ confirm_candidate_dev_restoration(n)
    PROVE  Inv'
  <1> USE DEF storeVars, sendVars, gitVars
  <1>1. CASE SettlingEnds
    <2>1. TypeOK'
      BY <1>1, SameLayout DEF SettlingEnds, Inv, TypeOK, Ticks
    <2>2. EpochOK' /\ BaselineOK' /\ TickOK' /\ ReleaseOK'
      BY <1>1, EpochStays, BaselineStays, TickStays, ReleaseStays, CleanStays DEF SettlingEnds
    <2> QED
      BY <1>1, <2>1, <2>2, QuietStep DEF SettlingEnds
  <1>2. ASSUME NEW n \in 1 .. Latest, SettleEffects(n) PROVE Inv'
    <2>1. PICK t : tick' = t /\ t = [on |-> TRUE, settlement |-> Settlement(n, FALSE)]
      BY <1>2 DEF SettleEffects
    <2>2. t \in Ticks
      BY <2>1, SettlementIs DEF Ticks
    <2>3. TypeOK'
      BY <1>2, <2>1, <2>2, SameLayout DEF SettleEffects, Inv, TypeOK
    <2>4. TickOK'
      BY <1>2, AllowedIsLatest, SameRestorations DEF SettleEffects, TickOK
    <2>5. EpochOK' /\ BaselineOK' /\ ReleaseOK'
      BY <1>2, EpochStays, BaselineStays, ReleaseStays, CleanStays DEF SettleEffects
    <2> QED
      BY <1>2, <2>3, <2>4, <2>5, QuietStep DEF SettleEffects
  <1>3. ASSUME NEW n \in 1 .. Latest, confirm_candidate_dev_restoration(n) PROVE Inv'
    <2>1. TypeOK'
      BY <1>3, LatestIs, SameLayout DEF confirm_candidate_dev_restoration, Inv, TypeOK
    <2>2. EpochOK' /\ BaselineOK' /\ TickOK' /\ ReleaseOK'
      BY <1>3, EpochStays, BaselineStays, TickStays, ReleaseStays, CleanStays
         DEF confirm_candidate_dev_restoration
    <2> QED
      BY <1>3, <2>1, <2>2, QuietStep DEF confirm_candidate_dev_restoration
  <1> QED
    BY <1>1, <1>2, <1>3

\* A restoration is planned from files that were captured or merged.
LEMMA KnownIsPlan ==
    ASSUME Inv, NEW n \in 1 .. Latest, \A c \in Components : knownRestorationBlob(n, c)
    PROVE  PlanOK(files)
  <1>1. files \in [Components -> Blobs] /\ capture.blobs \in [Components -> Blobs]
    <2>1. Latest > 0
      BY LatestIs
    <2>2. files \in [Components -> Blobs]
      BY DEF Inv, TypeOK
    <2> QED
      BY <2>1, <2>2, BaselineIs
  <1>2. ASSUME NEW c \in Components PROVE files[c].image \in {OriginalImage(c), Candidate}
    <2>1. CASE BaselineBlob(c)
      BY <2>1 DEF BaselineBlob, OriginalImage
    <2>2. ASSUME NEW k \in restorations[n].effects,
                 proposals[k].state = "merged", files[c] = ProposedBlob(k, c)
          PROVE  files[c].image \in {OriginalImage(c), Candidate}
      <3>1. k \in Leaders
        BY LatestIs DEF Restorations
      <3>2. From(k, c) \in Blobs
        <4>1. Begun(k)
          BY <2>2, <3>1, ExistsMeansStarted
        <4>2. CASE k[1] = 0
          BY <1>1, <4>2 DEF From
        <4>3. CASE k[1] # 0
          <5>1. k[1] \in 1 .. Latest /\ restorations[k[1]].phase # "RECONCILE_EFFECTS"
            BY <4>1, <4>3 DEF Begun
          <5> QED
            BY <4>3, <5>1, PlanIs DEF From, PlanOK
        <4> QED
          BY <4>2, <4>3
      <3>3. files[c].image = To(k, c)
        BY <2>2, <3>2 DEF ProposedBlob, Blobs
      <3> QED
        BY <3>3 DEF To
    <2> QED
      BY <2>1, <2>2 DEF knownRestorationBlob
  <1> QED
    BY <1>1, <1>2 DEF PlanOK

LEMMA PrepareStep ==
    ASSUME Inv, layout' = layout, NEW n \in 1 .. Latest, prepareRestorationPlan(n)
    PROVE  Inv'
  <1> USE DEF sendVars, gitVars
  <1>1. /\ tick.on /\ n = Latest /\ hold = "reserved"
        /\ restorations[n] \in Restorations /\ restorations[n].phase = "RECONCILE_EFFECTS"
        /\ UNCHANGED <<epoch, hold, capture, activation, child, confirming, release, calls,
                       sendVars, gitVars>>
        /\ tick' = NoTick
    BY AllowedIsLatest DEF prepareRestorationPlan, Inv, TickOK
  <1>2. PICK r : r = [restorations[n] EXCEPT !.phase = "PREPARE_PROPOSALS", !.current = files,
                         !.heads = heads, !.settlement = tick.settlement]
    OBVIOUS
  <1>3. files \in Baselines /\ heads \in HeadsSeen /\ tick.settlement \in Settlements
    <2>1. files \in Baselines
      BY DEF Inv, TypeOK, Baselines
    <2>2. heads \in HeadsSeen
      BY DEF Inv, TypeOK, HeadsSeen
    <2>3. tick \in Ticks /\ tick # NoTick
      BY <1>1 DEF Inv, TypeOK, NoTick
    <2>4. tick.settlement \in Settlements
      BY <2>3 DEF Ticks
    <2> QED
      BY <2>1, <2>2, <2>4
  <1>4. /\ r \in Restorations /\ r.phase = "PREPARE_PROPOSALS" /\ r.current = files
        /\ r.effects = restorations[n].effects /\ r.proof = restorations[n].proof
    BY <1>1, <1>2, <1>3 DEF Restorations
  <1>5. Follows(r, n)
    BY <1>1, <1>4, KnownIsPlan, RestorationIs DEF Follows, prepareRestorationPlan
  <1>6. restorations' = [restorations EXCEPT ![n] = r]
    BY <1>2 DEF prepareRestorationPlan
  <1>7. /\ Latest' = Latest /\ Latest' \in Nat /\ Onward
        /\ restorations'[n] = r
        /\ \A m \in 1 .. Latest : m # n => restorations'[m] = restorations[m]
        /\ restorations' \in Seq(Restorations)
    BY <1>1, <1>4, <1>5, <1>6, OneRestoration
  <1>8. ASSUME NEW k \in Leaders
        PROVE  /\ intents'[k] \in Intents
               /\ intents'[k] = intents[k] \/ (k[1] = n /\ ~intents'[k].started)
               /\ intents'[k].started => intents[k].started
    <2>1. PICK h : h = heads[k[2]]
      OBVIOUS
    <2>2. h \in Nat
      BY <2>1, LayoutIs DEF Inv, TypeOK
    <2>3. \/ intents'[k] = intents[k]
          \/ k[1] = n /\ intents'[k] = [NoIntent EXCEPT !.head = h]
      BY <2>1 DEF prepareRestorationPlan
    <2> QED
      BY <2>2, <2>3, LeaderIs DEF NoIntent, Intents
  <1>9. intents' \in [Leaders -> Intents]
    <2>1. PICK f : intents' = [k \in Leaders |-> f[k]]
      <3>1. intents' = [k \in Leaders |-> intents'[k]]
        BY DEF prepareRestorationPlan
      <3> QED
        BY <3>1
    <2> QED
      BY <1>8, <2>1
  <1>10. TypeOK'
    BY <1>1, <1>7, <1>9, SameLayout DEF Inv, TypeOK, Ticks
  <1>11. ASSUME NEW k \in Leaders PROVE IntentOK(k)' /\ ProposalOK(k)'
    <2>1. CASE intents'[k] = intents[k]
      BY <1>1, <1>7, <2>1, LeaderStays
    <2>2. CASE k[1] = n /\ ~intents'[k].started
      <3>1. Begun(k)' /\ IntentOK(k) /\ ProposalOK(k) /\ ~Begun(k)
        BY <1>1, <1>4, <1>7, <2>2, LeaderIs DEF Begun
      <3>2. ~intents[k].started
        BY <3>1 DEF IntentOK
      <3>3. IntentOK(k)'
        BY <1>1, <2>2, <3>1, <3>2 DEF IntentOK
      <3>4. ProposalOK(k)'
        BY <1>1, <3>1 DEF ProposalOK
      <3> QED
        BY <3>3, <3>4
    <2> QED
      BY <1>8, <2>1, <2>2
  <1>12. (\A m \in 1 .. Latest : RestorationOK(m))'
    <2>1. ASSUME NEW m \in 1 .. Latest, m # n PROVE RestorationOK(m)'
      BY <1>1, <1>7, <1>8, <2>1, RestorationStays DEF ApprovalsStay
    <2>2. RestorationOK(n)'
      <3>1. (restorations[n].phase # "RECONCILE_EFFECTS" => PlanOK(restorations[n].current))'
        BY <1>1, <1>4, <1>5, <1>7 DEF Follows, PlanOK, OriginalImage
      <3>2. \A k \in Leaders : intents'[k].started /\ k[1] < n => k \in r.effects
        BY <1>4, <1>8, LatestIs DEF RestorationOK
      <3>3. r.proof # "none" => r.phase = "GITOPS_APPLIED"
        BY <1>5 DEF Follows
      <3> QED
        BY <1>4, <1>7, <3>1, <3>2, <3>3, SameLayout DEF RestorationOK
    <2> QED
      BY <1>7, <2>1, <2>2
  <1>13. EpochOK'
    BY <1>1, <1>7 DEF Inv, EpochOK, EpochOf
  <1>14. BaselineOK'
    BY <1>1, BaselineStays
  <1>15. TickOK'
    BY <1>1 DEF TickOK, NoTick
  <1>16. ReleaseOK'
    <2>1. release # NoRelease => release.generation # n
      BY <1>1 DEF Inv, ReleaseOK
    <2> QED
      BY <1>1, <1>7, <2>1 DEF Inv, ReleaseOK
  <1> QED
    BY <1>10, <1>11, <1>12, <1>13, <1>14, <1>15, <1>16, SameLayout DEF Inv

\* A step of a planned restoration that changes the batch of one group.
LEMMA WriteStep ==
    ASSUME Inv, layout' = layout, NEW n \in 1 .. Latest, restorationAllowed(n),
           restorations[n].phase = "PREPARE_PROPOSALS",
           NEW g \in Groups, NEW k \in Leaders, k = <<n, g>>,
           NEW i \in Intents, i.head # 0, i.started, intents' = [intents EXCEPT ![k] = i],
           NEW call \in {"none", "latched"}, calls' = [calls EXCEPT ![k] = call],
           call = "latched" => sent[k] = 0,
           UNCHANGED <<epoch, hold, capture, activation, child, restorations,
                       tick, confirming, release, sendVars, gitVars>>
    PROVE  Inv'
  <1> USE DEF sendVars, gitVars
  <1>1. n = Latest /\ hold = "reserved" /\ Latest' = Latest /\ Latest' \in Nat /\ Onward
    BY AllowedIsLatest, SameRestorations
  <1>2. intents \in [Leaders -> Intents] /\ calls \in [Leaders -> {"none", "latched", "ref", "pr"}]
    BY DEF Inv, TypeOK
  <1>3. TypeOK'
    BY <1>2, SameLayout DEF Inv, TypeOK
  <1>4. ASSUME NEW h \in Leaders PROVE IntentOK(h)' /\ ProposalOK(h)'
    <2>1. CASE h = k
      <3>1. Begun(k)' /\ ProposalOK(k)
        BY <1>1, LeaderIs DEF Begun
      <3>2. IntentOK(k)'
        BY <1>2, <3>1 DEF IntentOK
      <3>3. ProposalOK(k)'
        BY <1>2, <3>1 DEF ProposalOK
      <3> QED
        BY <2>1, <3>2, <3>3
    <2>2. CASE h # k
      BY <1>1, <1>2, <2>2, LeaderStays
    <2> QED
      BY <2>1, <2>2
  <1>5. (\A m \in 1 .. Latest : RestorationOK(m))'
    <2>1. \A h \in Leaders : intents'[h].started => intents[h].started \/ h = k
      BY <1>2
    <2>2. ASSUME NEW m \in 1 .. Latest PROVE RestorationOK(m)'
      <3>1. k[1] > m \/ (k[1] = m /\ restorations[m].phase # "GITOPS_APPLIED")
        BY <1>1
      <3> QED
        BY <2>1, <3>1, RestorationStays DEF ApprovalsStay
    <2> QED
      BY <1>1, <2>2
  <1>6. EpochOK' /\ BaselineOK' /\ TickOK'
    BY EpochStays, BaselineStays, TickStays
  <1>7. ReleaseOK'
    <2>1. release # NoRelease => release.generation # Latest
      BY <1>1 DEF Inv, ReleaseOK
    <2> QED
      BY <1>1, <2>1 DEF Inv, ReleaseOK
  <1> QED
    BY <1>3, <1>4, <1>5, <1>6, <1>7, SameLayout DEF Inv

LEMMA LatchStep ==
    ASSUME Inv, layout' = layout, NEW n \in 1 .. Latest, NEW g \in Groups, latchRestorationSend(n, g)
    PROVE  Inv'
  <1>0. n \in 0 .. Latest
    BY LatestIs
  <1>1. PICK k \in Leaders : k = <<n, g>>
    BY <1>0, LeaderNamed
  <1>2. intents[k].head # 0 /\ ~intents[k].started
    BY <1>1 DEF latchRestorationSend, NextWrite, Writes
  <1>3. PICK i : i = [intents[k] EXCEPT !.started = TRUE]
    OBVIOUS
  <1>4. i \in Intents /\ i.head # 0 /\ i.started
    BY <1>2, <1>3, LeaderIs DEF Intents
  <1>5. sent[k] = 0
    BY <1>2, LeaderIs DEF IntentOK
  <1>6. /\ intents' = [intents EXCEPT ![k] = i] /\ calls' = [calls EXCEPT ![k] = "latched"]
        /\ restorationAllowed(n) /\ restorations[n].phase = "PREPARE_PROPOSALS"
        /\ UNCHANGED <<epoch, hold, capture, activation, child, restorations,
                       tick, confirming, release, sendVars, gitVars>>
    BY <1>1, <1>3 DEF latchRestorationSend
  <1> QED
    BY <1>1, <1>4, <1>5, <1>6, WriteStep

LEMMA LookupRestorationStep ==
    ASSUME Inv, layout' = layout, NEW n \in 1 .. Latest, NEW g \in Groups, LookupRestoration(n, g)
    PROVE  Inv'
  <1>0. n \in 0 .. Latest
    BY LatestIs
  <1>1. PICK k \in Leaders : k = <<n, g>>
    BY <1>0, LeaderNamed
  <1>2. intents[k].head # 0 /\ intents[k].started
    BY <1>1 DEF LookupRestoration, NextWrite, Writes
  <1>3. PICK i : i = [intents[k] EXCEPT !.recorded = TRUE]
    OBVIOUS
  <1>4. i \in Intents /\ i.head # 0 /\ i.started
    BY <1>2, <1>3, LeaderIs DEF Intents
  <1>5. /\ intents' = [intents EXCEPT ![k] = i] /\ calls' = [calls EXCEPT ![k] = "none"]
        /\ restorationAllowed(n) /\ restorations[n].phase = "PREPARE_PROPOSALS"
        /\ UNCHANGED <<epoch, hold, capture, activation, child, restorations,
                       tick, confirming, release, sendVars, gitVars>>
    BY <1>1, <1>3 DEF LookupRestoration
  <1> QED
    BY <1>1, <1>4, <1>5, WriteStep

-----------------------------------------------------------------------------
(***************************************************************************)
(* The release                                                             *)
(***************************************************************************)

LEMMA StartReleaseStep ==
    ASSUME Inv, layout' = layout, NEW n \in 1 .. Latest, release_candidate_dev_after_restoration(n)
    PROVE  Inv'
  <1> USE DEF storeVars, sendVars, gitVars
  <1>1. restorations[n] \in Restorations /\ restorations[n].phase = "GITOPS_APPLIED" /\ n \in Nat
    BY RestorationIs, LatestIs DEF release_candidate_dev_after_restoration
  <1>2. PICK r : /\ release' = r
                 /\ r = [stage |-> "started", generation |-> n, attempt |-> restorations[n].attempt]
    BY DEF release_candidate_dev_after_restoration
  <1>3. r \in Releases /\ r.stage = "started" /\ r.generation = n
    BY <1>1, <1>2 DEF Releases, Restorations
  <1>4. TypeOK'
    BY <1>2, <1>3, SameLayout DEF release_candidate_dev_after_restoration, Inv, TypeOK
  <1>5. EpochOK' /\ BaselineOK' /\ TickOK'
    BY EpochStays, BaselineStays, TickStays DEF release_candidate_dev_after_restoration
  <1>6. ReleaseOK'
    <2>1. hold = "reserved" /\ hold' = hold /\ Latest' = Latest /\ restorations' = restorations
      BY AllowedIsLatest, SameRestorations DEF release_candidate_dev_after_restoration
    <2> QED
      BY <1>1, <1>2, <1>3, <2>1 DEF ReleaseOK
  <1> QED
    BY <1>4, <1>5, <1>6, QuietStep DEF release_candidate_dev_after_restoration

\* What is observed at the latest generation: everything that was ever started
\* is closed or merged, and every file has its original image.
LEMMA ObservedIsClean ==
    ASSUME Inv, NEW n \in 1 .. Latest, n = Latest, restorations[n].phase = "GITOPS_APPLIED",
           Reconciled(n, TRUE), Collected(n)
    PROVE  Clean
  <1>1. ASSUME NEW k \in Leaders, intents[k].started
        PROVE  proposals[k].state \in {"closed", "merged"}
    <2>1. k = <<k[1], k[2]>> /\ k[1] \in Nat /\ k[2] \in Groups
      BY LayoutIs DEF Inv, TypeOK
    <2>2. Begun(k)
      BY <1>1, LeaderIs DEF IntentOK
    <2>3. k[1] < n \/ k[1] = n
      BY <2>1, <2>2, LatestIs DEF Begun
    <2>4. k \in EffectsOf(n, TRUE)
      <3>1. CASE k[1] < n
        BY <1>1, <3>1, LatestIs DEF RestorationOK, EffectsOf
      <3>2. CASE k[1] = n
        BY <1>1, <2>1, <3>2 DEF Started, EffectsOf
      <3> QED
        BY <2>3, <3>1, <3>2
    <2> QED
      BY <2>4 DEF Reconciled
  <1>2. NoCandidate
    <2>1. ASSUME NEW c \in Components PROVE files[c].image # Candidate
      <3>1. restorations[n].current[c] \in Blobs
        BY PlanIs DEF PlanOK
      <3>2. files[c].image = OriginalImage(c)
        BY <3>1 DEF Collected, ResultOf, Blobs
      <3>3. OriginalImage(c) # Candidate
        BY BaselineIs, LatestIs
      <3> QED
        BY <3>2, <3>3
    <2> QED
      BY <2>1 DEF NoCandidate
  <1> QED
    BY <1>1, <1>2 DEF Clean, Settled

LEMMA ObserveReleaseStep ==
    ASSUME Inv, layout' = layout, ObserveRelease
    PROVE  Inv'
  <1> USE DEF storeVars, sendVars, gitVars
  <1>1. release.stage = "started" /\ release \in Releases /\ release # NoRelease
    BY DEF ObserveRelease, NoRelease, Inv, TypeOK
  <1>2. PICK r : release' = r /\ r = [release EXCEPT !.stage = "observed"]
    BY DEF ObserveRelease
  <1>3. r \in Releases /\ r.stage = "observed" /\ r.generation = release.generation
    BY <1>1, <1>2 DEF Releases
  <1>4. PICK n \in 1 .. Latest : n = release.generation /\ restorations[n].phase = "GITOPS_APPLIED"
    BY <1>1 DEF Inv, ReleaseOK
  <1>5. TypeOK'
    BY <1>2, <1>3, SameLayout DEF ObserveRelease, Inv, TypeOK
  <1>6. EpochOK' /\ BaselineOK' /\ TickOK'
    BY EpochStays, BaselineStays, TickStays DEF ObserveRelease
  <1>7. ReleaseOK'
    <2>1. n = Latest => Clean
      BY <1>4, ObservedIsClean DEF ObserveRelease
    <2>2. Clean => Clean'
      BY CleanStays DEF ObserveRelease
    <2>3. hold' = hold /\ Latest' = Latest /\ restorations' = restorations
      BY SameRestorations DEF ObserveRelease
    <2> QED
      BY <1>2, <1>3, <1>4, <2>1, <2>2, <2>3 DEF Inv, ReleaseOK
  <1> QED
    BY <1>5, <1>6, <1>7, QuietStep DEF ObserveRelease

LEMMA CommitReleaseStep ==
    ASSUME Inv, layout' = layout, CommitRelease
    PROVE  Inv'
  <1> USE DEF sendVars, gitVars
  <1>1. release.stage = "observed" /\ release # NoRelease
    BY DEF CommitRelease, NoRelease
  <1>2. release.generation = Latest
    BY AllowedIsLatest DEF CommitRelease
  <1>3. Clean
    BY <1>1, <1>2 DEF Inv, ReleaseOK
  <1>4. TypeOK'
    BY SameLayout DEF CommitRelease, Inv, TypeOK, Releases
  <1>5. EpochOK'
    BY SameRestorations DEF CommitRelease, Inv, EpochOK
  <1>6. BaselineOK' /\ TickOK'
    BY BaselineStays, TickStays DEF CommitRelease
  <1>7. ReleaseOK'
    BY <1>3, CleanStays DEF CommitRelease, ReleaseOK
  <1> QED
    BY <1>4, <1>5, <1>6, <1>7, QuietStep DEF CommitRelease

LEMMA ReleaseFailsStep ==
    ASSUME Inv, layout' = layout, ReleaseFails
    PROVE  Inv'
  <1> USE DEF storeVars, sendVars, gitVars
  <1>1. TypeOK'
    BY SameLayout DEF ReleaseFails, Inv, TypeOK, Releases
  <1>2. EpochOK' /\ BaselineOK' /\ TickOK' /\ ReleaseOK'
    BY EpochStays, BaselineStays, TickStays, ReleaseStays, CleanStays DEF ReleaseFails
  <1> QED
    BY <1>1, <1>2, QuietStep DEF ReleaseFails

-----------------------------------------------------------------------------
(***************************************************************************)
(* Sending                                                                 *)
(***************************************************************************)

\* A step of one leader's call or of its requests.
LEMMA CallStep ==
    ASSUME Inv, layout' = layout, NEW k \in Leaders, TypeOK',
           \A h \in Leaders : h # k =>
              /\ calls'[h] = calls[h] /\ sent'[h] = sent[h] /\ proposals'[h] = proposals[h]
              /\ \A what \in {"ref", "pr"} : <<h, what>> \in wire' => <<h, what>> \in wire,
           IntentOK(k)', ProposalOK(k)', ApprovalsStay,
           \A h \in Leaders : proposals[h].state = "merged" => proposals'[h].state = "merged",
           Clean => Clean',
           UNCHANGED <<storeVars, tick, confirming, release, files>>
    PROVE  Inv'
  <1> USE DEF storeVars
  <1>1. Latest' = Latest /\ Latest' \in Nat /\ Onward
    BY SameRestorations
  <1>2. ASSUME NEW h \in Leaders PROVE IntentOK(h)' /\ ProposalOK(h)'
    <2>1. CASE h = k
      BY <2>1
    <2>2. CASE h # k
      BY <1>1, <2>2, LeaderStays
    <2> QED
      BY <2>1, <2>2
  <1>3. (\A n \in 1 .. Latest : RestorationOK(n))'
    BY RestorationsStay
  <1>4. EpochOK' /\ BaselineOK' /\ TickOK' /\ ReleaseOK'
    BY EpochStays, BaselineStays, TickStays, ReleaseStays
  <1> QED
    BY <1>2, <1>3, <1>4, SameLayout DEF Inv

LEMMA PostRefStep ==
    ASSUME Inv, layout' = layout, NEW k \in Leaders, PostRef(k)
    PROVE  Inv'
  <1> USE DEF PostRef, gitVars
  <1>1. /\ calls \in [Leaders -> {"none", "latched", "ref", "pr"}] /\ sent \in [Leaders -> Nat]
        /\ IntentOK(k) /\ ProposalOK(k) /\ sent[k] = 0 /\ intents[k].started /\ Begun(k)
    BY LeaderIs, ExistsMeansStarted DEF Inv, TypeOK, ProposalOK
  <1>2. TypeOK'
    BY <1>1, SameLayout DEF Inv, TypeOK, storeVars
  <1>3. Begun(k)'
    BY <1>1 DEF Begun, Latest, storeVars
  <1>4. IntentOK(k)'
    BY <1>1, <1>3 DEF IntentOK, storeVars
  <1>5. ProposalOK(k)'
    BY <1>1 DEF ProposalOK
  <1>6. Clean => Clean'
    BY CleanStays DEF storeVars
  <1> QED
    BY <1>1, <1>2, <1>4, <1>5, <1>6, CallStep DEF ApprovalsStay

LEMMA PostPullStep ==
    ASSUME Inv, layout' = layout, NEW k \in Leaders, PostPull(k)
    PROVE  Inv'
  <1> USE DEF PostPull, gitVars
  <1>1. /\ calls \in [Leaders -> {"none", "latched", "ref", "pr"}]
        /\ IntentOK(k) /\ ProposalOK(k) /\ intents[k].started /\ Begun(k)
    BY LeaderIs, ExistsMeansStarted DEF Inv, TypeOK
  <1>2. TypeOK'
    BY <1>1, SameLayout DEF Inv, TypeOK, storeVars
  <1>3. Begun(k)'
    BY <1>1 DEF Begun, Latest, storeVars
  <1>4. IntentOK(k)'
    BY <1>1, <1>3 DEF IntentOK, storeVars
  <1>5. ProposalOK(k)'
    BY <1>1, LeaderIs DEF ProposalOK
  <1>6. Clean => Clean'
    BY CleanStays DEF storeVars
  <1> QED
    BY <1>1, <1>2, <1>4, <1>5, <1>6, CallStep DEF ApprovalsStay

LEMMA CallEndsStep ==
    ASSUME Inv, layout' = layout, NEW k \in Leaders, CallEnds(k)
    PROVE  Inv'
  <1> USE DEF CallEnds, sendVars
  <1>1. /\ calls \in [Leaders -> {"none", "latched", "ref", "pr"}]
        /\ IntentOK(k) /\ ProposalOK(k)
    BY LeaderIs DEF Inv, TypeOK
  <1>2. TypeOK'
    BY <1>1, SameLayout DEF Inv, TypeOK, storeVars
  <1>3. Begun(k) => Begun(k)'
    BY DEF Begun, Latest, storeVars
  <1>4. IntentOK(k)'
    BY <1>1, <1>3 DEF IntentOK, storeVars
  <1>5. ProposalOK(k)'
    BY <1>1 DEF ProposalOK
  <1>6. Clean => Clean'
    BY CleanStays DEF storeVars
  <1> QED
    BY <1>1, <1>2, <1>4, <1>5, <1>6, CallStep DEF ApprovalsStay

\* While something of a leader is on the wire, nothing is clean.
LEMMA InFlightIsUnclean ==
    ASSUME Inv, NEW k \in Leaders, NEW what \in {"ref", "pr"}, <<k, what>> \in wire
    PROVE  ~Clean /\ proposals[k].state \in {"none", "ref"} /\ intents[k].started
           /\ (what = "ref" => proposals[k].state = "none" /\ <<k, "pr">> \notin wire)
           /\ (what = "pr" => proposals[k].state = "ref" /\ <<k, "ref">> \notin wire)
  <1>1. IntentOK(k) /\ ProposalOK(k) /\ sent[k] # 0
    BY LeaderIs DEF ProposalOK
  <1>2. intents[k].started
    BY <1>1, LeaderIs DEF IntentOK, Intents
  <1>3. /\ what = "ref" => proposals[k].state = "none" /\ <<k, "pr">> \notin wire
        /\ what = "pr" => proposals[k].state = "ref" /\ <<k, "ref">> \notin wire
    BY <1>1 DEF ProposalOK
  <1>4. ~proposals[k].reopened
    BY <1>1, <1>3, LeaderIs DEF ProposalOK, Proposals
  <1> QED
    BY <1>2, <1>3, <1>4 DEF Clean, Settled

LEMMA ArrivesStep ==
    ASSUME Inv, layout' = layout, NEW k \in Leaders, NEW what \in {"ref", "pr"}, Arrives(k, what)
    PROVE  Inv'
  <1> USE DEF Arrives, workVars
  <1>1. /\ proposals \in [Leaders -> Proposals] /\ IntentOK(k) /\ ProposalOK(k)
        /\ sent[k] # 0
    BY LeaderIs DEF Inv, TypeOK, ProposalOK
  <1>2. /\ ~Clean /\ intents[k].started
        /\ what = "ref" => proposals[k].state = "none" /\ <<k, "pr">> \notin wire
        /\ what = "pr" => proposals[k].state = "ref" /\ <<k, "ref">> \notin wire
    BY InFlightIsUnclean
  <1>3. PICK p : /\ proposals' = [proposals EXCEPT ![k] = p]
                 /\ \/ p = [proposals[k] EXCEPT !.state = IF what = "ref" THEN "ref" ELSE "open"]
                    \/ p = proposals[k]
    <2>1. CASE proposals' = proposals
      BY <1>1, <2>1
    <2> QED
      BY <2>1
  <1>4. /\ p \in Proposals /\ p.approved = proposals[k].approved /\ p.reopened = proposals[k].reopened
        /\ \/ p.state = proposals[k].state
           \/ p.state = (IF what = "ref" THEN "ref" ELSE "open")
    <2>1. PICK st \in {"ref", "open"} : st = IF what = "ref" THEN "ref" ELSE "open"
      OBVIOUS
    <2> QED
      BY <1>1, <1>3, <2>1 DEF Proposals, States
  <1>5. TypeOK'
    <2>1. wire' \subseteq Leaders \X {"ref", "pr"} /\ proposals' \in [Leaders -> Proposals]
      BY <1>1, <1>3, <1>4 DEF Inv, TypeOK
    <2>2. mishaps' \in Nat
      BY DEF Inv, TypeOK
    <2> QED
      BY <2>1, <2>2, SameLayout DEF Inv, TypeOK, storeVars
  <1>6. IntentOK(k)'
    <2>1. Begun(k) => Begun(k)'
      BY DEF Begun, Latest, storeVars
    <2> QED
      BY <1>1, <2>1 DEF IntentOK, storeVars
  <1>7. ProposalOK(k)'
    <2>1. proposals'[k] = p
      BY <1>1, <1>3
    <2>2. wire' = wire \ {<<k, what>>}
      OBVIOUS
    <2>3. ~proposals[k].reopened
      BY <1>1, <1>2 DEF ProposalOK
    <2>4. calls[k] # "latched"
      BY <1>1 DEF ProposalOK
    <2>5. calls[k] = "ref" => what = "ref"
      BY <1>1 DEF ProposalOK
    <2>6. <<k, "ref">> \notin wire' \/ what = "pr"
      BY <2>2
    <2>7. <<k, "pr">> \notin wire' \/ what = "ref"
      BY <2>2
    <2> QED
      BY <1>1, <1>2, <1>4, <2>1, <2>2, <2>3, <2>4, <2>5, <2>6, <2>7 DEF ProposalOK
  <1>8. \A h \in Leaders : h # k => proposals'[h] = proposals[h]
    BY <1>1, <1>3
  <1>9. ApprovalsStay /\ \A h \in Leaders : proposals[h].state = "merged" => proposals'[h].state = "merged"
    BY <1>2, <1>8 DEF ApprovalsStay
  <1> QED
    BY <1>2, <1>5, <1>6, <1>7, <1>8, <1>9, CallStep

-----------------------------------------------------------------------------
(***************************************************************************)
(* People                                                                  *)
(***************************************************************************)

\* Whatever people do to a proposal and to the files, the server's own state stays.
LEMMA PeopleStep ==
    ASSUME Inv, layout' = layout, TypeOK',
           UNCHANGED <<storeVars, workVars, sendVars>>,
           \A k \in Leaders : ProposalOK(k)', ApprovalsStay, BaselineOK', Clean => Clean'
    PROVE  Inv'
  <1> USE DEF storeVars, workVars, sendVars
  <1>1. Latest' = Latest /\ Latest' \in Nat /\ Onward
    BY SameRestorations
  <1>2. ASSUME NEW k \in Leaders PROVE IntentOK(k)'
    BY <1>1, LeaderIs, BegunStays DEF IntentOK
  <1>3. (\A n \in 1 .. Latest : RestorationOK(n))'
    BY RestorationsStay
  <1>4. EpochOK' /\ TickOK' /\ ReleaseOK'
    BY EpochStays, TickStays, ReleaseStays
  <1> QED
    BY <1>2, <1>3, <1>4, SameLayout DEF Inv

\* People change the state of a proposal that is there, and nothing is in flight for it.
LEMMA TouchedIsOK ==
    ASSUME Inv, NEW k \in Leaders, NEW p \in Proposals,
           proposals[k].state \in {"open", "closed", "merged"}, p.state \in {"open", "closed", "merged"},
           proposals' = [proposals EXCEPT ![k] = p],
           UNCHANGED sendVars, UNCHANGED workVars
    PROVE  /\ proposals' \in [Leaders -> Proposals] /\ proposals'[k] = p
           /\ \A h \in Leaders : h # k => proposals'[h] = proposals[h]
           /\ \A h \in Leaders : ProposalOK(h)'
           /\ proposals[k].state # "merged" => ApprovalsStay
           /\ intents[k].started
  <1> USE DEF sendVars, workVars
  <1>1. proposals \in [Leaders -> Proposals]
    BY DEF Inv, TypeOK
  <1>2. /\ proposals' \in [Leaders -> Proposals] /\ proposals'[k] = p
        /\ \A h \in Leaders : h # k => proposals'[h] = proposals[h]
    BY <1>1
  <1>3. ProposalOK(k)'
    BY <1>2, LeaderIs DEF ProposalOK
  <1>4. \A h \in Leaders : ProposalOK(h)'
    <2>1. ASSUME NEW h \in Leaders, h # k PROVE ProposalOK(h)'
      BY <1>2, <2>1, LeaderIs DEF ProposalOK
    <2> QED
      BY <1>3, <2>1
  <1>5. intents[k].started
    BY ExistsMeansStarted
  <1>6. proposals[k].state # "merged" => ApprovalsStay
    BY <1>2 DEF ApprovalsStay
  <1> QED
    BY <1>2, <1>4, <1>5, <1>6

LEMMA CloseStep ==
    ASSUME Inv, layout' = layout, NEW k \in Leaders, Close(k)
    PROVE  Inv'
  <1> USE DEF Close
  <1>1. PICK p : p = [proposals[k] EXCEPT !.state = "closed"]
    OBVIOUS
  <1>2. /\ p \in Proposals /\ p.state = "closed" /\ p.reopened = proposals[k].reopened
        /\ proposals' = [proposals EXCEPT ![k] = p]
    BY <1>1, LeaderIs DEF Proposals, States
  <1>3. /\ proposals' \in [Leaders -> Proposals] /\ proposals'[k] = p
        /\ \A h \in Leaders : h # k => proposals'[h] = proposals[h]
        /\ \A h \in Leaders : ProposalOK(h)'
        /\ ApprovalsStay
    BY <1>2, TouchedIsOK
  <1>4. TypeOK'
    BY <1>3, SameLayout DEF Inv, TypeOK, storeVars, workVars, sendVars
  <1>5. BaselineOK'
    <2>1. \A h \in Leaders : proposals[h].state = "merged" => proposals'[h].state = "merged"
      BY <1>3
    <2> QED
      BY <2>1, BaselineStays DEF storeVars
  <1>6. Clean => Clean'
    <2>1. \A h \in Leaders : Settled(h) => Settled(h)'
      BY <1>2, <1>3 DEF Settled, storeVars
    <2>2. NothingReopened' => NothingReopened
      BY <1>2, <1>3, SameLayout DEF NothingReopened
    <2>3. NoCandidate' <=> NoCandidate
      BY DEF NoCandidate
    <2> QED
      BY <2>1, <2>2, <2>3, SameLayout DEF Clean
  <1> QED
    BY <1>3, <1>4, <1>5, <1>6, PeopleStep

LEMMA ReopenStep ==
    ASSUME Inv, layout' = layout, NEW k \in Leaders, Reopen(k)
    PROVE  Inv'
  <1> USE DEF Reopen
  <1>1. PICK p : p = [proposals[k] EXCEPT !.state = "open", !.reopened = TRUE]
    OBVIOUS
  <1>2. /\ p \in Proposals /\ p.state = "open" /\ p.reopened
        /\ proposals' = [proposals EXCEPT ![k] = p]
    <2>1. proposals[k] \in Proposals /\ proposals \in [Leaders -> Proposals]
      BY LeaderIs DEF Inv, TypeOK
    <2> QED
      BY <1>1, <2>1 DEF Proposals, States
  <1>3. /\ proposals' \in [Leaders -> Proposals] /\ proposals'[k] = p
        /\ \A h \in Leaders : h # k => proposals'[h] = proposals[h]
        /\ \A h \in Leaders : ProposalOK(h)'
        /\ ApprovalsStay
    BY <1>2, TouchedIsOK
  <1>4. TypeOK'
    <2>1. mishaps' \in Nat
      BY DEF Inv, TypeOK
    <2> QED
      BY <1>3, <2>1, SameLayout DEF Inv, TypeOK, storeVars, workVars, sendVars
  <1>5. BaselineOK'
    <2>1. \A h \in Leaders : proposals[h].state = "merged" => proposals'[h].state = "merged"
      BY <1>3
    <2> QED
      BY <2>1, BaselineStays DEF storeVars
  <1>6. Clean => Clean'
    <2>1. \A h \in Leaders : Settled(h) => Settled(h)'
      BY <1>2, <1>3 DEF Settled, storeVars
    <2>2. ~NothingReopened'
      BY <1>2, <1>3, SameLayout DEF NothingReopened
    <2> QED
      BY <2>1, <2>2, SameLayout DEF Clean
  <1> QED
    BY <1>3, <1>4, <1>5, <1>6, PeopleStep

\* What a merge exchanges: the captured image and the candidate's.
LEMMA ProposedImages ==
    ASSUME Inv, NEW k \in Leaders, Begun(k), NEW c \in Changes(k)
    PROVE  /\ c \in Components
           /\ {From(k, c).image, To(k, c)} = {OriginalImage(c), Candidate}
           /\ From(k, c).image # To(k, c)
  <1>1. activation # "none" \/ Latest > 0
    BY LatestIs DEF Begun
  <1>2. \A x \in Components : OriginalImage(x) # Candidate
    BY <1>1, BaselineIs
  <1>3. Members(k[2]) \subseteq Components /\ GroupFiles(k[2]) \subseteq Components
    BY DEF Members, GroupFiles
  <1>4. CASE k[1] = 0
    <2>1. c \in Components /\ To(k, c) = Candidate /\ From(k, c).image = OriginalImage(c)
      BY <1>3, <1>4 DEF Changes, To, From, OriginalImage
    <2> QED
      BY <1>2, <2>1
  <1>5. CASE k[1] # 0
    <2>1. PICK n \in 1 .. Latest : n = k[1] /\ restorations[n].phase # "RECONCILE_EFFECTS"
      BY <1>5 DEF Begun
    <2>2. PlanOK(restorations[n].current)
      BY <2>1, PlanIs
    <2>3. /\ c \in Components /\ From(k, c).image # OriginalImage(c)
          /\ From(k, c) = restorations[n].current[c] /\ To(k, c) = OriginalImage(c)
      BY <1>3, <1>5, <2>1 DEF Changes, To, From
    <2>4. From(k, c).image = Candidate
      BY <2>2, <2>3 DEF PlanOK
    <2> QED
      BY <1>2, <2>3, <2>4
  <1> QED
    BY <1>4, <1>5

LEMMA MergeStep ==
    ASSUME Inv, layout' = layout, NEW k \in Leaders, Merge(k)
    PROVE  Inv'
  <1> USE DEF Merge
  <1>1. /\ proposals[k].state = "open" /\ intents[k].started /\ Begun(k)
        /\ layout \in Layouts /\ files \in [Components -> Blobs] /\ heads \in [Groups -> Nat \ {0}]
        /\ k[2] \in Groups
    BY ExistsMeansStarted, LayoutIs DEF Inv, TypeOK
  <1>2. PICK after \in BOOLEAN :
           proposals' = [proposals EXCEPT ![k].state = "merged", ![k].approved = after]
    OBVIOUS
  <1>3. PICK p : p = [proposals[k] EXCEPT !.state = "merged", !.approved = after]
    OBVIOUS
  <1>4. /\ p \in Proposals /\ p.state = "merged" /\ p.reopened = proposals[k].reopened
        /\ proposals' = [proposals EXCEPT ![k] = p]
    <2>1. proposals[k] \in Proposals /\ proposals \in [Leaders -> Proposals]
      BY LeaderIs DEF Inv, TypeOK
    <2> QED
      BY <1>2, <1>3, <2>1 DEF Proposals, States
  <1>5. /\ proposals' \in [Leaders -> Proposals] /\ proposals'[k] = p
        /\ \A h \in Leaders : h # k => proposals'[h] = proposals[h]
        /\ \A h \in Leaders : ProposalOK(h)'
        /\ ApprovalsStay
    BY <1>1, <1>4, TouchedIsOK
  <1>6. files' \in [Components -> Blobs]
    <2>1. ASSUME NEW c \in Components PROVE files'[c] \in Blobs
      <3>1. CASE c \in Changes(k)
        <4>1. activation # "none" \/ Latest > 0
          BY <1>1, LatestIs DEF Begun
        <4>2. OriginalImage(c) \in {Original, Candidate, Other}
          BY <4>1, BaselineIs DEF Blobs, OriginalImage
        <4>3. To(k, c) \in {Original, Candidate, Other}
          BY <4>2 DEF To
        <4>4. files'[c] = [files[c] EXCEPT !.image = To(k, c)]
          BY <3>1
        <4> QED
          BY <1>1, <4>3, <4>4 DEF Blobs
      <3>2. CASE c \notin Changes(k)
        BY <1>1, <3>2
      <3> QED
        BY <3>1, <3>2
    <2> QED
      BY <2>1
  <1>7. heads' \in [Groups -> Nat \ {0}]
    <2>1. PICK v \in Nat \ {0} : v = heads[k[2]] + 1
      BY <1>1
    <2> QED
      BY <1>1, <2>1
  <1>8. TypeOK'
    BY <1>5, <1>6, <1>7, SameLayout DEF Inv, TypeOK, storeVars, workVars, sendVars
  <1>9. BaselineOK'
    <2>1. proposals'[k].state = "merged"
      BY <1>4, <1>5
    <2> QED
      BY <2>1, SameLayout DEF Inv, BaselineOK, OriginalImage, storeVars
  <1>10. Clean => Clean'
    <2>1. \A h \in Leaders : Settled(h) => Settled(h)'
      BY <1>4, <1>5 DEF Settled, storeVars
    <2>2. Settled(k) => ~NothingReopened'
      BY <1>1, <1>4, <1>5, SameLayout DEF Settled, NothingReopened
    <2> QED
      BY <2>1, <2>2, SameLayout DEF Clean
  <1> QED
    BY <1>5, <1>8, <1>9, <1>10, PeopleStep

LEMMA EditStep ==
    ASSUME Inv, layout' = layout, NEW c \in Edited, NEW image \in {files[c].image, Other},
           Edit(c, image)
    PROVE  Inv'
  <1> USE DEF Edit
  <1>1. /\ c \in Components /\ layout \in Layouts
        /\ files \in [Components -> Blobs] /\ heads \in [Groups -> Nat \ {0}]
        /\ GroupOf[c] \in Groups
    BY CandidateDevAssumption, LayoutIs DEF Inv, TypeOK
  <1>2. PICK b : b = [image |-> image, version |-> files[c].version + 1]
    OBVIOUS
  <1>3. b \in Blobs /\ b.image = image /\ files' = [files EXCEPT ![c] = b]
    BY <1>1, <1>2 DEF Blobs
  <1>4. heads' \in [Groups -> Nat \ {0}] /\ mishaps' \in Nat
    <2>1. PICK v \in Nat \ {0} : v = heads[GroupOf[c]] + 1
      BY <1>1
    <2>2. heads' = [heads EXCEPT ![GroupOf[c]] = v]
      BY <1>1, <2>1
    <2> QED
      BY <1>1, <2>2 DEF Inv, TypeOK
  <1>5. TypeOK'
    <2>1. files' \in [Components -> Blobs]
      BY <1>1, <1>3
    <2> QED
      BY <1>4, <2>1, SameLayout DEF Inv, TypeOK, storeVars, workVars, sendVars
  <1>6. \A k \in Leaders : ProposalOK(k)'
    BY LeaderIs DEF ProposalOK, workVars, sendVars
  <1>7. NoCandidate => NoCandidate'
    BY <1>1, <1>3, ImagesDiffer DEF NoCandidate
  <1>8. BaselineOK'
    BY <1>7, SameLayout DEF Inv, BaselineOK, OriginalImage, storeVars
  <1>9. Clean => Clean'
    BY <1>7, SameLayout DEF Clean, Settled, NothingReopened, storeVars
  <1> QED
    BY <1>5, <1>6, <1>8, <1>9, PeopleStep DEF ApprovalsStay

-----------------------------------------------------------------------------
(***************************************************************************)
(* The invariant                                                           *)
(***************************************************************************)
LEMMA InvInit == Init => Inv
  <1> SUFFICES ASSUME Init PROVE Inv
    OBVIOUS
  <1> USE DEF Init
  <1>1. Latest = 0
    BY DEF Latest
  <1>2. NoCandidate
    BY ImagesDiffer DEF NoCandidate
  <1>3. TypeOK
    <2>1. layout \in Layouts /\ MaxMishaps \in Nat
      BY CandidateDevAssumption
    <2>2. capture \in Captures /\ restorations \in Seq(Restorations)
      BY DEF Captures, Baselines, HeadsSeen
    <2>3. /\ intents \in [Leaders -> Intents] /\ proposals \in [Leaders -> Proposals]
          /\ files \in [Components -> Blobs]
      BY DEF Intents, NoIntent, Proposals, States, Blobs
    <2>4. tick \in Ticks /\ release \in Releases
      BY DEF Ticks, Releases
    <2> QED
      BY <2>1, <2>2, <2>3, <2>4 DEF TypeOK, Selected, Groups
  <1>4. \A k \in Leaders : IntentOK(k) /\ ProposalOK(k)
    BY DEF IntentOK, ProposalOK, NoIntent
  <1>5. EpochOK /\ TickOK /\ ReleaseOK
    BY <1>1, CandidateDevAssumption DEF EpochOK, TickOK, ReleaseOK, NoTick
  <1>6. BaselineOK
    BY <1>2 DEF BaselineOK
  <1> QED
    BY <1>1, <1>3, <1>4, <1>5, <1>6 DEF Inv

LEMMA InvNext == Inv /\ [Next]_vars => Inv'
  <1> SUFFICES ASSUME Inv, [Next]_vars PROVE Inv'
    OBVIOUS
  <1>1. CASE Next
    <2> layout' = layout
      BY <1>1 DEF Next
    <2>1. CASE Reservation
      BY <2>1, ReserveStep, GiveUpStep, NewCaptureStep, BaselineStep DEF Reservation
    <2>2. CASE Activation
      BY <2>2, DeployStep, ActivationStep, ChildStep, ApplyStep, LookupActivationStep DEF Activation
    <2>3. CASE Restoration
      BY <2>3, RequestStep, SettleStep, PrepareStep, StandStep, AppliedStep, AdmitStep, ProofStep,
         LatchStep, LookupRestorationStep
         DEF Restoration
    <2>4. CASE Release
      BY <2>4, StartReleaseStep, ObserveReleaseStep, CommitReleaseStep, ReleaseFailsStep DEF Release
    <2>5. CASE Sending
      BY <2>5, PostRefStep, PostPullStep, CallEndsStep, ArrivesStep DEF Sending
    <2>6. CASE People
      BY <2>6, MergeStep, CloseStep, ReopenStep, EditStep DEF People
    <2> QED
      BY <1>1, <2>1, <2>2, <2>3, <2>4, <2>5, <2>6 DEF Next
  <1>2. CASE UNCHANGED vars
    <2> USE <1>2 DEF vars, storeVars, workVars, sendVars, gitVars
    <2>1. layout' = layout
      OBVIOUS
    <2>2. TypeOK'
      BY <2>1, SameLayout DEF Inv, TypeOK
    <2>3. \A k \in Leaders : ProposalOK(k)'
      BY LeaderIs DEF ProposalOK
    <2>4. BaselineOK'
      BY <2>1, BaselineStays
    <2>5. Clean => Clean'
      BY <2>1, CleanStays
    <2> QED
      BY <2>1, <2>2, <2>3, <2>4, <2>5, PeopleStep DEF ApprovalsStay
  <1> QED
    BY <1>1, <1>2

LEMMA InvHolds == Spec => []Inv
  BY InvInit, InvNext, PTL DEF Spec

-----------------------------------------------------------------------------
(***************************************************************************)
(* Theorems                                                                *)
(***************************************************************************)

\* Every variable has its type: the batches, proposals and heads of each
\* leader, and what captures, restorations and releases record.
THEOREM TypeCorrect == Spec => []TypeOK
  <1>1. Inv => TypeOK
    BY DEF Inv
  <1> QED
    BY <1>1, InvHolds, PTL

\* The branch of a proposal is asked for at most once, whatever became of the
\* call, the lease and the server (applyDevActivation, tickDevRestoration).
THEOREM AskedForOnce == Spec => []ProposedOnce
  <1>1. Inv => ProposedOnce
    BY LeaderIs DEF ProposalOK, ProposedOnce
  <1> QED
    BY <1>1, InvHolds, PTL

\* A restoration that counts as applied had all its proposals merged after its
\* confirmation (observeRestorationPlan, collectRestorationResults).
THEOREM AppliedIsApproved == Spec => []AppliedWasApproved
  <1>1. Inv => AppliedWasApproved
    BY LatestIs DEF RestorationOK, AppliedWasApproved
  <1> QED
    BY <1>1, InvHolds, PTL

\* When the reservation ended nothing of it can still arrive or be merged, and
\* no file names the candidate, unless people reopened a proposal
\* (releaseAfterRestoration, executeDevReservation).
THEOREM NothingStaysBehind == Spec => []ReleaseIsClean
  <1>1. ASSUME Inv, hold = "released", NEW k \in Leaders PROVE ~Live(k)
    <2>1. Clean
      BY <1>1 DEF Inv, ReleaseOK
    <2>2. ~InFlight(k)
      BY <1>1, <2>1, InFlightIsUnclean DEF InFlight
    <2>3. ~(Open(k) /\ ~proposals[k].reopened)
      BY <1>1, <2>1, ExistsMeansStarted DEF Clean, Settled, Open
    <2> QED
      BY <2>2, <2>3 DEF Live
  <1>2. Inv => ReleaseIsClean
    BY <1>1 DEF ReleaseIsClean, Inv, ReleaseOK, Clean, NoCandidate
  <1> QED
    BY <1>2, InvHolds, PTL

\* A merge only exchanges the captured image and the candidate's, so an image
\* that someone else put into a file is never replaced
\* (knownRestorationBlob, recheckActivationBaseline).
THEOREM ForeignImagesStay == Spec => ForeignImageKept
  <1> DEFINE Kept(c) == files'[c].image # files[c].image /\ files'[c].version = files[c].version
                        => {files[c].image, files'[c].image} = {OriginalImage(c), Candidate}
  <1>1. ASSUME Inv, [Next]_vars, NEW c \in Components PROVE Kept(c)
    <2>1. ASSUME NEW k \in Leaders, Merge(k) PROVE Kept(c)
      <3>1. CASE c \in Changes(k)
        <4>1. Begun(k)
          BY <1>1, <2>1, ExistsMeansStarted DEF Merge
        <4>2. /\ {From(k, c).image, To(k, c)} = {OriginalImage(c), Candidate}
          BY <1>1, <3>1, <4>1, ProposedImages
        <4>3. files[c].image \in {From(k, c).image, To(k, c)}
          BY <2>1, <3>1 DEF Merge
        <4>4. files'[c] = [files[c] EXCEPT !.image = To(k, c)] /\ files[c] \in Blobs
          BY <1>1, <2>1, <3>1 DEF Merge, Inv, TypeOK
        <4>5. files'[c].image = To(k, c)
          BY <4>4 DEF Blobs
        <4> QED
          BY <4>2, <4>3, <4>5
      <3>2. CASE c \notin Changes(k)
        BY <2>1, <3>2 DEF Merge
      <3> QED
        BY <3>1, <3>2
    <2>2. ASSUME NEW d \in Edited, NEW image \in {files[d].image, Other}, Edit(d, image)
          PROVE  Kept(c)
      <3>1. files \in [Components -> Blobs] /\ d \in Components
        BY <1>1, CandidateDevAssumption DEF Inv, TypeOK
      <3>2. CASE c = d
        <4>1. files'[c].version = files[c].version + 1 /\ files[c].version \in Nat
          BY <2>2, <3>1, <3>2 DEF Edit, Blobs
        <4> QED
          BY <4>1
      <3>3. CASE c # d
        BY <2>2, <3>1, <3>3 DEF Edit
      <3> QED
        BY <3>2, <3>3
    <2>3. CASE files' = files
      BY <2>3
    <2>4. CASE People
      BY <2>1, <2>2, <2>3, <2>4 DEF People, Close, Reopen
    <2>5. CASE Reservation
      BY <2>3, <2>5 DEF Reservation, reserve_candidate_dev, release_candidate_dev,
         capture_candidate_dev_baseline, tickDevBaseline, gitVars
    <2>6. CASE Activation
      BY <2>3, <2>6 DEF Activation, deploy_candidate_dev, tickDevActivation, InspectChild,
         BlockChild, applyDevActivation, LookupActivation, waitDevActivationGroup, gitVars
    <2>7. CASE Restoration
      BY <2>3, <2>7 DEF Restoration, request_candidate_dev_restoration, SettlingEnds, SettleEffects,
         prepareRestorationPlan, ProposalsStand, markRestorationUnapproved, GitOpsApplied,
         confirm_candidate_dev_restoration, AdmitConfirmation, verify_candidate_dev_restoration,
         tickRestorationVerification, latchRestorationSend, LookupRestoration, gitVars
    <2>8. CASE Release
      BY <2>3, <2>8 DEF Release, release_candidate_dev_after_restoration, ObserveRelease,
         CommitRelease, ReleaseFails, gitVars
    <2>9. CASE Sending
      BY <2>3, <2>9 DEF Sending, PostRef, PostPull, CallEnds, Arrives, gitVars
    <2>10. CASE UNCHANGED vars
      BY <2>3, <2>10 DEF vars, gitVars
    <2> QED
      BY <1>1, <2>4, <2>5, <2>6, <2>7, <2>8, <2>9, <2>10 DEF Next
  <1>2. Inv /\ [Next]_vars => [\A c \in Components : Kept(c)]_vars
    BY <1>1
  <1> QED
    BY <1>2, InvHolds, PTL DEF Spec, ForeignImageKept

===============================================================================
