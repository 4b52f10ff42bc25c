------------------------ MODULE WorkerExecutionProofs ------------------------
(***************************************************************************)
(* Proofs about the worker protocol and about the check publication and    *)
(* the native delivery that are composed with it.                          *)
(*                                                                         *)
(* Part 1 is about WorkerExecution, for every set of keys, workers and     *)
(* capabilities, every budget, lease length and bound of the clock.        *)
(*                                                                         *)
(* Part 2 is about CheckPublication, for every set of servers, every       *)
(* lease, deadline and budget and any number of faults.  The publication   *)
(* leaves the protocol intact: every behaviour of the composed             *)
(* specification is one of WorkerExecution, so that everything proved in   *)
(* part 1 holds with checks.  On top of the protocol's invariant rests the *)
(* one of the publication: what it stores, carries and shows is true of    *)
(* the job for ever, and the permission to create a check is in one place  *)
(* only.                                                                   *)
(*                                                                         *)
(* Part 3 is about NativeDelivery, for every set of deliveries, requests   *)
(* and processes and any number of mishaps.  A publication succeeds        *)
(* without the report of its worker when an operator reconciles it, which  *)
(* the protocol alone never does: the invariant of part 1 is not kept      *)
(* here, and part 3 states what the protocol's steps still leave alone.    *)
(***************************************************************************)
EXTENDS CheckPublication, NativeDelivery, FiniteSetTheorems, TLAPS

(***************************************************************************)
(* Part 1: the worker protocol                                             *)
(***************************************************************************)

-----------------------------------------------------------------------------
(***************************************************************************)
(* The inductive invariant                                                 *)
(***************************************************************************)

\* What a job satisfies by itself.
JobOK(job) ==
    /\ job.fence <= job.maxAttempts
    /\ job.status = "QUEUED" => job.fence < job.maxAttempts
    /\ job.cancellationRequested => job.status \in {Uncertain, "CANCELLED", "FAILED"}

\* What ties the attempt that carries the job's fence to the job.
CurrentOK(a, job) ==
    /\ job.status \in {"CLAIMED", "RUNNING", "SUCCEEDED", "CANCELLED"} => a.status = job.status
    /\ job.status \in {"QUEUED", "DEADLINE_EXCEEDED"} => a.status = "EXPIRED"
    /\ job.status = "FAILED" => a.status \in {"EXPIRED", "FAILED"}
    /\ job.status = Uncertain => a.status \in {"EXPIRED", Uncertain}
    /\ job.status = "SUCCEEDED" => a.report = "PASSED"
    /\ a.report # None => job.status = Verdict(a.report)

\* What ties any attempt to its job.
AttemptOK(a, job) ==
    /\ a.fence \in 1..job.fence
    /\ a.fence < job.fence => a.status = "EXPIRED" /\ a.report = None
    /\ a.fence = job.fence => CurrentOK(a, job)

UniqueKeys ==
    \A j, k \in Jobs : workerJobs[j].key = workerJobs[k].key => j = k

JobsOK ==
    \A j \in Jobs : JobOK(workerJobs[j]) /\ operations[j] = MirrorOf(workerJobs[j])

AttemptsOK ==
    \A i \in Attempts :
        /\ workerAttempts[i].job \in Jobs
        /\ AttemptOK(workerAttempts[i], workerJobs[workerAttempts[i].job])

\* A fence is given out once.
UniqueFences ==
    \A i, k \in Attempts :
        /\ workerAttempts[i].job = workerAttempts[k].job
        /\ workerAttempts[i].fence = workerAttempts[k].fence
        => i = k

\* A job somebody holds, held or passed has the attempt to show for it.
HeldByAttempt ==
    \A j \in Jobs : workerJobs[j].status \in {"CLAIMED", "RUNNING", "SUCCEEDED"} =>
        \E i \in Attempts : /\ workerAttempts[i].job = j
                            /\ workerAttempts[i].fence = workerJobs[j].fence

\* A start was accepted under the fence the job still has, and the job has not
\* been in the queue since.
StartsOK ==
    /\ \A e \in starts :
          /\ e.job \in Jobs
          /\ e.fence = workerJobs[e.job].fence
          /\ workerJobs[e.job].status \notin {"QUEUED", "CLAIMED"}
    /\ \A j \in Jobs : workerJobs[j].status = "RUNNING" =>
          [job |-> j, fence |-> workerJobs[j].fence] \in starts
    /\ \A i \in Attempts : workerAttempts[i].report # None =>
          [job |-> workerAttempts[i].job, fence |-> workerAttempts[i].fence] \in starts

Inv ==
    /\ TypeOK
    /\ UniqueKeys
    /\ JobsOK
    /\ AttemptsOK
    /\ UniqueFences
    /\ HeldByAttempt
    /\ StartsOK
    /\ QuarantineStrandsNothing

-----------------------------------------------------------------------------
(***************************************************************************)
(* Sequences and helpers                                                   *)
(***************************************************************************)

\* Replacing one element of a sequence keeps it a sequence of the same length.
LEMMA SeqReplace ==
    ASSUME NEW S, NEW s \in Seq(S), NEW i \in DOMAIN s, NEW e \in S
    PROVE  /\ [s EXCEPT ![i] = e] \in Seq(S)
           /\ Len([s EXCEPT ![i] = e]) = Len(s)
           /\ DOMAIN [s EXCEPT ![i] = e] = DOMAIN s
  OBVIOUS

\* A function on the indices of a sequence, with values in S, is a sequence of
\* the same length.
LEMMA SeqMap ==
    ASSUME NEW T, NEW s \in Seq(T), NEW S, NEW t \in [DOMAIN s -> S]
    PROVE  t \in Seq(S) /\ Len(t) = Len(s) /\ DOMAIN t = DOMAIN s
  OBVIOUS

\* What Append adds and what it leaves alone.
LEMMA SeqAppend ==
    ASSUME NEW S, NEW s \in Seq(S), NEW e \in S
    PROVE  /\ Append(s, e) \in Seq(S)
           /\ Len(Append(s, e)) = Len(s) + 1
           /\ DOMAIN Append(s, e) = DOMAIN s \union {Len(s) + 1}
           /\ \A i \in DOMAIN s : Append(s, e)[i] = s[i]
           /\ Append(s, e)[Len(s) + 1] = e
           /\ Len(s) + 1 \notin DOMAIN s
  OBVIOUS

\* Fences being unique, the first attempt with the job's fence is the only one.
LEMMA CurrentIsTheOne ==
    ASSUME TypeOK, UniqueFences, NEW j
    PROVE  currentWorkerAttempt(j) =
             {i \in Attempts : /\ workerAttempts[i].job = j
                               /\ workerAttempts[i].fence = workerJobs[j].fence}
  <1>1. \A i \in Attempts : i \in Nat /\ i <= i
    BY DEF Attempts, TypeOK
  <1>2. \A i, k \in Attempts :
          (/\ workerAttempts[i].job = j
           /\ workerAttempts[i].fence = workerJobs[j].fence
           /\ workerAttempts[k].job = j
           /\ workerAttempts[k].fence = workerJobs[j].fence) => i = k
    BY DEF UniqueFences
  <1> QED
    BY <1>1, <1>2, Zenon DEF currentWorkerAttempt

\* The mirror of a job is an operation record.
LEMMA MirrorType ==
    ASSUME NEW job \in Job
    PROVE  MirrorOf(job) \in Operation
  BY DEF MirrorOf, Operation, Job, JobStatus, Terminal, Uncertain

-----------------------------------------------------------------------------
(***************************************************************************)
(* The effect of a transaction on one job                                  *)
(***************************************************************************)

\* Write changes one job, its operation and its current attempt's status, and
\* keeps the types.
LEMMA WriteEffect ==
    ASSUME TypeOK, UniqueFences, NEW j \in Jobs, NEW job \in Job,
           NEW a \in AttemptStatus, Write(j, job, a)
    PROVE  /\ TypeOK'
           /\ Jobs' = Jobs /\ Attempts' = Attempts
           /\ \A k \in Jobs : workerJobs'[k] = IF k = j THEN job ELSE workerJobs[k]
           /\ \A k \in Jobs : operations'[k] = IF k = j THEN MirrorOf(job)
                                               ELSE operations[k]
           /\ \A i \in Attempts : workerAttempts'[i] =
                 IF /\ workerAttempts[i].job = j
                    /\ workerAttempts[i].fence = workerJobs[j].fence
                 THEN [workerAttempts[i] EXCEPT !.status = a] ELSE workerAttempts[i]
           /\ starts' = starts /\ quarantined' = quarantined /\ clock' = clock
  <1>1. /\ workerJobs' = [workerJobs EXCEPT ![j] = job]
        /\ operations' = [operations EXCEPT ![j] = MirrorOf(job)]
        /\ starts' = starts /\ quarantined' = quarantined /\ clock' = clock
    BY DEF Write, workerAudit
  <1>2. workerAttempts' = [i \in Attempts |->
                 IF /\ workerAttempts[i].job = j
                    /\ workerAttempts[i].fence = workerJobs[j].fence
                 THEN [workerAttempts[i] EXCEPT !.status = a] ELSE workerAttempts[i]]
    <2>1. workerAttempts' = WithAttemptStatus(j, a)
      BY DEF Write
    <2> QED
      BY <2>1, CurrentIsTheOne DEF WithAttemptStatus
  <1>3. /\ workerJobs' \in Seq(Job) /\ Len(workerJobs') = Len(workerJobs)
        /\ Jobs' = Jobs
    BY <1>1, SeqReplace DEF TypeOK, Jobs
  <1>4. /\ operations' \in Seq(Operation) /\ Len(operations') = Len(operations)
        /\ j \in DOMAIN operations
    <2>1. j \in DOMAIN operations
      BY DEF TypeOK, Jobs
    <2> QED
      BY <1>1, <2>1, MirrorType, SeqReplace DEF TypeOK
  <1>5. /\ workerAttempts' \in Seq(Attempt)
        /\ Attempts' = Attempts
    <2>1. workerAttempts' \in [DOMAIN workerAttempts -> Attempt]
      <3>1. \A i \in Attempts : /\ workerAttempts[i] \in Attempt
                                /\ [workerAttempts[i] EXCEPT !.status = a] \in Attempt
        <4>1. \A att \in Attempt : [att EXCEPT !.status = a] \in Attempt
          BY DEF Attempt
        <4>2. \A i \in Attempts : workerAttempts[i] \in Attempt
          BY DEF TypeOK, Attempts
        <4> QED
          BY <4>1, <4>2
      <3> QED
        BY <1>2, <3>1 DEF Attempts
    <2> QED
      BY <2>1, SeqMap DEF TypeOK, Attempts
  <1>6. TypeOK'
    BY <1>1, <1>3, <1>4, <1>5 DEF TypeOK
  <1>7. \A k \in Jobs : k \in DOMAIN operations /\ k \in DOMAIN workerJobs
    BY DEF TypeOK, Jobs
  <1> QED
    BY <1>1, <1>2, <1>3, <1>5, <1>6, <1>7

\* Write preserves the invariant when the job it writes is not handed out or
\* passed and fits the attempt's new status.
LEMMA WritePreserves ==
    ASSUME Inv, NEW j \in Jobs, NEW job \in Job, NEW a \in AttemptStatus,
           Write(j, job, a),
           job.key = workerJobs[j].key,
           job.capability = workerJobs[j].capability,
           job.fence = workerJobs[j].fence,
           job.status \notin {"CLAIMED", "RUNNING", "SUCCEEDED"},
           job.status = "QUEUED" => workerJobs[j].status = "CLAIMED",
           workerJobs[j].status = Uncertain => job.status \in Terminal \union {Uncertain},
           workerJobs[j].status \notin Terminal,
           JobOK(job),
           \A att \in Attempt : att.report = None =>
              CurrentOK([att EXCEPT !.status = a], job)
    PROVE  Inv'
  <1> USE DEF Inv
  <1>1. /\ TypeOK'
        /\ Jobs' = Jobs /\ Attempts' = Attempts
        /\ \A k \in Jobs : workerJobs'[k] = IF k = j THEN job ELSE workerJobs[k]
        /\ \A k \in Jobs : operations'[k] = IF k = j THEN MirrorOf(job)
                                            ELSE operations[k]
        /\ \A i \in Attempts : workerAttempts'[i] =
              IF /\ workerAttempts[i].job = j
                 /\ workerAttempts[i].fence = workerJobs[j].fence
              THEN [workerAttempts[i] EXCEPT !.status = a] ELSE workerAttempts[i]
        /\ starts' = starts /\ quarantined' = quarantined
    BY WriteEffect
  <1>2. UniqueKeys'
    BY <1>1 DEF UniqueKeys
  <1>3. JobsOK'
    BY <1>1 DEF JobsOK
  <1>t. \A i \in Attempts : workerAttempts[i] \in Attempt
    BY DEF TypeOK, Attempts
  <1>r. \A i \in Attempts :
          /\ workerAttempts[i].job = j
          /\ workerAttempts[i].fence = workerJobs[j].fence
          => workerAttempts[i].report = None
    BY <1>t DEF AttemptsOK, AttemptOK, CurrentOK, Verdict, Terminal
  <1>s. \A i \in Attempts : /\ workerAttempts'[i].job = workerAttempts[i].job
                            /\ workerAttempts'[i].fence = workerAttempts[i].fence
                            /\ workerAttempts'[i].report = workerAttempts[i].report
    BY <1>1, <1>t DEF Attempt
  <1>4. AttemptsOK'
    <2> SUFFICES ASSUME NEW i \in Attempts
                 PROVE  /\ workerAttempts'[i].job \in Jobs
                        /\ AttemptOK(workerAttempts'[i],
                                     workerJobs'[workerAttempts'[i].job])
      BY <1>1 DEF AttemptsOK
    <2>1. CASE workerAttempts[i].job # j
      BY <1>1, <2>1 DEF AttemptsOK
    <2>2. CASE /\ workerAttempts[i].job = j
               /\ workerAttempts[i].fence = workerJobs[j].fence
      <3>1. workerAttempts'[i] = [workerAttempts[i] EXCEPT !.status = a]
        BY <1>1, <2>2
      <3>2. CurrentOK(workerAttempts'[i], job)
        BY <3>1, <2>2, <1>t, <1>r
      <3> QED
        BY <1>1, <1>s, <2>2, <3>2 DEF AttemptsOK, AttemptOK
    <2>3. CASE /\ workerAttempts[i].job = j
               /\ workerAttempts[i].fence # workerJobs[j].fence
      <3>1. workerAttempts'[i] = workerAttempts[i] /\ workerJobs'[j] = job
        BY <1>1, <2>3
      <3>2. AttemptOK(workerAttempts[i], workerJobs[j])
        BY <2>3 DEF AttemptsOK
      <3>3. AttemptOK(workerAttempts[i], job)
        BY <2>3, <3>2 DEF AttemptOK
      <3> QED
        BY <2>3, <3>1, <3>3
    <2> QED
      BY <2>1, <2>2, <2>3
  <1>5. UniqueFences'
    BY <1>1, <1>s DEF UniqueFences
  <1>6. HeldByAttempt'
    BY <1>1, <1>s DEF HeldByAttempt
  <1>7. StartsOK'
    BY <1>1, <1>s DEF StartsOK, Uncertain
  <1>8. QuarantineStrandsNothing'
    BY <1>1 DEF QuarantineStrandsNothing, Terminal, Uncertain, TypeOK, Jobs, Job, JobStatus
  <1> QED
    BY <1>1, <1>2, <1>3, <1>4, <1>5, <1>6, <1>7, <1>8

\* WriteAttempt changes one job, its operation and one attempt, and keeps the
\* types.
LEMMA WriteAttemptEffect ==
    ASSUME TypeOK, NEW i \in Attempts, NEW j \in Jobs, j = workerAttempts[i].job,
           NEW job \in Job, NEW attempt \in Attempt, NEW started \in SUBSET Event,
           WriteAttempt(i, job, attempt, started)
    PROVE  /\ TypeOK'
           /\ Jobs' = Jobs /\ Attempts' = Attempts
           /\ \A k \in Jobs : workerJobs'[k] = IF k = j THEN job ELSE workerJobs[k]
           /\ \A k \in Jobs : operations'[k] = IF k = j THEN MirrorOf(job)
                                               ELSE operations[k]
           /\ \A k \in Attempts : workerAttempts'[k] = IF k = i THEN attempt
                                                       ELSE workerAttempts[k]
           /\ starts' = starts \union started
           /\ quarantined' = quarantined /\ clock' = clock
  <1>1. /\ workerJobs' = [workerJobs EXCEPT ![j] = job]
        /\ operations' = [operations EXCEPT ![j] = MirrorOf(job)]
        /\ workerAttempts' = [workerAttempts EXCEPT ![i] = attempt]
        /\ starts' = starts \union started
        /\ quarantined' = quarantined /\ clock' = clock
    BY DEF WriteAttempt, workerAudit
  <1>2. /\ workerJobs' \in Seq(Job) /\ Len(workerJobs') = Len(workerJobs)
        /\ Jobs' = Jobs
    BY <1>1, SeqReplace DEF TypeOK, Jobs
  <1>3. /\ operations' \in Seq(Operation) /\ Len(operations') = Len(operations)
    <2>1. j \in DOMAIN operations
      BY DEF TypeOK, Jobs
    <2> QED
      BY <1>1, <2>1, MirrorType, SeqReplace DEF TypeOK
  <1>4. workerAttempts' \in Seq(Attempt) /\ Attempts' = Attempts
    BY <1>1, SeqReplace DEF TypeOK, Attempts
  <1>5. TypeOK'
    BY <1>1, <1>2, <1>3, <1>4 DEF TypeOK
  <1>6. \A k \in Jobs : k \in DOMAIN operations /\ k \in DOMAIN workerJobs
    BY DEF TypeOK, Jobs
  <1>7. \A k \in Attempts : k \in DOMAIN workerAttempts
    BY DEF Attempts
  <1> QED
    BY <1>1, <1>2, <1>4, <1>5, <1>6, <1>7

\* WriteAttempt preserves the invariant when job and attempt keep their
\* identities and fit each other, and an execution the job has begun is, or is
\* now, in the log.
LEMMA WriteAttemptPreserves ==
    ASSUME Inv, NEW i \in Attempts, NEW j \in Jobs, j = workerAttempts[i].job,
           workerAttempts[i].fence = workerJobs[j].fence,
           ~(quarantined /\ workerJobs[j].capability \in Native),
           NEW job \in Job, NEW attempt \in Attempt, NEW started \in SUBSET Event,
           WriteAttempt(i, job, attempt, started),
           job.key = workerJobs[j].key,
           job.capability = workerJobs[j].capability,
           job.fence = workerJobs[j].fence,
           attempt.job = j, attempt.fence = job.fence,
           JobOK(job), CurrentOK(attempt, job),
           job.status = "CLAIMED" => workerJobs[j].status = "CLAIMED",
           job.status # "QUEUED",
           started \subseteq {[job |-> j, fence |-> job.fence]},
           started # {} => job.status # "CLAIMED",
           job.status = "RUNNING" \/ attempt.report # None =>
              [job |-> j, fence |-> job.fence] \in starts \union started
    PROVE  Inv'
  <1> USE DEF Inv
  <1>1. /\ TypeOK'
        /\ Jobs' = Jobs /\ Attempts' = Attempts
        /\ \A k \in Jobs : workerJobs'[k] = IF k = j THEN job ELSE workerJobs[k]
        /\ \A k \in Jobs : operations'[k] = IF k = j THEN MirrorOf(job)
                                            ELSE operations[k]
        /\ \A k \in Attempts : workerAttempts'[k] = IF k = i THEN attempt
                                                    ELSE workerAttempts[k]
        /\ starts' = starts \union started
        /\ quarantined' = quarantined
    BY WriteAttemptEffect
  <1>2. UniqueKeys'
    BY <1>1 DEF UniqueKeys
  <1>3. JobsOK'
    BY <1>1 DEF JobsOK
  <1>s. \A k \in Attempts : /\ workerAttempts'[k].job = workerAttempts[k].job
                            /\ workerAttempts'[k].fence = workerAttempts[k].fence
    BY <1>1
  <1>4. AttemptsOK'
    <2> SUFFICES ASSUME NEW k \in Attempts
                 PROVE  /\ workerAttempts'[k].job \in Jobs
                        /\ AttemptOK(workerAttempts'[k],
                                     workerJobs'[workerAttempts'[k].job])
      BY <1>1 DEF AttemptsOK
    <2>1. CASE k = i
      <3>1. AttemptOK(workerAttempts[i], workerJobs[j])
        BY DEF AttemptsOK
      <3>2. AttemptOK(attempt, job)
        BY <3>1 DEF AttemptOK
      <3> QED
        BY <1>1, <2>1, <3>2
    <2>2. CASE k # i /\ workerAttempts[k].job = j
      <3>1. AttemptOK(workerAttempts[k], workerJobs[j])
        BY <2>2 DEF AttemptsOK
      <3>2. workerAttempts[k].fence # workerJobs[j].fence
        BY <2>2 DEF UniqueFences
      <3>3. AttemptOK(workerAttempts[k], job)
        BY <3>1, <3>2 DEF AttemptOK
      <3> QED
        BY <1>1, <2>2, <3>3
    <2>3. CASE workerAttempts[k].job # j
      BY <1>1, <2>3 DEF AttemptsOK
    <2> QED
      BY <2>1, <2>2, <2>3
  <1>5. UniqueFences'
    BY <1>1, <1>s DEF UniqueFences
  <1>6. HeldByAttempt'
    BY <1>1, <1>s DEF HeldByAttempt
  <1>7. StartsOK'
    BY <1>1, <1>s DEF StartsOK
  <1>8. QuarantineStrandsNothing'
    BY <1>1 DEF QuarantineStrandsNothing
  <1> QED
    BY <1>1, <1>2, <1>3, <1>4, <1>5, <1>6, <1>7, <1>8

-----------------------------------------------------------------------------
(***************************************************************************)
(* One lemma per handler                                                   *)
(***************************************************************************)

\* Job records change field by field.
LEMMA JobFields ==
    ASSUME NEW job \in Job, NEW st \in JobStatus
    PROVE  /\ [job EXCEPT !.status = st] \in Job
           /\ [job EXCEPT !.status = st].key = job.key
           /\ [job EXCEPT !.status = st].capability = job.capability
           /\ [job EXCEPT !.status = st].fence = job.fence
           /\ [job EXCEPT !.status = st].deadline = job.deadline
           /\ [job EXCEPT !.status = st].maxAttempts = job.maxAttempts
           /\ [job EXCEPT !.status = st].status = st
           /\ [job EXCEPT !.status = st].cancellationRequested
                 = job.cancellationRequested
  BY DEF Job

\* What a status of an attempt without a report has to be to fit its job.
LEMMA Unreported ==
    ASSUME NEW job \in Job, NEW a \in AttemptStatus, NEW att \in Attempt,
           att.report = None,
           \/ job.status = "CANCELLED" /\ a = "CANCELLED"
           \/ job.status = "FAILED" /\ a \in {"FAILED", "EXPIRED"}
           \/ job.status = Uncertain /\ a \in {Uncertain, "EXPIRED"}
           \/ job.status \in {"QUEUED", "DEADLINE_EXCEEDED"} /\ a = "EXPIRED"
    PROVE  CurrentOK([att EXCEPT !.status = a], job)
  BY DEF CurrentOK, Attempt, Uncertain

\* Typing of the jobs and attempts at hand.
LEMMA Members ==
    ASSUME TypeOK
    PROVE  /\ \A j \in Jobs : workerJobs[j] \in Job
           /\ \A i \in Attempts : workerAttempts[i] \in Attempt
  BY DEF TypeOK, Jobs, Attempts

\* Cancelling keeps the invariant.
LEMMA CancelPreserves ==
    ASSUME Inv, NEW j \in Jobs, cancel_worker_job(j)
    PROVE  Inv'
  <1> DEFINE st == IF workerJobs[j].status \in {"RUNNING", Uncertain} THEN Uncertain
                   ELSE "CANCELLED"
             job == [workerJobs[j] EXCEPT !.status = st, !.cancellationRequested = TRUE]
  <1>1. workerJobs[j] \in Job
    BY Members DEF Inv
  <1>2. /\ workerJobs[j].status \notin Terminal
        /\ Write(j, job, job.status)
    BY <1>1 DEF cancel_worker_job
  <1>3. /\ job \in Job /\ job.status = st /\ job.key = workerJobs[j].key
        /\ job.capability = workerJobs[j].capability
        /\ job.fence = workerJobs[j].fence
        /\ job.maxAttempts = workerJobs[j].maxAttempts
        /\ job.cancellationRequested = TRUE
    BY <1>1 DEF Job, JobStatus, Terminal, Uncertain
  <1>4. st \in {Uncertain, "CANCELLED"} /\ st \in AttemptStatus
    BY DEF AttemptStatus, Uncertain
  <1>5. JobOK(workerJobs[j])
    BY DEF Inv, JobsOK
  <1>6. JobOK(job)
    BY <1>3, <1>4, <1>5 DEF JobOK, Uncertain
  <1>7. \A att \in Attempt : att.report = None => CurrentOK([att EXCEPT !.status = st], job)
    BY <1>3, <1>4, Unreported
  <1>8. /\ job.status \notin {"CLAIMED", "RUNNING", "SUCCEEDED", "QUEUED"}
        /\ job.status \in Terminal \union {Uncertain}
    BY <1>3, <1>4 DEF Uncertain, Terminal
  <1> HIDE DEF st, job
  <1> QED
    BY <1>2, <1>3, <1>4, <1>6, <1>7, <1>8, WritePreserves

\* Reconciling keeps the invariant.
LEMMA ReconcilePreserves ==
    ASSUME Inv, NEW j \in Jobs, NEW outcome \in {"FAILED", "CANCELLED"},
           reconcile_worker_job(j, outcome)
    PROVE  Inv'
  <1> DEFINE job == [workerJobs[j] EXCEPT !.status = outcome]
  <1>1. workerJobs[j] \in Job
    BY Members DEF Inv
  <1>2. workerJobs[j].status = Uncertain /\ Write(j, job, outcome)
    BY DEF reconcile_worker_job
  <1>3. /\ job \in Job /\ job.status = outcome /\ job.key = workerJobs[j].key
        /\ job.capability = workerJobs[j].capability
        /\ job.fence = workerJobs[j].fence
        /\ job.maxAttempts = workerJobs[j].maxAttempts
        /\ job.cancellationRequested = workerJobs[j].cancellationRequested
    BY <1>1 DEF Job, JobStatus, Terminal
  <1>4. outcome \in AttemptStatus
    BY DEF AttemptStatus
  <1>5. JobOK(workerJobs[j])
    BY DEF Inv, JobsOK
  <1>6. JobOK(job)
    BY <1>3, <1>5 DEF JobOK, Uncertain
  <1>7. \A att \in Attempt : att.report = None
            => CurrentOK([att EXCEPT !.status = outcome], job)
    BY <1>3, <1>4, Unreported
  <1>8. /\ job.status \notin {"CLAIMED", "RUNNING", "SUCCEEDED", "QUEUED"}
        /\ job.status \in Terminal \union {Uncertain}
        /\ workerJobs[j].status \notin Terminal
    BY <1>2, <1>3 DEF Uncertain, Terminal
  <1> HIDE DEF job
  <1> QED
    BY <1>2, <1>3, <1>4, <1>6, <1>7, <1>8, WritePreserves

\* Where recovery sends a job that is due.
LEMMA Recovery ==
    ASSUME NEW j, workerJobs[j].status \in {"QUEUED", "CLAIMED", "RUNNING"}
    PROVE  /\ RecoveredStatus(j) \in {"QUEUED", "FAILED", "DEADLINE_EXCEEDED", Uncertain}
           /\ RecoveredStatus(j) = "QUEUED" =>
                 /\ workerJobs[j].status = "CLAIMED"
                 /\ workerJobs[j].fence < workerJobs[j].maxAttempts
                 /\ clock < workerJobs[j].deadline
           /\ workerJobs[j].status = "RUNNING" => RecoveredStatus(j) = Uncertain
  BY DEF RecoveredStatus, Uncertain

\* Recovering a job keeps the invariant.
LEMMA RecoverPreserves ==
    ASSUME Inv, NEW j \in Jobs, recoverWorker(j)
    PROVE  Inv'
  <1> DEFINE st == RecoveredStatus(j)
             job == [workerJobs[j] EXCEPT !.status = st]
  <1>1. workerJobs[j] \in Job
    BY Members DEF Inv
  <1>2. /\ workerJobs[j].status \in {"QUEUED", "CLAIMED", "RUNNING"}
        /\ Write(j, job, "EXPIRED")
    BY DEF recoverWorker, Due
  <1>3. /\ st \in {"QUEUED", "FAILED", "DEADLINE_EXCEEDED", Uncertain}
        /\ st = "QUEUED" => /\ workerJobs[j].status = "CLAIMED"
                            /\ workerJobs[j].fence < workerJobs[j].maxAttempts
    BY <1>2, Recovery
  <1>4. st \in JobStatus
    BY <1>3 DEF JobStatus, Terminal, Uncertain
  <1>5. /\ job \in Job /\ job.status = st /\ job.key = workerJobs[j].key
        /\ job.capability = workerJobs[j].capability
        /\ job.fence = workerJobs[j].fence
        /\ job.maxAttempts = workerJobs[j].maxAttempts
        /\ job.cancellationRequested = workerJobs[j].cancellationRequested
    BY <1>1, <1>4, JobFields
  <1>6. JobOK(workerJobs[j])
    BY DEF Inv, JobsOK
  <1>7. JobOK(job)
    BY <1>2, <1>3, <1>5, <1>6 DEF JobOK, Uncertain
  <1>8. "EXPIRED" \in AttemptStatus
    BY DEF AttemptStatus
  <1>9. \A att \in Attempt : att.report = None
            => CurrentOK([att EXCEPT !.status = "EXPIRED"], job)
    BY <1>3, <1>5, <1>8, Unreported
  <1>10. /\ job.status \notin {"CLAIMED", "RUNNING", "SUCCEEDED"}
         /\ workerJobs[j].status # Uncertain
         /\ workerJobs[j].status \notin Terminal
         /\ job.status = "QUEUED" => workerJobs[j].status = "CLAIMED"
    BY <1>2, <1>3, <1>5 DEF Uncertain, Terminal
  <1> HIDE DEF st, job
  <1> QED
    BY <1>2, <1>5, <1>7, <1>8, <1>9, <1>10, WritePreserves

\* What an admitted call may rely on.
LEMMA AdmittedCall ==
    ASSUME Inv, NEW i \in Attempts, Admitted(i)
    PROVE  LET j == workerAttempts[i].job IN
           /\ j \in Jobs /\ workerJobs[j] \in Job /\ workerAttempts[i] \in Attempt
           /\ workerAttempts[i].fence = workerJobs[j].fence
           /\ ~(quarantined /\ workerJobs[j].capability \in Native)
           /\ clock < workerAttempts[i].leaseUntil
           /\ ~workerJobs[j].cancellationRequested
           /\ workerJobs[j].status \notin Terminal \union {Uncertain}
           /\ JobOK(workerJobs[j])
           /\ CurrentOK(workerAttempts[i], workerJobs[j])
           /\ workerAttempts[i].report = None
  <1> DEFINE j == workerAttempts[i].job
  <1>1. j \in Jobs /\ AttemptOK(workerAttempts[i], workerJobs[j])
    BY DEF Inv, AttemptsOK
  <1>2. workerJobs[j] \in Job /\ workerAttempts[i] \in Attempt
    BY <1>1, Members DEF Inv
  <1>3. /\ workerAttempts[i].fence = workerJobs[j].fence
        /\ ~(quarantined /\ workerJobs[j].capability \in Native)
        /\ clock < workerAttempts[i].leaseUntil
        /\ ~workerJobs[j].cancellationRequested
        /\ workerJobs[j].status \notin Terminal \union {Uncertain}
    BY DEF Admitted, Owned
  <1>4. CurrentOK(workerAttempts[i], workerJobs[j])
    BY <1>1, <1>3 DEF AttemptOK
  <1>5. workerAttempts[i].report = None
    BY <1>3, <1>4 DEF CurrentOK, Verdict, Terminal
  <1>6. JobOK(workerJobs[j])
    BY <1>1 DEF Inv, JobsOK
  <1> QED
    BY <1>1, <1>2, <1>3, <1>4, <1>5, <1>6

\* Starting keeps the invariant.
LEMMA StartPreserves ==
    ASSUME Inv, NEW i \in Attempts, StartWorker(i)
    PROVE  Inv'
  <1> DEFINE j == workerAttempts[i].job
             job == [workerJobs[j] EXCEPT !.status = "RUNNING"]
             attempt == [workerAttempts[i] EXCEPT !.status = "RUNNING"]
             started == {[job |-> j, fence |-> workerJobs[j].fence]}
  <1>1. /\ Admitted(i) /\ workerJobs[j].status = "CLAIMED"
        /\ WriteAttempt(i, job, attempt, started)
    BY DEF StartWorker
  <1>2. /\ j \in Jobs /\ workerJobs[j] \in Job /\ workerAttempts[i] \in Attempt
        /\ workerAttempts[i].fence = workerJobs[j].fence
        /\ ~(quarantined /\ workerJobs[j].capability \in Native)
        /\ ~workerJobs[j].cancellationRequested
        /\ JobOK(workerJobs[j])
        /\ workerAttempts[i].report = None
    BY <1>1, AdmittedCall
  <1>3. "RUNNING" \in JobStatus /\ "RUNNING" \in AttemptStatus
    BY DEF JobStatus, AttemptStatus
  <1>4. /\ job \in Job /\ job.status = "RUNNING" /\ job.key = workerJobs[j].key
        /\ job.capability = workerJobs[j].capability
        /\ job.fence = workerJobs[j].fence
        /\ job.maxAttempts = workerJobs[j].maxAttempts
        /\ job.cancellationRequested = workerJobs[j].cancellationRequested
    BY <1>2, <1>3, JobFields
  <1>5. /\ attempt \in Attempt /\ attempt.job = j /\ attempt.fence = job.fence
        /\ attempt.status = "RUNNING" /\ attempt.report = None
    BY <1>2, <1>3, <1>4 DEF Attempt
  <1>6. JobOK(job)
    BY <1>2, <1>4 DEF JobOK
  <1>7. CurrentOK(attempt, job)
    BY <1>4, <1>5 DEF CurrentOK, Uncertain
  <1>8. started \in SUBSET Event
    BY <1>2 DEF Event, Attempt, Job
  <1>9. /\ started \subseteq {[job |-> j, fence |-> job.fence]}
        /\ [job |-> j, fence |-> job.fence] \in starts \union started
    BY <1>4
  <1> HIDE DEF j, job, attempt, started
  <1> QED
    BY <1>1, <1>2, <1>4, <1>5, <1>6, <1>7, <1>8, <1>9, WriteAttemptPreserves DEF j

\* A heartbeat keeps the invariant.
LEMMA HeartbeatPreserves ==
    ASSUME Inv, NEW i \in Attempts, HeartbeatWorker(i)
    PROVE  Inv'
  <1> DEFINE j == workerAttempts[i].job
             job == workerJobs[j]
             attempt == [workerAttempts[i] EXCEPT !.leaseUntil = LeaseEnd(j)]
  <1>1. /\ Admitted(i) /\ job.status \in {"CLAIMED", "RUNNING"}
        /\ WriteAttempt(i, job, attempt, {})
    BY DEF HeartbeatWorker
  <1>2. /\ j \in Jobs /\ job \in Job /\ workerAttempts[i] \in Attempt
        /\ workerAttempts[i].fence = job.fence
        /\ ~(quarantined /\ job.capability \in Native)
        /\ JobOK(job)
        /\ CurrentOK(workerAttempts[i], job)
        /\ workerAttempts[i].report = None
    BY <1>1, AdmittedCall
  <1>3. LeaseEnd(j) \in Nat
    BY <1>2, WorkerAssumption DEF LeaseEnd, Earlier, Inv, TypeOK, Job
  <1>4. /\ attempt \in Attempt /\ attempt.job = j /\ attempt.fence = job.fence
        /\ attempt.status = workerAttempts[i].status /\ attempt.report = None
    BY <1>2, <1>3 DEF Attempt
  <1>5. CurrentOK(attempt, job)
    BY <1>2, <1>4 DEF CurrentOK
  <1>6. job.status = "RUNNING" => [job |-> j, fence |-> job.fence] \in starts \union {}
    BY <1>2 DEF Inv, StartsOK
  <1>7. {} \in SUBSET Event /\ {} \subseteq {[job |-> j, fence |-> job.fence]}
    OBVIOUS
  <1> HIDE DEF j, job, attempt
  <1> QED
    BY <1>1, <1>2, <1>4, <1>5, <1>6, <1>7, WriteAttemptPreserves DEF j, job

\* A report keeps the invariant.
LEMMA ReportPreserves ==
    ASSUME Inv, NEW i \in Attempts, NEW result \in Results, ReportWorker(i, result)
    PROVE  Inv'
  <1> DEFINE j == workerAttempts[i].job
             st == Verdict(result)
             job == [workerJobs[j] EXCEPT !.status = st]
             attempt == [workerAttempts[i] EXCEPT !.status = st, !.report = result]
  <1>1. /\ Admitted(i) /\ workerJobs[j].status = "RUNNING"
        /\ WriteAttempt(i, job, attempt, {})
    BY DEF ReportWorker
  <1>2. /\ j \in Jobs /\ workerJobs[j] \in Job /\ workerAttempts[i] \in Attempt
        /\ workerAttempts[i].fence = workerJobs[j].fence
        /\ ~(quarantined /\ workerJobs[j].capability \in Native)
        /\ ~workerJobs[j].cancellationRequested
        /\ JobOK(workerJobs[j])
    BY <1>1, AdmittedCall
  <1>3. /\ st \in {"SUCCEEDED", "FAILED"}
        /\ st = "SUCCEEDED" => result = "PASSED"
        /\ st \in JobStatus /\ st \in AttemptStatus
    BY DEF JobStatus, AttemptStatus, Terminal, Verdict
  <1>4. /\ job \in Job /\ job.status = st /\ job.key = workerJobs[j].key
        /\ job.capability = workerJobs[j].capability
        /\ job.fence = workerJobs[j].fence
        /\ job.maxAttempts = workerJobs[j].maxAttempts
        /\ job.cancellationRequested = workerJobs[j].cancellationRequested
    BY <1>2, <1>3, JobFields
  <1>5. /\ attempt \in Attempt /\ attempt.job = j /\ attempt.fence = job.fence
        /\ attempt.status = st /\ attempt.report = result
    BY <1>2, <1>3, <1>4 DEF Attempt
  <1>6. JobOK(job)
    BY <1>2, <1>3, <1>4 DEF JobOK
  <1>7. CurrentOK(attempt, job)
    BY <1>3, <1>4, <1>5 DEF CurrentOK, Uncertain, st
  <1>8. [job |-> j, fence |-> job.fence] \in starts \union {}
    BY <1>1, <1>2, <1>4 DEF Inv, StartsOK
  <1>9. {} \in SUBSET Event /\ {} \subseteq {[job |-> j, fence |-> job.fence]}
    OBVIOUS
  <1> HIDE DEF j, job, attempt, st
  <1> QED
    BY <1>1, <1>2, <1>3, <1>4, <1>5, <1>6, <1>7, <1>8, <1>9, WriteAttemptPreserves DEF j

\* The passing of time keeps the invariant.
LEMMA TickPreserves ==
    ASSUME Inv, Tick
    PROVE  Inv'
  <1>1. /\ workerJobs' = workerJobs /\ workerAttempts' = workerAttempts
        /\ operations' = operations /\ starts' = starts
        /\ quarantined' = quarantined /\ clock' = clock + 1
    BY DEF Tick
  <1> QED
    BY <1>1 DEF Inv, TypeOK, UniqueKeys, JobsOK, AttemptsOK, UniqueFences,
                HeldByAttempt, StartsOK, QuarantineStrandsNothing, Jobs, Attempts

\* Queueing keeps the invariant: the new job has a new key and no attempt.
LEMMA QueuePreserves ==
    ASSUME Inv, NEW key \in Keys, NEW capability \in Capabilities,
           NEW deadline \in 1..MaxTime, NEW budget \in Budgets,
           queue_worker_job(key, capability, deadline, budget)
    PROVE  Inv'
  <1> DEFINE job == NewJob(key, capability, deadline, budget)
             n == Len(workerJobs) + 1
  <1>1. /\ ~(quarantined /\ capability \in Native)
        /\ \A j \in Jobs : workerJobs[j].key # key
        /\ workerJobs' = Append(workerJobs, job)
        /\ operations' = Append(operations, MirrorOf(job))
        /\ workerAttempts' = workerAttempts /\ starts' = starts
        /\ quarantined' = quarantined /\ clock' = clock
    BY DEF queue_worker_job
  <1>2. /\ job \in Job /\ job.key = key /\ job.capability = capability
        /\ job.status = "QUEUED" /\ job.fence = 0 /\ job.maxAttempts = budget
        /\ job.cancellationRequested = FALSE
    <2>1. deadline \in Nat /\ "QUEUED" \in JobStatus
      BY WorkerAssumption DEF JobStatus
    <2> QED
      BY <2>1 DEF NewJob, Job
  <1>3. budget \in 1..10
    BY WorkerAssumption
  <1> HIDE DEF job
  <1>4. /\ workerJobs' \in Seq(Job) /\ Jobs' = Jobs \union {n} /\ n \notin Jobs
        /\ \A j \in Jobs : workerJobs'[j] = workerJobs[j]
        /\ workerJobs'[n] = job /\ Len(workerJobs') = n
    BY <1>1, <1>2, SeqAppend DEF Inv, TypeOK, Jobs
  <1>5. /\ operations' \in Seq(Operation) /\ Len(operations') = n
        /\ \A j \in Jobs : operations'[j] = operations[j]
        /\ operations'[n] = MirrorOf(job)
    <2>1. DOMAIN operations = Jobs /\ Len(operations) + 1 = n
      BY DEF Inv, TypeOK, Jobs
    <2> QED
      BY <1>1, <1>2, <2>1, MirrorType, SeqAppend DEF Inv, TypeOK
  <1> HIDE DEF n
  <1>6. Attempts' = Attempts
    BY <1>1 DEF Attempts
  <1>7. TypeOK'
    BY <1>1, <1>4, <1>5 DEF Inv, TypeOK
  <1>8. UniqueKeys'
    <2>1. /\ \A j \in Jobs : workerJobs[j].key # job.key
          /\ \A j, k \in Jobs : workerJobs[j].key = workerJobs[k].key => j = k
      BY <1>1, <1>2 DEF Inv, UniqueKeys
    <2> QED
      BY <1>4, <2>1 DEF UniqueKeys
  <1>9. JobsOK'
    <2>1. JobOK(job)
      BY <1>2, <1>3 DEF JobOK
    <2> QED
      BY <1>4, <1>5, <2>1 DEF Inv, JobsOK
  <1>10. AttemptsOK' /\ UniqueFences'
    BY <1>1, <1>4, <1>6 DEF Inv, AttemptsOK, UniqueFences
  <1>11. HeldByAttempt'
    <2>1. workerAttempts' = workerAttempts
      BY <1>1
    <2> QED
      BY <1>2, <1>4, <1>6, <2>1 DEF Inv, HeldByAttempt
  <1>12. StartsOK'
    BY <1>1, <1>2, <1>4, <1>6 DEF Inv, StartsOK
  <1>13. QuarantineStrandsNothing'
    BY <1>1, <1>2, <1>4 DEF Inv, QuarantineStrandsNothing
  <1> QED
    BY <1>7, <1>8, <1>9, <1>10, <1>11, <1>12, <1>13 DEF Inv

\* A restore keeps the invariant: everything live becomes uncertain.
LEMMA RestorePreserves ==
    ASSUME Inv, RestoreBackup
    PROVE  Inv'
  <1>1. /\ workerJobs' = [j \in Jobs |-> RestoredJob(j)]
        /\ operations' = [j \in Jobs |-> IF j \in Live THEN MirrorOf(RestoredJob(j))
                                         ELSE operations[j]]
        /\ quarantined' = TRUE /\ starts' = starts /\ clock' = clock
    BY DEF RestoreBackup
  <1>2. workerAttempts' =
         [i \in Attempts |->
            IF \E j \in Live : /\ workerAttempts[i].job = j
                               /\ workerAttempts[i].fence = workerJobs[j].fence
            THEN [workerAttempts[i] EXCEPT !.status = Uncertain, !.leaseUntil = clock]
            ELSE workerAttempts[i]]
    <2>1. \A j : currentWorkerAttempt(j) =
            {i \in Attempts : /\ workerAttempts[i].job = j
                              /\ workerAttempts[i].fence = workerJobs[j].fence}
      BY CurrentIsTheOne DEF Inv
    <2> QED
      BY <2>1 DEF RestoreBackup
  <1>3. \A j \in Jobs : /\ workerJobs[j] \in Job
                        /\ RestoredJob(j) \in Job
                        /\ RestoredJob(j).key = workerJobs[j].key
                        /\ RestoredJob(j).capability = workerJobs[j].capability
                        /\ RestoredJob(j).fence = workerJobs[j].fence
                        /\ RestoredJob(j).maxAttempts = workerJobs[j].maxAttempts
                        /\ j \in Live => RestoredJob(j).status = Uncertain
                        /\ j \notin Live => RestoredJob(j) = workerJobs[j]
                        /\ j \in Live <=> workerJobs[j].status \notin Terminal
    <2>1. \A job \in Job :
            LET new == [job EXCEPT !.status = Uncertain, !.cancellationRequested = TRUE] IN
            /\ new \in Job /\ new.key = job.key /\ new.capability = job.capability
            /\ new.fence = job.fence /\ new.maxAttempts = job.maxAttempts
            /\ new.status = Uncertain
      BY DEF Job, JobStatus
    <2>2. \A j \in Jobs : workerJobs[j] \in Job
      BY Members DEF Inv
    <2> QED
      BY <2>1, <2>2 DEF RestoredJob, Live
  <1>4. /\ workerJobs' \in Seq(Job) /\ Jobs' = Jobs /\ Len(workerJobs') = Len(workerJobs)
        /\ \A j \in Jobs : workerJobs'[j] = RestoredJob(j)
    <2>1. workerJobs' \in [DOMAIN workerJobs -> Job]
      BY <1>1, <1>3 DEF Jobs
    <2> QED
      BY <1>1, <2>1, SeqMap DEF Inv, TypeOK, Jobs
  <1>5. /\ operations' \in Seq(Operation) /\ Len(operations') = Len(operations)
        /\ \A j \in Jobs : operations'[j] = MirrorOf(RestoredJob(j))
    <2>1. DOMAIN operations = Jobs /\ \A j \in Jobs : operations[j] \in Operation
      BY DEF Inv, TypeOK, Jobs
    <2>2. operations' \in [DOMAIN operations -> Operation]
      BY <1>1, <1>3, <2>1, MirrorType
    <2>3. \A j \in Jobs : operations'[j] = MirrorOf(RestoredJob(j))
      BY <1>1, <1>3 DEF Inv, JobsOK
    <2> QED
      BY <2>2, <2>3, SeqMap DEF Inv, TypeOK
  <1>6. \A i \in Attempts :
          /\ workerAttempts[i] \in Attempt
          /\ workerAttempts[i].job \in Jobs
          /\ workerAttempts'[i] \in Attempt
          /\ workerAttempts'[i].job = workerAttempts[i].job
          /\ workerAttempts'[i].fence = workerAttempts[i].fence
          /\ workerAttempts'[i].report = workerAttempts[i].report
          /\ IF /\ workerAttempts[i].job \in Live
                /\ workerAttempts[i].fence = workerJobs[workerAttempts[i].job].fence
             THEN workerAttempts'[i].status = Uncertain
             ELSE workerAttempts'[i] = workerAttempts[i]
    <2>1. \A a \in Attempt :
            LET new == [a EXCEPT !.status = Uncertain, !.leaseUntil = clock] IN
            /\ new \in Attempt /\ new.job = a.job /\ new.fence = a.fence
            /\ new.report = a.report /\ new.status = Uncertain
      BY DEF Attempt, AttemptStatus, Inv, TypeOK
    <2>2. \A i \in Attempts : workerAttempts[i] \in Attempt /\ workerAttempts[i].job \in Jobs
      BY Members DEF Inv, AttemptsOK
    <2> QED
      BY <1>2, <2>1, <2>2
  <1>7. workerAttempts' \in Seq(Attempt) /\ Attempts' = Attempts
    <2>1. workerAttempts' \in [DOMAIN workerAttempts -> Attempt]
      BY <1>2, <1>6 DEF Attempts
    <2> QED
      BY <2>1, SeqMap DEF Inv, TypeOK, Attempts
  <1>8. TypeOK'
    BY <1>1, <1>4, <1>5, <1>7 DEF Inv, TypeOK
  <1>9. UniqueKeys'
    BY <1>3, <1>4 DEF Inv, UniqueKeys
  <1>10. JobsOK'
    <2>1. \A j \in Jobs : JobOK(RestoredJob(j))
      BY <1>3 DEF Inv, JobsOK, JobOK, Uncertain
    <2> QED
      BY <1>4, <1>5, <2>1 DEF JobsOK
  <1>11. AttemptsOK'
    <2> SUFFICES ASSUME NEW i \in Attempts
                 PROVE  AttemptOK(workerAttempts'[i], RestoredJob(workerAttempts[i].job))
      BY <1>4, <1>6, <1>7 DEF AttemptsOK
    <2> DEFINE j == workerAttempts[i].job
    <2>1. j \in Jobs /\ AttemptOK(workerAttempts[i], workerJobs[j])
      BY DEF Inv, AttemptsOK
    <2>2. CASE j \notin Live
      BY <1>3, <1>6, <2>1, <2>2
    <2>3. CASE j \in Live /\ workerAttempts[i].fence # workerJobs[j].fence
      <3>1. workerAttempts'[i] = workerAttempts[i] /\ RestoredJob(j).fence = workerJobs[j].fence
        BY <1>3, <1>6, <2>1, <2>3
      <3> QED
        BY <2>1, <2>3, <3>1 DEF AttemptOK
    <2>4. CASE j \in Live /\ workerAttempts[i].fence = workerJobs[j].fence
      <3>1. /\ workerAttempts'[i].status = Uncertain
            /\ workerAttempts'[i].fence = workerAttempts[i].fence
            /\ workerAttempts'[i].report = workerAttempts[i].report
            /\ RestoredJob(j).status = Uncertain
            /\ RestoredJob(j).fence = workerJobs[j].fence
        BY <1>3, <1>6, <2>1, <2>4
      <3>2. workerAttempts[i].report = None
        BY <1>3, <2>1, <2>4 DEF AttemptOK, CurrentOK, Verdict, Terminal
      <3>3. CurrentOK(workerAttempts'[i], RestoredJob(j))
        BY <3>1, <3>2 DEF CurrentOK, Uncertain
      <3> QED
        BY <2>1, <2>4, <3>1, <3>3 DEF AttemptOK
    <2> QED
      BY <2>2, <2>3, <2>4
  <1>12. UniqueFences'
    BY <1>6, <1>7 DEF Inv, UniqueFences
  <1>13. HeldByAttempt'
    <2> SUFFICES ASSUME NEW j \in Jobs,
                        workerJobs'[j].status \in {"CLAIMED", "RUNNING", "SUCCEEDED"}
                 PROVE  \E i \in Attempts : /\ workerAttempts'[i].job = j
                                            /\ workerAttempts'[i].fence = workerJobs'[j].fence
      BY <1>4, <1>7 DEF HeldByAttempt
    <2>1. workerJobs'[j] = workerJobs[j]
      BY <1>3, <1>4 DEF Uncertain
    <2>2. PICK i \in Attempts : /\ workerAttempts[i].job = j
                               /\ workerAttempts[i].fence = workerJobs[j].fence
      BY <2>1 DEF Inv, HeldByAttempt
    <2> QED
      BY <1>6, <2>1, <2>2
  <1>14. StartsOK'
    <2>0. starts' = starts
      BY <1>1
    <2>1. \A e \in starts' : /\ e.job \in Jobs'
                             /\ e.fence = workerJobs'[e.job].fence
                             /\ workerJobs'[e.job].status \notin {"QUEUED", "CLAIMED"}
      <3> SUFFICES ASSUME NEW e \in starts
                   PROVE  /\ e.job \in Jobs
                          /\ e.fence = RestoredJob(e.job).fence
                          /\ RestoredJob(e.job).status \notin {"QUEUED", "CLAIMED"}
        BY <1>4, <2>0
      <3>1. /\ e.job \in Jobs /\ e.fence = workerJobs[e.job].fence
            /\ workerJobs[e.job].status \notin {"QUEUED", "CLAIMED"}
        BY DEF Inv, StartsOK
      <3> QED
        BY <1>3, <3>1 DEF Uncertain
    <2>2. \A j \in Jobs' : workerJobs'[j].status = "RUNNING" =>
             [job |-> j, fence |-> workerJobs'[j].fence] \in starts'
      <3> SUFFICES ASSUME NEW j \in Jobs, RestoredJob(j).status = "RUNNING"
                   PROVE  FALSE
        BY <1>4
      <3> QED
        BY <1>3 DEF Uncertain, Terminal
    <2>3. \A i \in Attempts' : workerAttempts'[i].report # None =>
             [job |-> workerAttempts'[i].job, fence |-> workerAttempts'[i].fence] \in starts'
      BY <1>6, <1>7, <2>0 DEF Inv, StartsOK
    <2> QED
      BY <2>1, <2>2, <2>3 DEF StartsOK
  <1>15. QuarantineStrandsNothing'
    BY <1>3, <1>4 DEF QuarantineStrandsNothing
  <1> QED
    BY <1>8, <1>9, <1>10, <1>11, <1>12, <1>13, <1>14, <1>15 DEF Inv

\* The jobs a claim's walk leaves with the worker's claim not on them.
LEMMA ClaimSweeps ==
    ASSUME Inv, NEW capability, NEW invalid, NEW unready, NEW j \in Jobs,
           j \notin Claimed(capability, invalid, unready)
    PROVE  LET old == workerJobs[j]
               job == ClaimedJob(j, capability, invalid, unready) IN
           /\ job \in Job
           /\ job.key = old.key /\ job.capability = old.capability
           /\ job.fence = old.fence /\ job.maxAttempts = old.maxAttempts
           /\ job.cancellationRequested = old.cancellationRequested
           /\ \/ job = old /\ ~(Due(j) /\ j \in Matching(capability))
              \/ /\ Due(j) /\ j \in Matching(capability)
                 /\ job.status \in {"QUEUED", "FAILED", "DEADLINE_EXCEEDED", Uncertain}
                 /\ job.status = "QUEUED" => /\ old.status = "CLAIMED"
                                             /\ old.fence < old.maxAttempts
              \/ /\ ~Due(j) /\ j \in Matching(capability)
                 /\ old.status = "QUEUED"
                 /\ job.status \in {Uncertain, "FAILED"}
  <1> DEFINE old == workerJobs[j]
             job == ClaimedJob(j, capability, invalid, unready)
             st == CASE j \in Examined(capability, invalid, unready) \intersect invalid
                          -> Uncertain
                     [] /\ j \in Examined(capability, invalid, unready)
                                  \ (invalid \union unready)
                        /\ Exhausted(j) -> "FAILED"
                     [] OTHER -> StatusAfterRecovery(j)
  <1>1. old \in Job
    BY Members DEF Inv
  <1>2. CASE j \notin Matching(capability)
    BY <1>1, <1>2 DEF ClaimedJob
  <1>3. CASE j \in Matching(capability)
    <2>1. job = [old EXCEPT !.status = st]
      BY <1>3 DEF ClaimedJob
    <2>2. \/ st = StatusAfterRecovery(j)
          \/ st \in {Uncertain, "FAILED"} /\ StatusAfterRecovery(j) = "QUEUED"
      BY DEF Examined
    <2> HIDE DEF st, job
    <2>3. CASE Due(j)
      <3>1. old.status \in {"QUEUED", "CLAIMED", "RUNNING"}
        BY <2>3 DEF Due
      <3>2. StatusAfterRecovery(j) = RecoveredStatus(j)
        BY <2>3 DEF StatusAfterRecovery
      <3>3. /\ st \in {"QUEUED", "FAILED", "DEADLINE_EXCEEDED", Uncertain}
            /\ st = "QUEUED" => /\ old.status = "CLAIMED"
                                /\ old.fence < old.maxAttempts
        BY <2>2, <3>1, <3>2, Recovery DEF Uncertain
      <3>4. st \in JobStatus
        BY <3>3 DEF JobStatus, Terminal, Uncertain
      <3> QED
        BY <1>1, <1>3, <2>1, <2>3, <3>3, <3>4, JobFields DEF job
    <2>4. CASE ~Due(j)
      <3>1. StatusAfterRecovery(j) = old.status
        BY <2>4 DEF StatusAfterRecovery
      <3>2. CASE st = old.status
        <4>1. job = old
          BY <1>1, <2>1, <3>2 DEF Job
        <4> QED
          BY <1>1, <2>4, <4>1 DEF job
      <3>3. CASE st \in {Uncertain, "FAILED"} /\ old.status = "QUEUED"
        <4>1. st \in JobStatus
          BY <3>3 DEF JobStatus, Terminal, Uncertain
        <4> QED
          BY <1>1, <1>3, <2>1, <2>4, <3>3, <4>1, JobFields DEF job
      <3> QED
        BY <2>2, <3>1, <3>2, <3>3
    <2> QED
      BY <2>3, <2>4
  <1> QED
    BY <1>2, <1>3

\* The job a claim hands out: it was waiting, or its holder's lease ran out
\* before it started.
LEMMA ClaimHandsOut ==
    ASSUME Inv, NEW capability, NEW invalid, NEW unready,
           NEW c \in Claimed(capability, invalid, unready)
    PROVE  LET old == workerJobs[c]
               job == ClaimedJob(c, capability, invalid, unready) IN
           /\ c \in Jobs /\ c \in Matching(capability)
           /\ Claimed(capability, invalid, unready) = {c}
           /\ ~(quarantined /\ old.capability \in Native)
           /\ job \in Job
           /\ job.key = old.key /\ job.capability = old.capability
           /\ job.fence = old.fence + 1 /\ job.maxAttempts = old.maxAttempts
           /\ job.cancellationRequested = old.cancellationRequested
           /\ job.status = "CLAIMED"
           /\ old.fence < old.maxAttempts
           /\ ~old.cancellationRequested
           /\ \/ old.status = "QUEUED"
              \/ old.status = "CLAIMED" /\ Due(c)
  <1> DEFINE old == workerJobs[c]
             job == ClaimedJob(c, capability, invalid, unready)
  <1>1. /\ c \in Matching(capability) /\ StatusAfterRecovery(c) = "QUEUED"
        /\ old.fence < old.maxAttempts
    BY DEF Claimed, Claimable
  <1>2. /\ c \in Jobs /\ old.capability = capability
        /\ ~(quarantined /\ capability \in Native)
    BY <1>1 DEF Matching
  <1>3. old \in Job /\ JobOK(old)
    BY <1>2, Members DEF Inv, JobsOK
  <1>4. job = [old EXCEPT !.status = "CLAIMED", !.fence = @ + 1]
    BY <1>1 DEF ClaimedJob
  <1>5. /\ job \in Job
        /\ job.key = old.key /\ job.capability = old.capability
        /\ job.fence = old.fence + 1 /\ job.maxAttempts = old.maxAttempts
        /\ job.cancellationRequested = old.cancellationRequested
        /\ job.status = "CLAIMED"
    <2> HIDE DEF old, job
    <2>1. old.fence + 1 \in Nat /\ "CLAIMED" \in JobStatus
      BY <1>3 DEF Job, JobStatus
    <2>2. \A f \in Nat :
            LET new == [old EXCEPT !.status = "CLAIMED", !.fence = f] IN
            /\ new \in Job /\ new.key = old.key /\ new.capability = old.capability
            /\ new.fence = f /\ new.maxAttempts = old.maxAttempts
            /\ new.cancellationRequested = old.cancellationRequested
            /\ new.status = "CLAIMED"
      BY <1>3, <2>1 DEF Job
    <2> QED
      BY <1>4, <2>1, <2>2
  <1>6. \/ old.status = "QUEUED"
        \/ old.status = "CLAIMED" /\ Due(c)
    <2>1. CASE Due(c)
      <3>1. old.status \in {"QUEUED", "CLAIMED", "RUNNING"}
        BY <2>1 DEF Due
      <3> QED
        BY <1>1, <2>1, <3>1, Recovery DEF StatusAfterRecovery
    <2>2. CASE ~Due(c)
      BY <1>1, <2>2 DEF StatusAfterRecovery
    <2> QED
      BY <2>1, <2>2
  <1>7. ~old.cancellationRequested
    BY <1>3, <1>6 DEF JobOK, Uncertain
  <1>8. Claimed(capability, invalid, unready) = {c}
    <2>1. ASSUME NEW d \in Claimed(capability, invalid, unready)
          PROVE  d = c
      <3>1. c <= d /\ d <= c /\ c \in Nat /\ d \in Nat
        BY DEF Claimed, Claimable, Matching, Jobs, Inv, TypeOK
      <3> QED
        BY <3>1
    <2> QED
      BY <2>1
  <1> QED
    BY <1>1, <1>2, <1>3, <1>5, <1>6, <1>7, <1>8

\* A claim keeps the invariant.
LEMMA ClaimPreserves ==
    ASSUME Inv, NEW p \in Workers, NEW capability \in Capabilities,
           NEW invalid, NEW unready,
           ClaimWorker(p, capability, invalid, unready)
    PROVE  Inv'
  <1> DEFINE C == Claimed(capability, invalid, unready)
             job(j) == ClaimedJob(j, capability, invalid, unready)
             swept == [i \in Attempts |-> RecoveredAttempt(i, capability)]
  <1>1. /\ workerJobs' = [j \in Jobs |-> job(j)]
        /\ \/ C = {} /\ workerAttempts' = swept
           \/ \E c \in C : workerAttempts' = Append(swept, NewAttempt(c, p))
        /\ operations' = [j \in Jobs |-> IF job(j) # workerJobs[j] THEN MirrorOf(job(j))
                                         ELSE operations[j]]
        /\ starts' = starts /\ quarantined' = quarantined /\ clock' = clock
    BY DEF ClaimWorker
  <1>2. \A j \in Jobs \ C :
           /\ job(j) \in Job
           /\ job(j).key = workerJobs[j].key /\ job(j).capability = workerJobs[j].capability
           /\ job(j).fence = workerJobs[j].fence
           /\ job(j).maxAttempts = workerJobs[j].maxAttempts
           /\ job(j).cancellationRequested = workerJobs[j].cancellationRequested
           /\ \/ job(j) = workerJobs[j] /\ ~(Due(j) /\ j \in Matching(capability))
              \/ /\ Due(j) /\ j \in Matching(capability)
                 /\ job(j).status \in {"QUEUED", "FAILED", "DEADLINE_EXCEEDED", Uncertain}
                 /\ job(j).status = "QUEUED" =>
                       /\ workerJobs[j].status = "CLAIMED"
                       /\ workerJobs[j].fence < workerJobs[j].maxAttempts
              \/ /\ ~Due(j) /\ j \in Matching(capability)
                 /\ workerJobs[j].status = "QUEUED"
                 /\ job(j).status \in {Uncertain, "FAILED"}
    BY ClaimSweeps
  <1>3. \A c \in C :
           /\ c \in Jobs /\ c \in Matching(capability) /\ C = {c}
           /\ ~(quarantined /\ workerJobs[c].capability \in Native)
           /\ job(c) \in Job
           /\ job(c).key = workerJobs[c].key /\ job(c).capability = workerJobs[c].capability
           /\ job(c).fence = workerJobs[c].fence + 1
           /\ job(c).maxAttempts = workerJobs[c].maxAttempts
           /\ job(c).cancellationRequested = workerJobs[c].cancellationRequested
           /\ job(c).status = "CLAIMED"
           /\ workerJobs[c].fence < workerJobs[c].maxAttempts
           /\ ~workerJobs[c].cancellationRequested
           /\ \/ workerJobs[c].status = "QUEUED"
              \/ workerJobs[c].status = "CLAIMED" /\ Due(c)
    BY ClaimHandsOut
  <1>t. /\ \A j \in Jobs : workerJobs[j] \in Job /\ JobOK(workerJobs[j])
        /\ \A i \in Attempts : /\ workerAttempts[i] \in Attempt
                               /\ workerAttempts[i].job \in Jobs
                               /\ AttemptOK(workerAttempts[i],
                                            workerJobs[workerAttempts[i].job])
    BY Members DEF Inv, JobsOK, AttemptsOK
  <1> HIDE DEF C, job
  <1>4. \A j \in Jobs : job(j) \in Job /\ job(j).key = workerJobs[j].key
                        /\ job(j).capability = workerJobs[j].capability
    BY <1>2, <1>3
  <1>5. /\ workerJobs' \in Seq(Job) /\ Jobs' = Jobs /\ Len(workerJobs') = Len(workerJobs)
        /\ \A j \in Jobs : workerJobs'[j] = job(j)
    <2>1. workerJobs' \in [DOMAIN workerJobs -> Job]
      BY <1>1, <1>4 DEF Jobs
    <2> QED
      BY <1>1, <2>1, SeqMap DEF Inv, TypeOK, Jobs
  <1>6. /\ operations' \in Seq(Operation) /\ Len(operations') = Len(operations)
        /\ \A j \in Jobs : operations'[j] = MirrorOf(job(j))
    <2>1. DOMAIN operations = Jobs /\ \A j \in Jobs : operations[j] \in Operation
      BY DEF Inv, TypeOK, Jobs
    <2>2. operations' \in [DOMAIN operations -> Operation]
      BY <1>1, <1>4, <2>1, MirrorType
    <2>3. \A j \in Jobs : operations'[j] = MirrorOf(job(j))
      BY <1>1 DEF Inv, JobsOK
    <2> QED
      BY <2>2, <2>3, SeqMap DEF Inv, TypeOK
  <1>7. \A i \in Attempts :
           LET j == workerAttempts[i].job IN
           swept[i] = IF /\ Due(j) /\ j \in Matching(capability)
                         /\ workerAttempts[i].fence = workerJobs[j].fence
                      THEN [workerAttempts[i] EXCEPT !.status = "EXPIRED"]
                      ELSE workerAttempts[i]
    <2>1. \A j : currentWorkerAttempt(j) =
            {i \in Attempts : /\ workerAttempts[i].job = j
                              /\ workerAttempts[i].fence = workerJobs[j].fence}
      BY CurrentIsTheOne DEF Inv
    <2> QED
      BY <2>1 DEF RecoveredAttempt
  <1>8. \A i \in Attempts : /\ swept[i] \in Attempt
                            /\ swept[i].job = workerAttempts[i].job
                            /\ swept[i].fence = workerAttempts[i].fence
                            /\ swept[i].report = workerAttempts[i].report
    <2>1. \A a \in Attempt : LET new == [a EXCEPT !.status = "EXPIRED"] IN
             /\ new \in Attempt /\ new.job = a.job /\ new.fence = a.fence
             /\ new.report = a.report
      BY DEF Attempt, AttemptStatus
    <2> QED
      BY <1>t, <1>7, <2>1
  <1>9. swept \in Seq(Attempt) /\ DOMAIN swept = Attempts /\ Len(swept) = Len(workerAttempts)
    <2>1. swept \in [DOMAIN workerAttempts -> Attempt]
      BY <1>8 DEF Attempts
    <2> HIDE DEF swept
    <2> QED
      BY <2>1, SeqMap DEF Inv, TypeOK, Attempts
  <1>e. \A i \in Attempts :
           (/\ Due(workerAttempts[i].job) /\ workerAttempts[i].job \in Matching(capability)
            /\ workerAttempts[i].fence = workerJobs[workerAttempts[i].job].fence)
           => swept[i].status = "EXPIRED"
    BY <1>t, <1>7 DEF Attempt
  <1>u. \A i \in Attempts :
           ~(/\ Due(workerAttempts[i].job) /\ workerAttempts[i].job \in Matching(capability)
             /\ workerAttempts[i].fence = workerJobs[workerAttempts[i].job].fence)
           => swept[i] = workerAttempts[i]
    BY <1>7
  <1> HIDE DEF swept
  \* Every old attempt fits its job after the walk.
  <1>10. \A i \in Attempts : AttemptOK(swept[i], job(workerAttempts[i].job))
    <2> SUFFICES ASSUME NEW i \in Attempts
                 PROVE  AttemptOK(swept[i], job(workerAttempts[i].job))
      OBVIOUS
    <2> DEFINE j == workerAttempts[i].job
               old == workerJobs[j]
    <2>1. /\ j \in Jobs /\ old \in Job /\ workerAttempts[i] \in Attempt
          /\ AttemptOK(workerAttempts[i], old)
      BY <1>t
    <2>2. workerAttempts[i].fence \in Nat /\ old.fence \in Nat
      BY <2>1 DEF Attempt, Job
    <2>3. /\ swept[i].fence = workerAttempts[i].fence
          /\ swept[i].report = workerAttempts[i].report
      BY <1>8
    <2>4. CASE j \in C
      <3>1. /\ job(j).fence = old.fence + 1
            /\ old.status = "QUEUED" \/ (old.status = "CLAIMED" /\ Due(j))
            /\ j \in Matching(capability)
        BY <1>3, <2>4
      <3>2. workerAttempts[i].report = None
        BY <2>1, <2>2, <3>1 DEF AttemptOK, CurrentOK, Verdict
      <3>3. swept[i].status = "EXPIRED"
        <4>1. CASE workerAttempts[i].fence # old.fence
          BY <1>u, <2>1, <2>2, <4>1 DEF AttemptOK
        <4>2. CASE workerAttempts[i].fence = old.fence /\ Due(j)
          BY <1>e, <3>1, <4>2
        <4>3. CASE workerAttempts[i].fence = old.fence /\ ~Due(j)
          BY <1>u, <2>1, <3>1, <4>3 DEF AttemptOK, CurrentOK
        <4> QED
          BY <4>1, <4>2, <4>3
      <3> QED
        BY <2>1, <2>2, <2>3, <3>1, <3>2, <3>3 DEF AttemptOK
    <2>5. CASE j \notin C /\ job(j) = old /\ ~(Due(j) /\ j \in Matching(capability))
      BY <1>u, <2>1, <2>5
    <2>6. CASE /\ j \notin C /\ Due(j) /\ j \in Matching(capability)
               /\ job(j).status \in {"QUEUED", "FAILED", "DEADLINE_EXCEEDED", Uncertain}
      <3>1. job(j).fence = old.fence
        BY <1>2, <2>1, <2>6
      <3>2. old.status \in {"QUEUED", "CLAIMED", "RUNNING"}
        BY <2>6 DEF Due
      <3>3. workerAttempts[i].report = None
        BY <2>1, <2>2, <3>2 DEF AttemptOK, CurrentOK, Verdict
      <3>4. swept[i].status = "EXPIRED"
        <4>1. CASE workerAttempts[i].fence # old.fence
          BY <1>u, <2>1, <2>2, <4>1 DEF AttemptOK
        <4>2. CASE workerAttempts[i].fence = old.fence
          BY <1>e, <2>6, <4>2
        <4> QED
          BY <4>1, <4>2
      <3>5. CurrentOK(swept[i], job(j))
        BY <2>3, <2>6, <3>3, <3>4 DEF CurrentOK, Uncertain
      <3> QED
        BY <2>1, <2>3, <3>1, <3>3, <3>4, <3>5 DEF AttemptOK
    <2>7. CASE /\ j \notin C /\ ~Due(j) /\ old.status = "QUEUED"
               /\ job(j).status \in {Uncertain, "FAILED"}
      <3>1. job(j).fence = old.fence
        BY <1>2, <2>1, <2>7
      <3>2. swept[i] = workerAttempts[i]
        BY <1>u, <2>7
      <3>3. workerAttempts[i].report = None /\ workerAttempts[i].status = "EXPIRED"
        BY <2>1, <2>2, <2>7 DEF AttemptOK, CurrentOK, Verdict
      <3>4. CurrentOK(swept[i], job(j))
        BY <2>7, <3>2, <3>3 DEF CurrentOK, Uncertain
      <3> QED
        BY <2>1, <3>1, <3>2, <3>3, <3>4 DEF AttemptOK
    <2> QED
      BY <1>2, <2>1, <2>4, <2>5, <2>6, <2>7
  <1>11. UniqueKeys'
    BY <1>4, <1>5 DEF Inv, UniqueKeys
  <1>12. JobsOK'
    <2>1. \A j \in Jobs : JobOK(job(j))
      <3>1. ASSUME NEW j \in C PROVE JobOK(job(j))
        <4>1. /\ j \in Jobs /\ workerJobs[j] \in Job
              /\ job(j).fence = workerJobs[j].fence + 1
              /\ job(j).maxAttempts = workerJobs[j].maxAttempts
              /\ workerJobs[j].fence < workerJobs[j].maxAttempts
              /\ job(j).status = "CLAIMED" /\ ~job(j).cancellationRequested
          BY <1>3, <1>t, <3>1
        <4>2. workerJobs[j].fence \in Nat /\ workerJobs[j].maxAttempts \in 1..10
          BY <4>1, WorkerAssumption DEF Job
        <4> QED
          BY <4>1, <4>2 DEF JobOK
      <3>2. ASSUME NEW j \in Jobs \ C PROVE JobOK(job(j))
        <4>1. JobOK(workerJobs[j]) /\ workerJobs[j] \in Job
          BY <1>t
        <4>2. CASE job(j) = workerJobs[j]
          BY <4>1, <4>2
        <4>3. CASE Due(j) /\ job(j) # workerJobs[j]
          <5>1. workerJobs[j].status \in {"QUEUED", "CLAIMED", "RUNNING"}
            BY <4>3 DEF Due
          <5> QED
            BY <1>2, <4>1, <4>3, <5>1 DEF JobOK, Uncertain
        <4>4. CASE ~Due(j) /\ job(j) # workerJobs[j]
          BY <1>2, <4>1, <4>4 DEF JobOK, Uncertain
        <4> QED
          BY <4>2, <4>3, <4>4
      <3> QED
        BY <3>1, <3>2
    <2> QED
      BY <1>5, <1>6, <2>1 DEF JobsOK
  <1>13. QuarantineStrandsNothing'
    <2>1. \A j \in Jobs : quarantined /\ workerJobs[j].capability \in Native
             => job(j) = workerJobs[j]
      BY <1>2, <1>3 DEF Matching
    <2> QED
      BY <1>1, <1>4, <1>5, <2>1 DEF Inv, QuarantineStrandsNothing
  \* Jobs that are running, passed or hold an accepted start.
  <1>14. \A j \in Jobs :
            /\ job(j).status \in {"RUNNING", "SUCCEEDED"} => job(j) = workerJobs[j]
            /\ job(j).status = "CLAIMED" /\ j \notin C => job(j) = workerJobs[j]
            /\ workerJobs[j].status \notin {"QUEUED", "CLAIMED"} =>
                  /\ j \notin C /\ job(j).fence = workerJobs[j].fence
                  /\ job(j).status \notin {"QUEUED", "CLAIMED"}
    <2> SUFFICES ASSUME NEW j \in Jobs
                 PROVE  /\ job(j).status \in {"RUNNING", "SUCCEEDED"}
                              => job(j) = workerJobs[j]
                        /\ job(j).status = "CLAIMED" /\ j \notin C => job(j) = workerJobs[j]
                        /\ workerJobs[j].status \notin {"QUEUED", "CLAIMED"} =>
                              /\ j \notin C /\ job(j).fence = workerJobs[j].fence
                              /\ job(j).status \notin {"QUEUED", "CLAIMED"}
      OBVIOUS
    <2>1. CASE j \in C
      BY <1>3, <2>1
    <2>2. CASE j \notin C
      BY <1>2, <2>2 DEF Uncertain
    <2> QED
      BY <2>1, <2>2
  <1>15. \A e \in starts' : /\ e.job \in Jobs' /\ e.fence = workerJobs'[e.job].fence
                            /\ workerJobs'[e.job].status \notin {"QUEUED", "CLAIMED"}
    <2> SUFFICES ASSUME NEW e \in starts
                 PROVE  /\ e.job \in Jobs /\ e.fence = job(e.job).fence
                        /\ job(e.job).status \notin {"QUEUED", "CLAIMED"}
      BY <1>1, <1>5
    <2>1. /\ e.job \in Jobs /\ e.fence = workerJobs[e.job].fence
          /\ workerJobs[e.job].status \notin {"QUEUED", "CLAIMED"}
      BY DEF Inv, StartsOK
    <2> QED
      BY <1>14, <2>1
  <1>16. \A j \in Jobs' : workerJobs'[j].status = "RUNNING" =>
             [job |-> j, fence |-> workerJobs'[j].fence] \in starts'
    <2> SUFFICES ASSUME NEW j \in Jobs, job(j).status = "RUNNING"
                 PROVE  [job |-> j, fence |-> job(j).fence] \in starts
      BY <1>1, <1>5
    <2> QED
      BY <1>14 DEF Inv, StartsOK
  <1>17. CASE C = {}
    <2>1. workerAttempts' = swept
      BY <1>1, <1>17
    <2>2. TypeOK'
      BY <1>1, <1>5, <1>6, <1>9, <2>1 DEF Inv, TypeOK
    <2>3. Attempts' = Attempts
      BY <1>9, <2>1 DEF Attempts
    <2>4. AttemptsOK'
      BY <1>5, <1>8, <1>10, <1>t, <2>1, <2>3 DEF AttemptsOK
    <2>5. UniqueFences'
      BY <1>8, <2>1, <2>3 DEF Inv, UniqueFences
    <2>6. HeldByAttempt'
      <3> SUFFICES ASSUME NEW j \in Jobs,
                          job(j).status \in {"CLAIMED", "RUNNING", "SUCCEEDED"}
                   PROVE  \E i \in Attempts : /\ swept[i].job = j
                                              /\ swept[i].fence = job(j).fence
        BY <1>5, <2>1, <2>3 DEF HeldByAttempt
      <3>1. job(j) = workerJobs[j]
        BY <1>14, <1>17
      <3>2. PICK i \in Attempts : /\ workerAttempts[i].job = j
                                  /\ workerAttempts[i].fence = workerJobs[j].fence
        BY <3>1 DEF Inv, HeldByAttempt
      <3> QED
        BY <1>8, <3>1, <3>2
    <2>7. StartsOK'
      <3>1. \A i \in Attempts' : workerAttempts'[i].report # None =>
               [job |-> workerAttempts'[i].job, fence |-> workerAttempts'[i].fence] \in starts'
        BY <1>1, <1>8, <2>1, <2>3 DEF Inv, StartsOK
      <3> QED
        BY <1>15, <1>16, <3>1 DEF StartsOK
    <2> QED
      BY <1>11, <1>12, <1>13, <2>2, <2>4, <2>5, <2>6, <2>7 DEF Inv
  <1>18. ASSUME NEW c \in C, workerAttempts' = Append(swept, NewAttempt(c, p))
         PROVE  Inv'
    <2> DEFINE new == NewAttempt(c, p)
               n == Len(swept) + 1
    <2>1. /\ c \in Jobs /\ workerJobs[c] \in Job /\ C = {c}
          /\ job(c).fence = workerJobs[c].fence + 1 /\ job(c).status = "CLAIMED"
      BY <1>3, <1>t
    <2>2. /\ new \in Attempt /\ new.job = c /\ new.fence = job(c).fence
          /\ new.status = "CLAIMED" /\ new.report = None
      <3>1. LeaseEnd(c) \in Nat
        BY <2>1, WorkerAssumption DEF LeaseEnd, Earlier, Inv, TypeOK, Job
      <3>2. c \in Nat /\ workerJobs[c].fence + 1 \in Nat /\ "CLAIMED" \in AttemptStatus
        BY <2>1 DEF Jobs, Inv, TypeOK, Job, AttemptStatus
      <3> QED
        BY <2>1, <3>1, <3>2 DEF NewAttempt, Attempt
    <2> HIDE DEF new
    <2>3. /\ workerAttempts' \in Seq(Attempt)
          /\ Attempts' = Attempts \union {n} /\ n \notin Attempts
          /\ \A i \in Attempts : workerAttempts'[i] = swept[i]
          /\ workerAttempts'[n] = new
      BY <1>9, <1>18, <2>2, SeqAppend DEF Attempts, new
    <2> HIDE DEF n
    <2>4. TypeOK'
      BY <1>1, <1>5, <1>6, <2>3 DEF Inv, TypeOK
    <2>5. AttemptOK(new, job(c))
      <3>1. CurrentOK(new, job(c))
        BY <2>1, <2>2 DEF CurrentOK, Uncertain
      <3>2. new.fence \in 1..job(c).fence /\ ~(new.fence < job(c).fence)
        BY <2>1, <2>2 DEF Job
      <3> QED
        BY <3>1, <3>2 DEF AttemptOK
    <2>6. AttemptsOK'
      BY <1>5, <1>8, <1>10, <1>t, <2>1, <2>2, <2>3, <2>5 DEF AttemptsOK
    <2>7. \A i \in Attempts : swept[i].job = c => swept[i].fence # job(c).fence
      <3>1. ASSUME NEW i \in Attempts, workerAttempts[i].job = c
            PROVE  workerAttempts[i].fence # job(c).fence
        <4>1. workerAttempts[i].fence \in 1..workerJobs[c].fence
          BY <1>t, <3>1 DEF AttemptOK
        <4> QED
          BY <2>1, <4>1 DEF Job
      <3> QED
        BY <1>8, <3>1
    <2>8. UniqueFences'
      <3> SUFFICES ASSUME NEW i \in Attempts \union {n}, NEW k \in Attempts \union {n},
                          workerAttempts'[i].job = workerAttempts'[k].job,
                          workerAttempts'[i].fence = workerAttempts'[k].fence
                   PROVE  i = k
        BY <2>3 DEF UniqueFences
      <3>1. CASE i \in Attempts /\ k \in Attempts
        BY <1>8, <2>3, <3>1 DEF Inv, UniqueFences
      <3>2. CASE i \in Attempts /\ k = n
        BY <2>2, <2>3, <2>7, <3>2
      <3>3. CASE i = n /\ k \in Attempts
        BY <2>2, <2>3, <2>7, <3>3
      <3> QED
        BY <3>1, <3>2, <3>3
    <2>9. HeldByAttempt'
      <3> SUFFICES ASSUME NEW j \in Jobs,
                          job(j).status \in {"CLAIMED", "RUNNING", "SUCCEEDED"}
                   PROVE  \E i \in Attempts' : /\ workerAttempts'[i].job = j
                                               /\ workerAttempts'[i].fence = job(j).fence
        BY <1>5 DEF HeldByAttempt
      <3>1. CASE j = c
        BY <2>2, <2>3, <3>1
      <3>2. CASE j # c
        <4>1. job(j) = workerJobs[j]
          BY <1>14, <2>1, <3>2
        <4>2. PICK i \in Attempts : /\ workerAttempts[i].job = j
                                    /\ workerAttempts[i].fence = workerJobs[j].fence
          BY <4>1 DEF Inv, HeldByAttempt
        <4> QED
          BY <1>8, <2>3, <4>1, <4>2
      <3> QED
        BY <3>1, <3>2
    <2>10. StartsOK'
      <3>1. \A i \in Attempts' : workerAttempts'[i].report # None =>
               [job |-> workerAttempts'[i].job, fence |-> workerAttempts'[i].fence] \in starts'
        BY <1>1, <1>8, <2>2, <2>3 DEF Inv, StartsOK
      <3> QED
        BY <1>15, <1>16, <3>1 DEF StartsOK
    <2> QED
      BY <1>11, <1>12, <1>13, <2>4, <2>6, <2>8, <2>9, <2>10 DEF Inv
  <1> QED
    BY <1>1, <1>17, <1>18

-----------------------------------------------------------------------------
(***************************************************************************)
(* The theorems                                                            *)
(***************************************************************************)

\* The empty store satisfies the invariant.
LEMMA InvInit ==
    Init => Inv
  <1> SUFFICES ASSUME Init PROVE Inv
    OBVIOUS
  <1>1. /\ workerJobs = <<>> /\ workerAttempts = <<>> /\ operations = <<>>
        /\ starts = {} /\ quarantined = FALSE /\ clock = 0
    BY DEF Init
  <1>2. /\ Jobs = {} /\ Attempts = {}
    BY <1>1 DEF Jobs, Attempts
  <1>3. TypeOK
    <2>1. <<>> \in Seq(Job) /\ <<>> \in Seq(Attempt) /\ <<>> \in Seq(Operation)
      OBVIOUS
    <2>2. {} \subseteq Event /\ FALSE \in BOOLEAN /\ 0 \in Nat
      OBVIOUS
    <2> QED
      BY <1>1, <2>1, <2>2, Zenon DEF TypeOK
  <1> QED
    BY <1>1, <1>2, <1>3 DEF Inv, UniqueKeys, JobsOK, AttemptsOK, UniqueFences,
                            HeldByAttempt, StartsOK, QuarantineStrandsNothing

\* Every handler keeps the invariant.
LEMMA InvStep ==
    Inv /\ [Next]_vars => Inv'
  <1> SUFFICES ASSUME Inv, [Next]_vars PROVE Inv'
    OBVIOUS
  <1>1. CASE Queue
    BY <1>1, QueuePreserves DEF Queue
  <1>2. CASE \E j \in Jobs : cancel_worker_job(j)
    BY <1>2, CancelPreserves
  <1>3. CASE \E j \in Jobs, outcome \in {"FAILED", "CANCELLED"} :
                reconcile_worker_job(j, outcome)
    BY <1>3, ReconcilePreserves
  <1>4. CASE \E capability \in Capabilities : Claim(capability)
    BY <1>4, ClaimPreserves DEF Claim
  <1>5. CASE \E j \in Jobs : recoverWorker(j)
    BY <1>5, RecoverPreserves
  <1>6. CASE \E i \in Attempts : StartWorker(i)
    BY <1>6, StartPreserves
  <1>7. CASE \E i \in Attempts : HeartbeatWorker(i)
    BY <1>7, HeartbeatPreserves
  <1>8. CASE \E i \in Attempts, result \in Results : ReportWorker(i, result)
    BY <1>8, ReportPreserves
  <1>9. CASE RestoreBackup
    BY <1>9, RestorePreserves
  <1>10. CASE Tick
    BY <1>10, TickPreserves
  <1>11. CASE UNCHANGED vars
    <2>1. /\ workerJobs' = workerJobs /\ workerAttempts' = workerAttempts
          /\ operations' = operations /\ starts' = starts
          /\ quarantined' = quarantined /\ clock' = clock
      BY <1>11 DEF vars
    <2> QED
      BY <2>1 DEF Inv, TypeOK, UniqueKeys, JobsOK, AttemptsOK, UniqueFences,
                  HeldByAttempt, StartsOK, QuarantineStrandsNothing, Jobs, Attempts
  <1> QED
    BY <1>1, <1>2, <1>3, <1>4, <1>5, <1>6, <1>7, <1>8, <1>9, <1>10, <1>11 DEF Next

\* The invariant holds in every state of the protocol.
THEOREM InvariantHolds == Spec => []Inv
  <1>1. Inv /\ [Next]_vars => Inv'
    BY InvStep
  <1> QED
    BY InvInit, <1>1, PTL DEF Spec

\* Jobs, attempts, operations and the log always have their types.
THEOREM TypeCorrect == Spec => []TypeOK
  <1>1. Inv => TypeOK
    BY DEF Inv
  <1> QED
    BY InvariantHolds, <1>1, PTL

\* No job is ever started twice, with any number of workers, attempts, expired
\* leases, cancellations and restores.
THEOREM NoSecondStart == Spec => []StartedAtMostOnce
  <1>1. Inv => StartedAtMostOnce
    <2> SUFFICES ASSUME Inv, NEW j \in Jobs, NEW e \in StartsOf(j), NEW f \in StartsOf(j)
                 PROVE  e = f
      BY DEF StartedAtMostOnce
    <2>1. /\ e \in Event /\ f \in Event /\ e.job = j /\ f.job = j
          /\ e.fence = workerJobs[j].fence /\ f.fence = workerJobs[j].fence
      BY DEF StartsOf, Inv, TypeOK, StartsOK
    <2> QED
      BY <2>1 DEF Event
  <1> QED
    BY InvariantHolds, <1>1, PTL

\* A report is the last word on its job and comes from the one started attempt;
\* a success has such a report.
THEOREM ReportsAreFinal == Spec => []VerdictStands
  <1>1. Inv => VerdictStands
    <2> SUFFICES ASSUME Inv PROVE VerdictStands
      OBVIOUS
    <2>0. \A j : currentWorkerAttempt(j) =
            {i \in Attempts : /\ workerAttempts[i].job = j
                              /\ workerAttempts[i].fence = workerJobs[j].fence}
      BY CurrentIsTheOne DEF Inv
    <2>1. ASSUME NEW i \in Attempts, workerAttempts[i].report # None
          PROVE  LET j == workerAttempts[i].job IN
                 /\ i \in currentWorkerAttempt(j)
                 /\ workerJobs[j].status = Verdict(workerAttempts[i].report)
                 /\ \E e \in StartsOf(j) : e.fence = workerAttempts[i].fence
      <3> DEFINE j == workerAttempts[i].job
      <3>1. /\ j \in Jobs /\ AttemptOK(workerAttempts[i], workerJobs[j])
            /\ workerAttempts[i].fence \in Nat /\ workerJobs[j].fence \in Nat
        BY Members DEF Inv, AttemptsOK, Attempt, Job
      <3>2. workerAttempts[i].fence = workerJobs[j].fence
        BY <2>1, <3>1 DEF AttemptOK
      <3>3. workerJobs[j].status = Verdict(workerAttempts[i].report)
        BY <2>1, <3>1, <3>2 DEF AttemptOK, CurrentOK
      <3>4. [job |-> j, fence |-> workerAttempts[i].fence] \in StartsOf(j)
        BY <2>1 DEF Inv, StartsOK, StartsOf
      <3> QED
        BY <2>0, <3>2, <3>3, <3>4
    <2>2. ASSUME NEW j \in Jobs, workerJobs[j].status = "SUCCEEDED"
          PROVE  \E i \in currentWorkerAttempt(j) : workerAttempts[i].report = "PASSED"
      <3>1. PICK i \in Attempts : /\ workerAttempts[i].job = j
                                  /\ workerAttempts[i].fence = workerJobs[j].fence
        BY <2>2 DEF Inv, HeldByAttempt
      <3>2. AttemptOK(workerAttempts[i], workerJobs[j])
        BY <3>1 DEF Inv, AttemptsOK
      <3>3. workerAttempts[i].report = "PASSED"
        BY <2>2, <3>1, <3>2 DEF AttemptOK, CurrentOK
      <3> QED
        BY <2>0, <3>1, <3>3
    <2> QED
      BY <2>1, <2>2 DEF VerdictStands
  <1> QED
    BY InvariantHolds, <1>1, PTL

\* Two workers never hold one job, and a superseded attempt stays expired.
THEOREM FencingHolds == Spec => []SingleLiveAttempt
  <1>1. Inv => SingleLiveAttempt
    <2> SUFFICES ASSUME Inv, NEW i \in Attempts
                 PROVE  LET a == workerAttempts[i]
                            j == a.job IN
                        /\ a.status \in {"CLAIMED", "RUNNING"} =>
                              i \in currentWorkerAttempt(j) /\ workerJobs[j].status = a.status
                        /\ a.fence < workerJobs[j].fence =>
                              a.status = "EXPIRED" /\ a.report = None
      BY DEF SingleLiveAttempt
    <2> DEFINE a == workerAttempts[i]
               j == a.job
    <2>1. currentWorkerAttempt(j) =
            {k \in Attempts : /\ workerAttempts[k].job = j
                              /\ workerAttempts[k].fence = workerJobs[j].fence}
      BY CurrentIsTheOne DEF Inv
    <2>2. /\ j \in Jobs /\ AttemptOK(a, workerJobs[j]) /\ a \in Attempt
          /\ workerJobs[j] \in Job
      BY Members DEF Inv, AttemptsOK
    <2>3. a.fence \in Nat /\ workerJobs[j].fence \in Nat /\ workerJobs[j].status \in JobStatus
      BY <2>2 DEF Attempt, Job
    <2>4. a.fence < workerJobs[j].fence => a.status = "EXPIRED" /\ a.report = None
      BY <2>2 DEF AttemptOK
    <2>5. ASSUME a.status \in {"CLAIMED", "RUNNING"}
          PROVE  a.fence = workerJobs[j].fence /\ workerJobs[j].status = a.status
      <3>1. a.fence = workerJobs[j].fence /\ CurrentOK(a, workerJobs[j])
        BY <2>2, <2>3, <2>5 DEF AttemptOK
      <3> QED
        BY <2>3, <2>5, <3>1 DEF CurrentOK, JobStatus, Terminal, Uncertain
    <2> QED
      BY <2>1, <2>4, <2>5
  <1> QED
    BY InvariantHolds, <1>1, PTL

\* Users see a job's operation closed, and closed well, exactly when the job is.
THEOREM OperationsTellTruth == Spec => []OperationTellsTruth
  <1>1. Inv => OperationTellsTruth
    <2> SUFFICES ASSUME Inv, NEW j \in Jobs
                 PROVE  LET op == operations[j]
                            job == workerJobs[j] IN
                        /\ (op.status \in {"SUCCEEDED", "FAILED", "CANCELLED"})
                              <=> (job.status \in Terminal)
                        /\ (op.status = "SUCCEEDED") <=> (job.status = "SUCCEEDED")
                        /\ (op.status = "PENDING") <=> (job.status = "QUEUED")
                        /\ op.finished <=> (job.status \in Terminal)
                        /\ op.error <=> (job.status = Uncertain)
                        /\ op.attempts = job.fence
      BY DEF OperationTellsTruth
    <2>1. operations[j] = MirrorOf(workerJobs[j]) /\ workerJobs[j].status \in JobStatus
      BY Members DEF Inv, JobsOK, Job
    <2> DEFINE op == operations[j]
               st == workerJobs[j].status
    <2>2. /\ op.status = CASE st = "QUEUED" -> "PENDING"
                           [] st = "DEADLINE_EXCEEDED" -> "FAILED"
                           [] st \in Terminal \ {"DEADLINE_EXCEEDED"} -> st
                           [] OTHER -> "RUNNING"
          /\ op.attempts = workerJobs[j].fence
      BY <2>1 DEF MirrorOf
    <2>3. /\ (op.status \in {"SUCCEEDED", "FAILED", "CANCELLED"}) <=> (st \in Terminal)
          /\ (op.status = "SUCCEEDED") <=> (st = "SUCCEEDED")
          /\ (op.status = "PENDING") <=> (st = "QUEUED")
      <3> HIDE DEF op, st
      <3>1. st \in JobStatus
        BY <2>1 DEF st
      <3> QED
        BY <2>2, <3>1 DEF JobStatus, Terminal, Uncertain
    <2>4. /\ op.finished <=> (st \in Terminal)
          /\ op.error <=> (st = Uncertain)
      <3>1. op.finished = (st \in Terminal)
        BY <2>1 DEF MirrorOf
      <3>2. op.error = (st = Uncertain)
        BY <2>1 DEF MirrorOf
      <3> HIDE DEF op, st
      <3> QED
        BY <3>1, <3>2, Zenon
    <2> QED
      BY <2>2, <2>3, <2>4, Zenon
  <1> QED
    BY InvariantHolds, <1>1, PTL

\* A requested cancellation is never lost to a report under way.
THEOREM CancellationsStick == Spec => []CancellationSticks
  <1>1. Inv => CancellationSticks
    BY DEF Inv, JobsOK, JobOK, CancellationSticks
  <1> QED
    BY InvariantHolds, <1>1, PTL

\* The queue never holds an exhausted job.
THEOREM BudgetsHold == Spec => []AttemptsLeftInQueue
  <1>1. Inv => AttemptsLeftInQueue
    BY DEF Inv, JobsOK, JobOK, AttemptsLeftInQueue
  <1> QED
    BY InvariantHolds, <1>1, PTL

\* A quarantine leaves no live job behind.
THEOREM QuarantineIsClean == Spec => []QuarantineStrandsNothing
  <1>1. Inv => QuarantineStrandsNothing
    BY DEF Inv
  <1> QED
    BY InvariantHolds, <1>1, PTL

-----------------------------------------------------------------------------
(***************************************************************************)
(* What one step may do to a job and to an attempt                         *)
(***************************************************************************)

\* The moves of a job's status.
StatusMove(old, new) ==
    \/ new = old
    \/ old = "QUEUED" /\ new \in {"CLAIMED", "CANCELLED", "FAILED", "DEADLINE_EXCEEDED",
                                  Uncertain}
    \/ old = "CLAIMED" /\ new \in {"QUEUED", "RUNNING", "CANCELLED", "FAILED", Uncertain}
    \/ old = "RUNNING" /\ new \in {"SUCCEEDED", "FAILED", Uncertain}
    \/ old = Uncertain /\ new \in {"CANCELLED", "FAILED"}

JobMove(j) ==
    /\ j \in Jobs' /\ workerJobs'[j].key = workerJobs[j].key
    /\ StatusMove(workerJobs[j].status, workerJobs'[j].status)
    /\ workerJobs[j].status \in Terminal => workerJobs'[j] = workerJobs[j]

\* An attempt is left alone, loses its hold on a job that has not ended, or
\* makes a call that was admitted.
AttemptMove(i) ==
    LET a == workerAttempts[i]
        b == workerAttempts'[i]
        free == workerJobs[a.job].status \notin Terminal IN
    \/ b = a
    \/ /\ free /\ clock' = clock
       /\ b.leaseUntil = a.leaseUntil \/ b.leaseUntil = clock
       /\ b.report = a.report
       /\ b.status # "RUNNING"
    \/ free /\ clock < a.leaseUntil

\* One job's transaction moves that job and its attempt.
LEMMA WriteMoves ==
    ASSUME Inv, NEW j \in Jobs, NEW job \in Job, NEW a \in AttemptStatus,
           Write(j, job, a), job.key = workerJobs[j].key,
           StatusMove(workerJobs[j].status, job.status),
           workerJobs[j].status \notin Terminal, a # "RUNNING"
    PROVE  /\ Jobs' = Jobs
           /\ \A k \in Jobs : JobMove(k)
           /\ \A i \in Attempts : AttemptMove(i)
  <1>1. /\ Jobs' = Jobs /\ Attempts' = Attempts
        /\ \A k \in Jobs : workerJobs'[k] = IF k = j THEN job ELSE workerJobs[k]
        /\ \A i \in Attempts : workerAttempts'[i] =
              IF /\ workerAttempts[i].job = j
                 /\ workerAttempts[i].fence = workerJobs[j].fence
              THEN [workerAttempts[i] EXCEPT !.status = a] ELSE workerAttempts[i]
        /\ clock' = clock
    BY WriteEffect DEF Inv
  <1>2. \A k \in Jobs : JobMove(k)
    BY <1>1 DEF JobMove, StatusMove
  <1>3. ASSUME NEW i \in Attempts PROVE AttemptMove(i)
    <2>1. workerAttempts[i] \in Attempt
      BY Members DEF Inv
    <2>2. LET b == [workerAttempts[i] EXCEPT !.status = a] IN
          /\ b.leaseUntil = workerAttempts[i].leaseUntil
          /\ b.report = workerAttempts[i].report /\ b.status = a
      BY <2>1 DEF Attempt
    <2> QED
      BY <1>1, <2>2 DEF AttemptMove
  <1> QED
    BY <1>1, <1>2, <1>3

\* An admitted call moves its job and its attempt.
LEMMA WriteAttemptMoves ==
    ASSUME Inv, NEW i \in Attempts, Admitted(i), NEW j \in Jobs, j = workerAttempts[i].job,
           NEW job \in Job, NEW attempt \in Attempt, NEW started \in SUBSET Event,
           WriteAttempt(i, job, attempt, started),
           job.key = workerJobs[j].key,
           StatusMove(workerJobs[j].status, job.status)
    PROVE  /\ Jobs' = Jobs
           /\ \A k \in Jobs : JobMove(k)
           /\ \A k \in Attempts : AttemptMove(k)
  <1>1. /\ Jobs' = Jobs /\ Attempts' = Attempts
        /\ \A k \in Jobs : workerJobs'[k] = IF k = j THEN job ELSE workerJobs[k]
        /\ \A k \in Attempts : workerAttempts'[k] = IF k = i THEN attempt
                                                    ELSE workerAttempts[k]
    BY WriteAttemptEffect DEF Inv
  <1>2. workerJobs[j].status \notin Terminal /\ clock < workerAttempts[i].leaseUntil
    BY AdmittedCall
  <1> QED
    BY <1>1, <1>2 DEF JobMove, AttemptMove, StatusMove

\* A cancellation or a reconciliation.
LEMMA CommandMoves ==
    ASSUME Inv, NEW j \in Jobs,
           \/ cancel_worker_job(j)
           \/ \E outcome \in {"FAILED", "CANCELLED"} : reconcile_worker_job(j, outcome)
    PROVE  /\ Jobs' = Jobs
           /\ \A k \in Jobs : JobMove(k)
           /\ \A i \in Attempts : AttemptMove(i)
  <1>1. workerJobs[j] \in Job /\ workerJobs[j].status \in JobStatus
    BY Members DEF Inv, Job
  <1>2. CASE cancel_worker_job(j)
    <2> DEFINE st == IF workerJobs[j].status \in {"RUNNING", Uncertain} THEN Uncertain
                     ELSE "CANCELLED"
               job == [workerJobs[j] EXCEPT !.status = st, !.cancellationRequested = TRUE]
    <2>1. workerJobs[j].status \notin Terminal /\ Write(j, job, job.status)
      BY <1>1, <1>2 DEF cancel_worker_job
    <2>2. job \in Job /\ job.status = st /\ job.key = workerJobs[j].key
      BY <1>1 DEF Job, JobStatus, Terminal, Uncertain
    <2>3. st \in AttemptStatus /\ st # "RUNNING"
      BY DEF AttemptStatus, Uncertain
    <2>4. StatusMove(workerJobs[j].status, st)
      BY <1>1, <2>1 DEF StatusMove, JobStatus, Terminal, Uncertain
    <2> HIDE DEF st, job
    <2> QED
      BY <2>1, <2>2, <2>3, <2>4, WriteMoves
  <1>3. CASE \E outcome \in {"FAILED", "CANCELLED"} : reconcile_worker_job(j, outcome)
    <2>0. PICK outcome \in {"FAILED", "CANCELLED"} : reconcile_worker_job(j, outcome)
      BY <1>3
    <2> DEFINE job == [workerJobs[j] EXCEPT !.status = outcome]
    <2>1. workerJobs[j].status = Uncertain /\ Write(j, job, outcome)
      BY <2>0 DEF reconcile_worker_job
    <2>2. outcome \in JobStatus /\ outcome \in AttemptStatus /\ outcome # "RUNNING"
      BY DEF JobStatus, Terminal, AttemptStatus
    <2>3. job \in Job /\ job.status = outcome /\ job.key = workerJobs[j].key
      BY <1>1, <2>2, JobFields
    <2>4. StatusMove(workerJobs[j].status, outcome) /\ workerJobs[j].status \notin Terminal
      BY <2>1 DEF StatusMove, Terminal, Uncertain
    <2> HIDE DEF job
    <2> QED
      BY <2>1, <2>2, <2>3, <2>4, WriteMoves
  <1> QED
    BY <1>2, <1>3

\* A handler that recovers the job it looks at.
LEMMA RecoveryMoves ==
    ASSUME Inv, NEW j \in Jobs, recoverWorker(j)
    PROVE  /\ Jobs' = Jobs
           /\ \A k \in Jobs : JobMove(k)
           /\ \A i \in Attempts : AttemptMove(i)
  <1> DEFINE st == RecoveredStatus(j)
             job == [workerJobs[j] EXCEPT !.status = st]
  <1>1. workerJobs[j] \in Job
    BY Members DEF Inv
  <1>2. /\ workerJobs[j].status \in {"QUEUED", "CLAIMED", "RUNNING"}
        /\ Write(j, job, "EXPIRED")
    BY DEF recoverWorker, Due
  <1>3. StatusMove(workerJobs[j].status, st) /\ st \in JobStatus
    BY <1>2 DEF RecoveredStatus, StatusMove, JobStatus, Terminal, Uncertain
  <1>4. job \in Job /\ job.status = st /\ job.key = workerJobs[j].key
    BY <1>1, <1>3, JobFields
  <1>5. /\ "EXPIRED" \in AttemptStatus /\ "EXPIRED" # "RUNNING"
        /\ workerJobs[j].status \notin Terminal
    BY <1>2 DEF AttemptStatus, Terminal
  <1> HIDE DEF st, job
  <1> QED
    BY <1>2, <1>3, <1>4, <1>5, WriteMoves

\* A start, a heartbeat or a report.
LEMMA CallMoves ==
    ASSUME Inv, NEW i \in Attempts,
           \/ StartWorker(i)
           \/ HeartbeatWorker(i)
           \/ \E result \in Results : ReportWorker(i, result)
    PROVE  /\ Jobs' = Jobs
           /\ \A k \in Jobs : JobMove(k)
           /\ \A k \in Attempts : AttemptMove(k)
  <1> DEFINE j == workerAttempts[i].job
  <1>1. Admitted(i)
    BY DEF StartWorker, HeartbeatWorker, ReportWorker
  <1>2. j \in Jobs /\ workerJobs[j] \in Job /\ workerAttempts[i] \in Attempt
    BY <1>1, AdmittedCall
  <1>3. CASE StartWorker(i)
    <2> DEFINE job == [workerJobs[j] EXCEPT !.status = "RUNNING"]
               attempt == [workerAttempts[i] EXCEPT !.status = "RUNNING"]
               started == {[job |-> j, fence |-> workerJobs[j].fence]}
    <2>1. workerJobs[j].status = "CLAIMED" /\ WriteAttempt(i, job, attempt, started)
      BY <1>3 DEF StartWorker
    <2>2. "RUNNING" \in JobStatus /\ "RUNNING" \in AttemptStatus
      BY DEF JobStatus, AttemptStatus
    <2>3. job \in Job /\ job.key = workerJobs[j].key /\ job.status = "RUNNING"
      BY <1>2, <2>2, JobFields
    <2>4. attempt \in Attempt /\ started \in SUBSET Event
      BY <1>2, <2>2 DEF Attempt, Event, Job
    <2>5. StatusMove(workerJobs[j].status, "RUNNING")
      BY <2>1 DEF StatusMove
    <2> HIDE DEF j, job, attempt, started
    <2> QED
      BY <1>1, <1>2, <2>1, <2>3, <2>4, <2>5, WriteAttemptMoves DEF j
  <1>4. CASE HeartbeatWorker(i)
    <2> DEFINE attempt == [workerAttempts[i] EXCEPT !.leaseUntil = LeaseEnd(j)]
    <2>1. WriteAttempt(i, workerJobs[j], attempt, {})
      BY <1>4 DEF HeartbeatWorker
    <2>2. LeaseEnd(j) \in Nat
      BY <1>2, WorkerAssumption DEF LeaseEnd, Earlier, Inv, TypeOK, Job
    <2>3. attempt \in Attempt /\ {} \in SUBSET Event
      BY <1>2, <2>2 DEF Attempt
    <2>4. StatusMove(workerJobs[j].status, workerJobs[j].status)
      BY DEF StatusMove
    <2> HIDE DEF j, attempt
    <2> QED
      BY <1>1, <1>2, <2>1, <2>3, <2>4, WriteAttemptMoves DEF j
  <1>5. CASE \E result \in Results : ReportWorker(i, result)
    <2>0. PICK result \in Results : ReportWorker(i, result)
      BY <1>5
    <2> DEFINE st == Verdict(result)
               job == [workerJobs[j] EXCEPT !.status = st]
               attempt == [workerAttempts[i] EXCEPT !.status = st, !.report = result]
    <2>1. workerJobs[j].status = "RUNNING" /\ WriteAttempt(i, job, attempt, {})
      BY <2>0 DEF ReportWorker
    <2>2. st \in {"SUCCEEDED", "FAILED"} /\ st \in JobStatus /\ st \in AttemptStatus
      BY DEF JobStatus, AttemptStatus, Terminal, Verdict
    <2>3. job \in Job /\ job.key = workerJobs[j].key /\ job.status = st
      BY <1>2, <2>2, JobFields
    <2>4. attempt \in Attempt /\ {} \in SUBSET Event
      BY <1>2, <2>2 DEF Attempt
    <2>5. StatusMove(workerJobs[j].status, st)
      BY <2>1, <2>2 DEF StatusMove
    <2> HIDE DEF j, st, job, attempt
    <2> QED
      BY <1>1, <1>2, <2>1, <2>3, <2>4, <2>5, WriteAttemptMoves DEF j
  <1> QED
    BY <1>3, <1>4, <1>5

\* A claim, with everything its walk recovers.
LEMMA ClaimMoves ==
    ASSUME Inv, NEW p \in Workers, NEW capability \in Capabilities,
           NEW invalid, NEW unready,
           ClaimWorker(p, capability, invalid, unready)
    PROVE  /\ Jobs' = Jobs
           /\ \A j \in Jobs : JobMove(j)
           /\ \A i \in Attempts : AttemptMove(i)
  <1> DEFINE C == Claimed(capability, invalid, unready)
             job(j) == ClaimedJob(j, capability, invalid, unready)
             swept == [i \in Attempts |-> RecoveredAttempt(i, capability)]
  <1>1. /\ workerJobs' = [j \in Jobs |-> job(j)]
        /\ \/ workerAttempts' = swept
           \/ \E c \in C : workerAttempts' = Append(swept, NewAttempt(c, p))
        /\ clock' = clock
    BY DEF ClaimWorker
  <1>2. \A j \in Jobs \ C :
           /\ job(j).key = workerJobs[j].key
           /\ \/ job(j) = workerJobs[j]
              \/ /\ Due(j)
                 /\ job(j).status \in {"QUEUED", "FAILED", "DEADLINE_EXCEEDED", Uncertain}
                 /\ job(j).status = "QUEUED" => workerJobs[j].status = "CLAIMED"
              \/ /\ workerJobs[j].status = "QUEUED"
                 /\ job(j).status \in {Uncertain, "FAILED"}
    BY ClaimSweeps
  <1>3. \A c \in C :
           /\ job(c).key = workerJobs[c].key
           /\ job(c).status = "CLAIMED"
           /\ workerJobs[c].status \in {"QUEUED", "CLAIMED"}
    BY ClaimHandsOut
  <1>d. \A j \in Jobs \ C : Due(j) =>
           \/ job(j).status = RecoveredStatus(j)
           \/ job(j).status \in {Uncertain, "FAILED"} /\ RecoveredStatus(j) = "QUEUED"
           \/ job(j) = workerJobs[j]
    <2> SUFFICES ASSUME NEW j \in Jobs \ C, Due(j), job(j) # workerJobs[j]
                 PROVE  \/ job(j).status = RecoveredStatus(j)
                        \/ job(j).status \in {Uncertain, "FAILED"}
                             /\ RecoveredStatus(j) = "QUEUED"
      OBVIOUS
    <2> DEFINE st == CASE j \in Examined(capability, invalid, unready) \intersect invalid
                          -> Uncertain
                     [] /\ j \in Examined(capability, invalid, unready)
                                  \ (invalid \union unready)
                        /\ Exhausted(j) -> "FAILED"
                     [] OTHER -> StatusAfterRecovery(j)
    <2>1. job(j) = [workerJobs[j] EXCEPT !.status = st]
      BY DEF ClaimedJob
    <2>2. \/ st = StatusAfterRecovery(j)
          \/ st \in {Uncertain, "FAILED"} /\ StatusAfterRecovery(j) = "QUEUED"
      BY DEF Examined
    <2>3. StatusAfterRecovery(j) = RecoveredStatus(j)
      BY DEF StatusAfterRecovery
    <2> HIDE DEF st, job
    <2>4. job(j).status = st
      <3>1. workerJobs[j] \in Job
        BY Members DEF Inv
      <3> QED
        BY <2>1, <3>1 DEF Job
    <2> QED
      BY <2>2, <2>3, <2>4
  <1> HIDE DEF C, job
  <1>4. Jobs' = Jobs /\ \A j \in Jobs : workerJobs'[j] = job(j)
    BY <1>1 DEF Jobs
  <1>5. ASSUME NEW j \in Jobs PROVE JobMove(j)
    <2>1. CASE j \in C
      BY <1>3, <1>4, <2>1 DEF JobMove, StatusMove, Terminal
    <2>2. CASE j \notin C /\ job(j) = workerJobs[j]
      BY <1>4, <2>2 DEF JobMove, StatusMove
    <2>3. CASE j \notin C /\ workerJobs[j].status = "QUEUED"
               /\ job(j).status \in {Uncertain, "FAILED"}
      BY <1>2, <1>4, <2>3 DEF JobMove, StatusMove, Terminal
    <2>4. CASE j \notin C /\ Due(j) /\ job(j) # workerJobs[j]
      <3>1. workerJobs[j].status \in {"QUEUED", "CLAIMED", "RUNNING"}
        BY <2>4 DEF Due
      <3>2. StatusMove(workerJobs[j].status, job(j).status)
        BY <1>d, <2>4, <3>1 DEF RecoveredStatus, StatusMove, Uncertain
      <3> QED
        BY <1>2, <1>4, <2>4, <3>1, <3>2 DEF JobMove, Terminal
    <2> QED
      BY <1>2, <2>1, <2>2, <2>3, <2>4
  <1>6. ASSUME NEW i \in Attempts PROVE AttemptMove(i)
    <2>1. workerAttempts'[i] = swept[i]
      <3>1. swept \in Seq(Attempt) /\ i \in DOMAIN swept
        <4>1. \A k \in Attempts : swept[k] \in Attempt
          <5>1. \A a \in Attempt : [a EXCEPT !.status = "EXPIRED"] \in Attempt
            BY DEF Attempt, AttemptStatus
          <5>2. \A k \in Attempts : workerAttempts[k] \in Attempt
            BY Members DEF Inv
          <5> QED
            BY <5>1, <5>2 DEF RecoveredAttempt
        <4>2. swept \in [DOMAIN workerAttempts -> Attempt]
          BY <4>1 DEF Attempts
        <4> HIDE DEF swept
        <4> QED
          BY <4>2, SeqMap DEF Inv, TypeOK, Attempts
      <3> HIDE DEF swept
      <3>2. CASE workerAttempts' = swept
        BY <3>2
      <3>3. CASE \E c \in C : workerAttempts' = Append(swept, NewAttempt(c, p))
        <4>1. \A e : Append(swept, e)[i] = swept[i]
          BY <3>1
        <4> QED
          BY <3>3, <4>1
      <3> QED
        BY <1>1, <3>2, <3>3
    <2>2. CASE swept[i] = workerAttempts[i]
      BY <2>1, <2>2 DEF AttemptMove
    <2>3. CASE swept[i] # workerAttempts[i]
      <3>1. PICK j \in Matching(capability) : Due(j) /\ i \in currentWorkerAttempt(j)
        BY <2>3 DEF RecoveredAttempt
      <3>2. workerAttempts[i].job = j /\ workerJobs[j].status \notin Terminal
        BY <3>1 DEF currentWorkerAttempt, Due, Terminal
      <3>3. swept[i] = [workerAttempts[i] EXCEPT !.status = "EXPIRED"]
        BY <2>3 DEF RecoveredAttempt
      <3>4. workerAttempts[i] \in Attempt
        BY Members DEF Inv
      <3>5. /\ workerAttempts'[i].leaseUntil = workerAttempts[i].leaseUntil
            /\ workerAttempts'[i].report = workerAttempts[i].report
            /\ workerAttempts'[i].status = "EXPIRED"
        BY <2>1, <3>3, <3>4 DEF Attempt
      <3> QED
        BY <1>1, <3>2, <3>5 DEF AttemptMove
    <2> QED
      BY <2>2, <2>3
  <1> QED
    BY <1>4, <1>5, <1>6

\* A restore.
LEMMA RestoreMoves ==
    ASSUME Inv, RestoreBackup
    PROVE  /\ Jobs' = Jobs
           /\ \A j \in Jobs : JobMove(j)
           /\ \A i \in Attempts : AttemptMove(i)
  <1>1. /\ workerJobs' = [j \in Jobs |-> RestoredJob(j)] /\ clock' = clock
        /\ workerAttempts' = [i \in Attempts |->
              IF \E j \in Live : i \in currentWorkerAttempt(j)
              THEN [workerAttempts[i] EXCEPT !.status = Uncertain, !.leaseUntil = clock]
              ELSE workerAttempts[i]]
    BY DEF RestoreBackup
  <1>2. Jobs' = Jobs /\ \A j \in Jobs : workerJobs'[j] = RestoredJob(j)
    BY <1>1 DEF Jobs
  <1>3. ASSUME NEW j \in Jobs PROVE JobMove(j)
    <2>1. workerJobs[j] \in Job
      BY Members DEF Inv
    <2>2. CASE j \notin Live
      BY <1>2, <2>2 DEF RestoredJob, Live, JobMove, StatusMove
    <2>3. CASE j \in Live
      <3>1. /\ RestoredJob(j).status = Uncertain
            /\ RestoredJob(j).key = workerJobs[j].key
        BY <2>1, <2>3 DEF RestoredJob, Job
      <3>2. workerJobs[j].status \in {"QUEUED", "CLAIMED", "RUNNING", Uncertain}
        BY <2>1, <2>3 DEF Live, Job, JobStatus
      <3>3. workerJobs[j].status \notin Terminal
        BY <2>3 DEF Live
      <3> QED
        BY <1>2, <3>1, <3>2, <3>3 DEF JobMove, StatusMove
    <2> QED
      BY <2>2, <2>3
  <1>4. ASSUME NEW i \in Attempts PROVE AttemptMove(i)
    <2>1. workerAttempts[i] \in Attempt
      BY Members DEF Inv
    <2>2. CASE workerAttempts'[i] = workerAttempts[i]
      BY <2>2 DEF AttemptMove
    <2>3. CASE workerAttempts'[i] # workerAttempts[i]
      <3>1. PICK j \in Live : i \in currentWorkerAttempt(j)
        BY <1>1, <2>3
      <3>2. workerAttempts[i].job = j /\ workerJobs[j].status \notin Terminal
        BY <3>1 DEF currentWorkerAttempt, Live
      <3>3. workerAttempts'[i] = [workerAttempts[i] EXCEPT !.status = Uncertain,
                                                           !.leaseUntil = clock]
        BY <1>1, <2>3
      <3>4. /\ workerAttempts'[i].leaseUntil = clock
            /\ workerAttempts'[i].report = workerAttempts[i].report
            /\ workerAttempts'[i].status = Uncertain
        BY <2>1, <3>3 DEF Attempt
      <3> QED
        BY <1>1, <3>2, <3>4 DEF AttemptMove, Uncertain
    <2> QED
      BY <2>2, <2>3
  <1> QED
    BY <1>2, <1>3, <1>4

\* A job that appears is new to the product: it waits, under a key no job had.
Fresh(n) ==
    /\ workerJobs'[n].status = "QUEUED"
    /\ \A j \in Jobs : workerJobs[j].key # workerJobs'[n].key

\* A request.
LEMMA QueueMoves ==
    ASSUME Inv, NEW key \in Keys, NEW capability \in Capabilities,
           NEW deadline \in 1..MaxTime, NEW budget \in Budgets,
           queue_worker_job(key, capability, deadline, budget)
    PROVE  /\ \A j \in Jobs' \ Jobs : Fresh(j)
           /\ \A j \in Jobs : JobMove(j)
           /\ \A i \in Attempts : AttemptMove(i)
  <1> DEFINE job == NewJob(key, capability, deadline, budget)
             n == Len(workerJobs) + 1
  <1>1. /\ \A j \in Jobs : workerJobs[j].key # key
        /\ workerJobs' = Append(workerJobs, job)
        /\ workerAttempts' = workerAttempts
    BY DEF queue_worker_job
  <1>2. job \in Job /\ job.key = key /\ job.status = "QUEUED"
    <2>1. deadline \in Nat /\ "QUEUED" \in JobStatus
      BY WorkerAssumption DEF JobStatus
    <2> QED
      BY <2>1 DEF NewJob, Job
  <1> HIDE DEF job
  <1>3. /\ Jobs' = Jobs \union {n}
        /\ \A j \in Jobs : workerJobs'[j] = workerJobs[j]
        /\ workerJobs'[n] = job
    BY <1>1, <1>2, SeqAppend DEF Inv, TypeOK, Jobs
  <1> HIDE DEF n
  <1>4. \A j \in Jobs' \ Jobs : Fresh(j)
    BY <1>1, <1>2, <1>3 DEF Fresh
  <1>5. \A j \in Jobs : JobMove(j)
    BY <1>3 DEF JobMove, StatusMove
  <1>6. \A i \in Attempts : AttemptMove(i)
    BY <1>1 DEF AttemptMove
  <1> QED
    BY <1>4, <1>5, <1>6

\* The clock never goes back.
LEMMA ClockMoves ==
    ASSUME Inv, [Next]_vars
    PROVE  clock \in Nat /\ clock' \in Nat /\ clock <= clock'
  <1>1. clock \in Nat
    BY DEF Inv, TypeOK
  <1>2. clock' = clock \/ clock' = clock + 1
    BY DEF Next, Queue, queue_worker_job, cancel_worker_job, reconcile_worker_job,
           Claim, ClaimWorker, recoverWorker, StartWorker,
           HeartbeatWorker, ReportWorker, Write, WriteAttempt, RestoreBackup, Tick, vars
  <1> QED
    BY <1>1, <1>2

\* What any step may do.
LEMMA NextMoves ==
    ASSUME Inv, [Next]_vars
    PROVE  /\ \A j \in Jobs' \ Jobs : Fresh(j)
           /\ \A j \in Jobs : JobMove(j)
           /\ \A i \in Attempts : AttemptMove(i)
  <1>1. CASE Queue
    BY <1>1, QueueMoves DEF Queue
  <1>2. CASE \E j \in Jobs : cancel_worker_job(j)
    BY <1>2, CommandMoves
  <1>3. CASE \E j \in Jobs, outcome \in {"FAILED", "CANCELLED"} :
                reconcile_worker_job(j, outcome)
    BY <1>3, CommandMoves
  <1>4. CASE \E capability \in Capabilities : Claim(capability)
    BY <1>4, ClaimMoves DEF Claim
  <1>5. CASE \E j \in Jobs : recoverWorker(j)
    BY <1>5, RecoveryMoves
  <1>6. CASE \/ \E i \in Attempts : StartWorker(i)
             \/ \E i \in Attempts : HeartbeatWorker(i)
             \/ \E i \in Attempts, result \in Results : ReportWorker(i, result)
    BY <1>6, CallMoves
  <1>7. CASE RestoreBackup
    BY <1>7, RestoreMoves
  <1>8. CASE Tick \/ UNCHANGED vars
    <2>1. workerJobs' = workerJobs /\ workerAttempts' = workerAttempts
      BY <1>8 DEF Tick, vars
    <2> QED
      BY <2>1 DEF JobMove, AttemptMove, StatusMove, Jobs
  <1> QED
    BY <1>1, <1>2, <1>3, <1>4, <1>5, <1>6, <1>7, <1>8 DEF Next

\* A lease that has run out is never revived: no step extends it, starts or
\* reports under it, for any lease length, deadline and number of attempts.
THEOREM LeasesStayDead == Spec => ExpiredLeaseIsDead
  <1> DEFINE Step == \A i \in Attempts :
                        clock >= workerAttempts[i].leaseUntil =>
                          /\ workerAttempts'[i].leaseUntil <= clock'
                          /\ workerAttempts'[i].report = workerAttempts[i].report
                          /\ workerAttempts'[i].status = "RUNNING"
                                => workerAttempts[i].status = "RUNNING"
  <1>1. ASSUME Inv, [Next]_vars PROVE Step
    <2> SUFFICES ASSUME NEW i \in Attempts, clock >= workerAttempts[i].leaseUntil
                 PROVE  /\ workerAttempts'[i].leaseUntil <= clock'
                        /\ workerAttempts'[i].report = workerAttempts[i].report
                        /\ workerAttempts'[i].status = "RUNNING"
                              => workerAttempts[i].status = "RUNNING"
      OBVIOUS
    <2>1. clock \in Nat /\ clock' \in Nat /\ clock <= clock'
      BY <1>1, ClockMoves
    <2>2. AttemptMove(i)
      BY <1>1, NextMoves
    <2>3. workerAttempts[i].leaseUntil \in Nat
      BY <1>1, Members DEF Inv, Attempt
    <2> QED
      BY <2>1, <2>2, <2>3 DEF AttemptMove
  <1> HIDE DEF Step
  <1>2. Inv /\ [Next]_vars => [Step]_vars
    BY <1>1
  <1>3. Spec => [][Step]_vars
    BY InvariantHolds, <1>2, PTL DEF Spec
  <1> QED
    BY <1>3 DEF ExpiredLeaseIsDead, Step

\* What is settled stays settled, jobs and attempts alike.
THEOREM SettledStays == Spec => SettledIsFinal
  <1> DEFINE Step == /\ \A j \in Jobs : workerJobs[j].status \in Terminal =>
                           workerJobs'[j] = workerJobs[j]
                     /\ \A i \in Attempts :
                           workerJobs[workerAttempts[i].job].status \in Terminal =>
                              workerAttempts'[i] = workerAttempts[i]
  <1>1. ASSUME Inv, [Next]_vars PROVE Step
    <2>1. \A j \in Jobs : workerJobs[j].status \in Terminal =>
             workerJobs'[j] = workerJobs[j]
      BY <1>1, NextMoves DEF JobMove
    <2>2. \A i \in Attempts :
             workerJobs[workerAttempts[i].job].status \in Terminal =>
                workerAttempts'[i] = workerAttempts[i]
      BY <1>1, NextMoves DEF AttemptMove
    <2> QED
      BY <2>1, <2>2
  <1> HIDE DEF Step
  <1>2. Inv /\ [Next]_vars => [Step]_vars
    BY <1>1
  <1>3. Spec => [][Step]_vars
    BY InvariantHolds, <1>2, PTL DEF Spec
  <1> QED
    BY <1>3 DEF SettledIsFinal, Step

-----------------------------------------------------------------------------
(***************************************************************************)
(* The protocol implements the lifecycle                                   *)
(***************************************************************************)

\* A move of a status shows as a move of the phase, or not at all.
LEMMA StatusMovesPhase ==
    ASSUME NEW old \in JobStatus, NEW new \in JobStatus, StatusMove(old, new)
    PROVE  PhaseOf(new) = PhaseOf(old) \/ <<PhaseOf(old), PhaseOf(new)>> \in Lifecycle!Moves
  BY DEF StatusMove, JobStatus, Terminal, Uncertain, PhaseOf, Lifecycle!Moves

\* The phase of a key is the phase of the only job with that key.
LEMMA PhaseOfTheJob ==
    ASSUME UniqueKeys, NEW j \in Jobs
    PROVE  PhaseOfKey(workerJobs[j].key) = PhaseOf(workerJobs[j].status)
  <1>1. JobsOf(workerJobs[j].key) = {j}
    BY DEF UniqueKeys, JobsOf
  <1>2. (CHOOSE k \in {j} : TRUE) = j
    OBVIOUS
  <1> QED
    BY <1>1, <1>2 DEF PhaseOfKey

\* Every step shows to the requester as a step of the lifecycle or not at all.
LEMMA StepsAreLifecycleSteps ==
    ASSUME Inv, Inv', [Next]_vars
    PROVE  Lifecycle!Next
  <1>1. ASSUME NEW key \in Keys
        PROVE  /\ PhaseOfKey(key)' \in Lifecycle!Phases
               /\ PhaseOfKey(key)' # PhaseOfKey(key)
                    => <<PhaseOfKey(key), PhaseOfKey(key)'>> \in Lifecycle!Moves
    <2>1. CASE JobsOf(key) # {}
      <3>1. PICK j \in Jobs : workerJobs[j].key = key
        BY <2>1 DEF JobsOf
      <3>2. JobMove(j)
        BY NextMoves
      <3>3. /\ PhaseOfKey(key) = PhaseOf(workerJobs[j].status)
            /\ workerJobs[j].status \in JobStatus
        BY <3>1, PhaseOfTheJob, Members DEF Inv, Job
      <3>4. /\ j \in Jobs' /\ workerJobs'[j].key = key
            /\ StatusMove(workerJobs[j].status, workerJobs'[j].status)
        BY <3>1, <3>2 DEF JobMove
      <3>5. JobsOf(key)' = {j}
        BY <3>4 DEF Inv, UniqueKeys, JobsOf
      <3>6. PhaseOfKey(key)' = PhaseOf(workerJobs'[j].status)
        <4>1. (CHOOSE k \in {j} : TRUE) = j
          OBVIOUS
        <4> QED
          BY <3>5, <4>1 DEF PhaseOfKey, PhaseOf
      <3>7. workerJobs'[j].status \in JobStatus
        <4>1. workerJobs' \in Seq(Job) /\ j \in DOMAIN workerJobs'
          BY <3>4 DEF Inv, TypeOK, Jobs
        <4>2. workerJobs'[j] \in Job
          BY <4>1
        <4> QED
          BY <4>2 DEF Job
      <3>8. PhaseOf(workerJobs'[j].status) \in Lifecycle!Phases
        BY DEF PhaseOf, Lifecycle!Phases
      <3> QED
        BY <3>3, <3>4, <3>6, <3>7, <3>8, StatusMovesPhase
    <2>2. CASE JobsOf(key) = {} /\ JobsOf(key)' = {}
      BY <2>2 DEF PhaseOfKey, Lifecycle!Phases
    <2>3. CASE JobsOf(key) = {} /\ JobsOf(key)' # {}
      <3>1. PICK n \in JobsOf(key)' : n = CHOOSE k \in JobsOf(key)' : TRUE
        BY <2>3
      <3>2. n \in Jobs' \ Jobs
        <4>1. n \in Jobs' /\ workerJobs'[n].key = key
          BY <3>1 DEF JobsOf
        <4>2. n \in Jobs => workerJobs'[n].key = workerJobs[n].key
          BY NextMoves DEF JobMove
        <4> QED
          BY <2>3, <4>1, <4>2 DEF JobsOf
      <3>3. workerJobs'[n].status = "QUEUED"
        BY <3>2, NextMoves DEF Fresh
      <3>4. PhaseOfKey(key)' = PhaseOf("QUEUED")
        BY <2>3, <3>1, <3>3 DEF PhaseOfKey, PhaseOf
      <3>5. PhaseOf("QUEUED") = "waiting"
        BY DEF PhaseOf, Uncertain
      <3>6. PhaseOfKey(key) = "absent"
        BY <2>3 DEF PhaseOfKey
      <3> QED
        BY <3>4, <3>5, <3>6 DEF Lifecycle!Phases, Lifecycle!Moves
    <2> QED
      BY <2>1, <2>2, <2>3
  <1>2. [key \in Keys |-> PhaseOfKey(key)]' = [key \in Keys |-> PhaseOfKey(key)']
    OBVIOUS
  <1> QED
    BY <1>1, <1>2 DEF Lifecycle!Next

\* The protocol implements the lifecycle promised to the requester.
THEOREM LifecycleImplemented == Spec => ImplementsLifecycle
  <1>1. Init => Lifecycle!Init
    <2> SUFFICES ASSUME Init PROVE \A key \in Keys : PhaseOfKey(key) = "absent"
      BY DEF Lifecycle!Init
    <2> QED
      BY DEF Init, PhaseOfKey, JobsOf, Jobs
  <1>2. Inv /\ Inv' /\ [Next]_vars => Lifecycle!Next
    BY StepsAreLifecycleSteps
  <1> QED
    BY InvariantHolds, <1>1, <1>2, PTL DEF Spec, ImplementsLifecycle, Lifecycle!Spec

-----------------------------------------------------------------------------
(***************************************************************************)
(* Part 2: the check publication                                           *)
(***************************************************************************)

\* A tick that may still recover a job is about a job that exists.
TickOK ==
    /\ DOMAIN tick = Servers /\ tick = [s \in Servers |-> tick[s]]
    /\ \A s \in Servers : tick[s].stage = "BEGIN" => tick[s].job \in Jobs

\* Jobs are never removed.
LEMMA JobsGrow ==
    ASSUME Inv, [Next]_vars
    PROVE  Jobs \subseteq Jobs'
  <1>1. CASE Queue
    <2>1. workerJobs \in Seq(Job)
      BY DEF Inv, TypeOK
    <2>2. \E job : workerJobs' = Append(workerJobs, job)
      BY <1>1 DEF Queue, queue_worker_job
    <2> QED
      BY <2>1, <2>2 DEF Jobs
  <1>2. CASE UNCHANGED vars
    BY <1>2 DEF vars, Jobs
  <1>3. CASE ~Queue /\ Next
    <2>1. DOMAIN workerJobs' = DOMAIN workerJobs
      BY <1>3 DEF Next, cancel_worker_job, reconcile_worker_job, Claim, ClaimWorker,
                  recoverWorker, StartWorker, HeartbeatWorker, ReportWorker,
                  Write, WriteAttempt, RestoreBackup, Tick, Jobs
    <2> QED
      BY <2>1 DEF Jobs
  <1> QED
    BY <1>1, <1>2, <1>3

\* What a server does to a job is a recovery or nothing.
LEMMA TickIsStep ==
    ASSUME TickOK, NEW s \in Servers, tickCheck(s)
    PROVE  [Next]_vars
  <1> DEFINE j == tick[s].job
  <1>1. CASE /\ tick[s].stage = "BEGIN"
             /\ RecoverJob(j)
    <2>1. j \in Jobs
      BY <1>1 DEF TickOK
    <2> QED
      BY <1>1, <2>1 DEF RecoverJob, Next, vars
  <1>2. CASE UNCHANGED jobVars
    BY <1>2 DEF jobVars, vars
  <1> QED
    BY <1>1, <1>2 DEF tickCheck, TakeCheck, LeaseLost, RefuseCheck, IntendCreate,
         IntendFind, IntendRead, ObserveUnchanged, IntendUpdate, MayObserve, SendCheck,
         ReadRun, PostIORefused, RecordOutcome

\* Every step of the composition is a step of the protocol or leaves it alone.
LEMMA CheckStepIsStep ==
    ASSUME WorkerAssumption, CheckAssumption, TickOK, [CheckNext]_allVars
    PROVE  [Next]_vars
  <1>1. CASE QueueWithCheck
    <2>1. PICK key \in Keys, capability \in Capabilities, budget \in Budgets,
               deadline \in 1..(MaxTime - Finalize) :
                  queue_worker_job(key, capability, deadline, budget)
      BY <1>1 DEF QueueWithCheck
    <2>2. deadline \in 1..MaxTime
      BY WorkerAssumption, CheckAssumption DEF WorkerAssumption, CheckAssumption
    <2> QED
      BY <2>1, <2>2 DEF Queue, Next
  <1>2. CASE JobStep
    <2>1. ASSUME NEW capability \in Capabilities, ClaimReady(capability)
          PROVE  Claim(capability)
      BY <2>1 DEF ClaimReady, Claim
    <2> QED
      BY <1>2, <2>1 DEF JobStep, Next
  <1>3. CASE TimePasses \/ RestoreWithChecks
    BY <1>3 DEF TimePasses, RestoreWithChecks, Next
  <1>4. CASE \E s \in Servers : tickCheck(s)
    BY <1>4, TickIsStep
  <1>5. CASE \/ \E m \in wire : ProcessRequest(m)
             \/ \E s \in Servers : CallFails(s)
             \/ \E s \in Servers : ServerDies(s)
             \/ \E j \in Checks : CheckLeaseEnds(j)
             \/ UNCHANGED allVars
    BY <1>5 DEF ProcessRequest, CallFails, ServerDies, CheckLeaseEnds, allVars, jobVars, vars
  <1> QED
    BY <1>1, <1>2, <1>3, <1>4, <1>5 DEF CheckNext

\* Replacing the tick of one server by one that has not just begun, or that has
\* begun with a job that exists.
LEMMA TickReplaced ==
    ASSUME TickOK, NEW s, NEW v, tick' = [tick EXCEPT ![s] = v],
           v.stage = "BEGIN" => v.job \in Jobs', Jobs \subseteq Jobs'
    PROVE  TickOK'
  BY DEF TickOK

LEMMA TickKept ==
    ASSUME TickOK, UNCHANGED tick, Jobs \subseteq Jobs'
    PROVE  TickOK'
  BY DEF TickOK

\* A tick begins with a job that exists, and jobs stay.
LEMMA TickOKPreserved ==
    ASSUME TickOK, [CheckNext]_allVars, Jobs \subseteq Jobs'
    PROVE  TickOK'
  <1>1. CASE QueueWithCheck \/ JobStep \/ TimePasses \/ UNCHANGED allVars
    BY <1>1, TickKept DEF QueueWithCheck, JobStep, TimePasses, allVars, checkVars
  <1>2. CASE RestoreWithChecks
    BY <1>2 DEF RestoreWithChecks, TickOK, NoTick
  <1>3. CASE \E s \in Servers : tickCheck(s)
    <2>1. PICK s \in Servers : tickCheck(s)
      BY <1>3
    <2>2. CASE \E j \in Jobs : TakeCheck(s, j)
      <3>1. PICK j \in Jobs : TakeCheck(s, j)
        BY <2>2
      <3> DEFINE v == [stage |-> "BEGIN", job |-> j]
      <3>2. tick' = [tick EXCEPT ![s] = v] /\ v.job \in Jobs'
        BY <3>1 DEF TakeCheck
      <3> QED
        BY <3>2, TickReplaced
    <2>3. CASE tick' = [tick EXCEPT ![s] = NoTick]
      <3>1. NoTick.stage # "BEGIN"
        BY DEF NoTick
      <3> QED
        BY <2>3, <3>1, TickReplaced
    <2>4. CASE \E phase, intent, action : Intend(s, tick[s].job, phase, intent, action)
      <3>1. PICK phase, intent, action : Intend(s, tick[s].job, phase, intent, action)
        BY <2>4
      <3> DEFINE v == [stage |-> "CALL", job |-> tick[s].job, action |-> action,
                       intent |-> intent]
      <3>2. tick' = [tick EXCEPT ![s] = v] /\ v.stage # "BEGIN"
        BY <3>1 DEF Intend
      <3> QED
        BY <3>2, TickReplaced
    <2>5. CASE SendCheck(s)
      <3> DEFINE v == [stage |-> "WAIT", job |-> tick[s].job, intent |-> tick[s].intent]
      <3>1. tick' = [tick EXCEPT ![s] = v] /\ v.stage # "BEGIN"
        BY <2>5 DEF SendCheck
      <3> QED
        BY <3>1, TickReplaced
    <2>6. CASE ReadRun(s)
      <3> DEFINE v == Answer(tick[s], runs[tick[s].job])
      <3>1. tick' = [tick EXCEPT ![s] = v] /\ v.stage # "BEGIN"
        BY <2>6 DEF ReadRun, Answer
      <3> QED
        BY <3>1, TickReplaced
    <2> QED
      BY <2>1, <2>2, <2>3, <2>4, <2>5, <2>6
      DEF tickCheck, LeaseLost, RefuseCheck, GiveUp, IntendCreate, IntendFind, IntendRead,
          IntendUpdate, ObserveUnchanged, PostIORefused, RecordOutcome
  <1>4. CASE \E m \in wire : ProcessRequest(m)
    <2>1. PICK m \in wire : ProcessRequest(m)
      BY <1>4
    <2> DEFINE v == Answer(tick[m.from], m.payload)
    <2>2. tick' = tick \/ (tick' = [tick EXCEPT ![m.from] = v] /\ v.stage # "BEGIN")
      BY <2>1 DEF ProcessRequest, Answer
    <2> QED
      BY <2>2, TickReplaced, TickKept
  <1>5. CASE \E s \in Servers : CallFails(s)
    <2>1. PICK s \in Servers : CallFails(s)
      BY <1>5
    <2> DEFINE v == Answer(tick[s], None)
    <2>2. tick' = [tick EXCEPT ![s] = v] /\ v.stage # "BEGIN"
      BY <2>1 DEF CallFails, Answer
    <2> QED
      BY <2>2, TickReplaced
  <1>6. CASE \E s \in Servers : ServerDies(s)
    <2>1. PICK s \in Servers : ServerDies(s)
      BY <1>6
    <2>2. tick' = [tick EXCEPT ![s] = NoTick] /\ NoTick.stage # "BEGIN"
      BY <2>1 DEF ServerDies, NoTick
    <2> QED
      BY <2>2, TickReplaced
  <1>7. CASE \E j \in Checks : CheckLeaseEnds(j)
    BY <1>7, TickKept DEF CheckLeaseEnds
  <1> QED
    BY <1>1, <1>2, <1>3, <1>4, <1>5, <1>6, <1>7 DEF CheckNext

\* The publication of checks, its Ticks, its lost and late requests and its
\* restores included, takes only steps the worker protocol allows: gating the
\* claim and recovering the job from tickCheck break none of its guarantees.
THEOREM ProtocolKept == CheckSpec => Spec
  <1>1. CheckInit => Init /\ TickOK
    BY DEF CheckInit, TickOK, NoTick
  <1>2. Init => Inv
    BY InvInit
  <1>3. Inv /\ TickOK /\ [CheckNext]_allVars => Inv' /\ TickOK' /\ [Next]_vars
    <2> SUFFICES ASSUME Inv, TickOK, [CheckNext]_allVars
                 PROVE  Inv' /\ TickOK' /\ [Next]_vars
      OBVIOUS
    <2>1. [Next]_vars
      BY CheckStepIsStep, WorkerAssumption, CheckAssumption
    <2>2. Jobs \subseteq Jobs'
      BY <2>1, JobsGrow
    <2>3. TickOK'
      BY <2>2, TickOKPreserved
    <2>4. Inv'
      BY <2>1, InvStep
    <2> QED
      BY <2>1, <2>3, <2>4
  <1> QED
    BY <1>1, <1>2, <1>3, PTL DEF CheckSpec, Spec

\* With checks, too, no job is ever started twice.
THEOREM NoSecondStartWithChecks == CheckSpec => []StartedAtMostOnce
  BY ProtocolKept, NoSecondStart, PTL

-----------------------------------------------------------------------------
(***************************************************************************)
(* The inductive invariant of the publication                              *)
(***************************************************************************)

\* What a payload says is true of the job, and nothing can make it untrue.
Honest(job, now, w) ==
    /\ validCheckPayload(w)
    /\ w.conclusion = "success" => job.status = "SUCCEEDED"
    /\ w.conclusion = "failure" => job.status = "FAILED"
    /\ w.conclusion = "cancelled" => job.cancellationRequested \/ job.status = "CANCELLED"
    /\ w.conclusion = "timed_out" => now >= job.deadline /\ job.status # "SUCCEEDED"

\* What a job satisfies besides the invariant of the protocol.
DeadlineOK(job, now) == job.status = "DEADLINE_EXCEEDED" => now >= job.deadline

\* What the stored operation of a check satisfies by itself.
CheckOK(c) ==
    /\ c.status \in Ended => ~c.leased
    /\ c.intent = None => c.phase = "CHECK_CREATE_READY"
    /\ c.phase = "CHECK_CREATE_READY" =>
          c.intent = None /\ c.observed = None /\ c.observations = 0
    /\ c.phase = "CHECK_CREATE_UNCERTAIN" => c.observed = None /\ c.intent.status = "queued"
    /\ c.phase \in {"CHECK_OBSERVE", "CHECK_UPDATE_UNCERTAIN"} => c.observed # None
    /\ c.status = "SUCCEEDED" => c.observed = c.intent /\ c.intent.status = "completed"

\* What is stored and what is shown is true of the job.
JobIsShown(c, run, job, now) ==
    /\ DeadlineOK(job, now)
    /\ CheckOK(c)
    /\ \A w \in {c.intent, c.observed, run} \ {None} : Honest(job, now, w)

\* A Tick under way carries what is true of its job, and the intent that is
\* stored as long as its lease holds.
TickCarries(s, t) ==
    t.stage # "NONE" =>
      /\ t.job \in Jobs
      /\ t.stage # "BEGIN" =>
           /\ Honest(workerJobs[t.job], clock, t.intent)
           /\ checks[t.job].leased /\ checks[t.job].owner = s => checks[t.job].intent = t.intent

\* A request on the wire is one its sender waits for, or nobody does.
RequestOK(m) ==
    /\ m.job \in Jobs
    /\ Honest(workerJobs[m.job], clock, m.payload)
    /\ m.from # None =>
         /\ tick[m.from].stage = "WAIT"
         /\ tick[m.from].job = m.job /\ tick[m.from].intent = m.payload

OneRequestEach == \A m, n \in wire : m.from = n.from /\ m.from # None => m = n

\* The single permission to create the check of job j: it is in the stored
\* phase, then with a Tick about to send, then on the wire, then used.
Creating(s, j) == tick[s].stage = "CALL" /\ tick[s].action = "create" /\ tick[s].job = j

CreateRequests(j) == {m \in wire : m.action = "create" /\ m.job = j}

OneCreation(j) ==
    /\ created[j] <= 1
    /\ checks[j].phase = "CHECK_CREATE_READY" \/ created[j] = 1 \/ CreateRequests(j) # {} =>
         \A s \in Servers : ~Creating(s, j)
    /\ checks[j].phase = "CHECK_CREATE_READY" \/ created[j] = 1 => CreateRequests(j) = {}
    /\ checks[j].phase = "CHECK_CREATE_READY" => created[j] = 0
    /\ \A m, n \in CreateRequests(j) : m = n
    /\ \A s, r \in Servers : Creating(s, j) /\ Creating(r, j) => s = r

CheckInv ==
    /\ CheckTypeOK
    /\ \A j \in Jobs : JobIsShown(checks[j], runs[j], workerJobs[j], clock)
    /\ \A s \in Servers : TickCarries(s, tick[s])
    /\ \A m \in wire : RequestOK(m)
    /\ OneRequestEach
    /\ \A j \in Jobs : OneCreation(j)

-----------------------------------------------------------------------------
(***************************************************************************)
(* What a step may do to a job                                             *)
(***************************************************************************)

\* The deadline stays, a cancellation sticks, what has ended stays as it is,
\* a success is reported before the deadline and the deadline is exceeded at it.
JobKept(old, new, now) ==
    /\ new.deadline = old.deadline
    /\ old.cancellationRequested => new.cancellationRequested
    /\ old.status \in Terminal => new = old
    /\ new.status = "SUCCEEDED" => old.status = "SUCCEEDED" \/ now < old.deadline
    /\ new.status = "DEADLINE_EXCEEDED" => old.status = "DEADLINE_EXCEEDED" \/ now >= old.deadline

JobsKept == \A k \in Jobs : k \in Jobs' /\ JobKept(workerJobs[k], workerJobs'[k], clock)

\* A transaction that replaces one job.
LEMMA OneJobKept ==
    ASSUME TypeOK, NEW j \in Jobs, NEW job, workerJobs' = [workerJobs EXCEPT ![j] = job],
           JobKept(workerJobs[j], job, clock)
    PROVE  JobsKept
  <1>1. Jobs' = Jobs /\ \A k \in Jobs : workerJobs'[k] = IF k = j THEN job ELSE workerJobs[k]
    BY DEF TypeOK, Jobs
  <1>2. \A k \in Jobs : JobKept(workerJobs[k], workerJobs[k], clock)
    BY DEF JobKept
  <1> QED
    BY <1>1, <1>2 DEF JobsKept

LEMMA SameJobsKept ==
    ASSUME workerJobs' = workerJobs
    PROVE  JobsKept
  BY DEF JobsKept, JobKept, Jobs

\* A cancellation, a reconciliation or a recovery.
LEMMA CommandKeeps ==
    ASSUME TypeOK, NEW j \in Jobs,
           \/ cancel_worker_job(j)
           \/ \E outcome \in {"FAILED", "CANCELLED"} : reconcile_worker_job(j, outcome)
           \/ recoverWorker(j)
    PROVE  JobsKept
  <1>1. workerJobs[j] \in Job
    BY Members
  <1>2. CASE cancel_worker_job(j)
    <2> DEFINE job == [workerJobs[j] EXCEPT
                  !.status = IF @ \in {"RUNNING", Uncertain} THEN Uncertain
                             ELSE "CANCELLED",
                  !.cancellationRequested = TRUE]
    <2>1. workerJobs[j].status \notin Terminal /\ workerJobs' = [workerJobs EXCEPT ![j] = job]
      BY <1>2 DEF cancel_worker_job, Write
    <2>2. JobKept(workerJobs[j], job, clock)
      BY <1>1, <2>1 DEF JobKept, Job, Uncertain
    <2> HIDE DEF job
    <2> QED
      BY <2>1, <2>2, OneJobKept
  <1>3. ASSUME NEW outcome \in {"FAILED", "CANCELLED"}, reconcile_worker_job(j, outcome)
        PROVE  JobsKept
    <2> DEFINE job == [workerJobs[j] EXCEPT !.status = outcome]
    <2>1. workerJobs[j].status = Uncertain /\ workerJobs' = [workerJobs EXCEPT ![j] = job]
      BY <1>3 DEF reconcile_worker_job, Write
    <2>2. JobKept(workerJobs[j], job, clock)
      BY <1>1, <2>1 DEF JobKept, Job, Uncertain, Terminal
    <2> HIDE DEF job
    <2> QED
      BY <2>1, <2>2, OneJobKept
  <1>4. CASE recoverWorker(j)
    <2> DEFINE st == RecoveredStatus(j)
               job == [workerJobs[j] EXCEPT !.status = st]
    <2>1. /\ workerJobs[j].status \in {"QUEUED", "CLAIMED", "RUNNING"}
          /\ workerJobs' = [workerJobs EXCEPT ![j] = job]
      BY <1>4 DEF recoverWorker, Due, Write
    <2>2. st # "SUCCEEDED" /\ (st = "DEADLINE_EXCEEDED" => clock >= workerJobs[j].deadline)
      BY <1>4, <2>1 DEF recoverWorker, Due, LeaseExpired, RecoveredStatus, Uncertain
    <2> HIDE DEF st
    <2>3. JobKept(workerJobs[j], job, clock)
      BY <1>1, <2>1, <2>2 DEF JobKept, Job, Terminal
    <2> HIDE DEF job
    <2> QED
      BY <2>1, <2>3, OneJobKept
  <1> QED
    BY <1>2, <1>3, <1>4

\* A call of a worker that is admitted.
LEMMA CallKeeps ==
    ASSUME Inv, NEW i \in Attempts,
           \/ StartWorker(i)
           \/ HeartbeatWorker(i)
           \/ \E result \in Results : ReportWorker(i, result)
    PROVE  JobsKept
  <1> DEFINE j == workerAttempts[i].job
  <1>1. /\ j \in Jobs /\ clock < workerJobs[j].deadline
        /\ workerJobs[j].status \notin Terminal
    BY DEF Inv, AttemptsOK, StartWorker, HeartbeatWorker, ReportWorker, Admitted
  <1>2. workerJobs[j] \in Job
    BY <1>1, Members DEF Inv
  <1>3. \/ workerJobs' = [workerJobs EXCEPT ![j] = workerJobs[j]]
        \/ \E st \in {"RUNNING", "SUCCEEDED", "FAILED"} :
              workerJobs' = [workerJobs EXCEPT ![j] = [workerJobs[j] EXCEPT !.status = st]]
    BY DEF StartWorker, HeartbeatWorker, ReportWorker, WriteAttempt, Verdict
  <1> HIDE DEF j
  <1>4. CASE workerJobs' = [workerJobs EXCEPT ![j] = workerJobs[j]]
    <2>1. JobKept(workerJobs[j], workerJobs[j], clock)
      BY DEF JobKept
    <2> QED
      BY <1>1, <1>4, <2>1, OneJobKept DEF Inv
  <1>5. ASSUME NEW st \in {"RUNNING", "SUCCEEDED", "FAILED"},
               workerJobs' = [workerJobs EXCEPT ![j] = [workerJobs[j] EXCEPT !.status = st]]
        PROVE  JobsKept
    <2> DEFINE job == [workerJobs[j] EXCEPT !.status = st]
    <2>1. JobKept(workerJobs[j], job, clock)
      BY <1>1, <1>2 DEF JobKept, Job
    <2> QED
      BY <1>1, <1>5, <2>1, OneJobKept DEF Inv
  <1> QED
    BY <1>3, <1>4, <1>5

\* A claim, with everything its walk recovers.
LEMMA ClaimKeeps ==
    ASSUME Inv, NEW p, NEW capability, NEW invalid, NEW unready,
           ClaimWorker(p, capability, invalid, unready)
    PROVE  JobsKept
  <1>1. workerJobs' = [j \in Jobs |-> ClaimedJob(j, capability, invalid, unready)]
    BY DEF ClaimWorker
  <1>2. ASSUME NEW j \in Jobs
        PROVE  JobKept(workerJobs[j], ClaimedJob(j, capability, invalid, unready), clock)
    <2> DEFINE job == ClaimedJob(j, capability, invalid, unready)
    <2>1. workerJobs[j] \in Job
      BY Members DEF Inv
    <2>2. /\ StatusAfterRecovery(j) \in {"SUCCEEDED", "DEADLINE_EXCEEDED"} =>
               \/ workerJobs[j].status = StatusAfterRecovery(j)
               \/ StatusAfterRecovery(j) = "DEADLINE_EXCEEDED" /\ clock >= workerJobs[j].deadline
          /\ workerJobs[j].status \in Terminal => StatusAfterRecovery(j) = workerJobs[j].status
      <3>1. CASE ~Due(j)
        BY <3>1 DEF StatusAfterRecovery
      <3>2. CASE Due(j)
        <4>1. /\ workerJobs[j].status \in {"QUEUED", "CLAIMED", "RUNNING"}
              /\ StatusAfterRecovery(j) = RecoveredStatus(j)
          BY <3>2 DEF Due, StatusAfterRecovery
        <4>2. /\ RecoveredStatus(j) # "SUCCEEDED"
              /\ RecoveredStatus(j) = "DEADLINE_EXCEEDED" => clock >= workerJobs[j].deadline
          BY <3>2 DEF Due, LeaseExpired, RecoveredStatus, Uncertain
        <4> QED
          BY <4>1, <4>2 DEF Terminal
      <3> QED
        BY <3>1, <3>2
    <2>3. CASE job = workerJobs[j]
      BY <2>3 DEF JobKept
    <2>4. CASE j \in Claimed(capability, invalid, unready) /\ j \in Matching(capability)
      <3>1. StatusAfterRecovery(j) = "QUEUED"
        BY <2>4 DEF Claimed, Claimable
      <3>2. workerJobs[j].status \notin Terminal
        BY <2>2, <3>1 DEF Terminal
      <3>3. job = [workerJobs[j] EXCEPT !.status = "CLAIMED", !.fence = @ + 1]
        BY <2>4 DEF ClaimedJob
      <3> QED
        BY <2>1, <3>2, <3>3 DEF JobKept, Job
    <2>5. CASE j \notin Claimed(capability, invalid, unready) /\ j \in Matching(capability)
      <3> DEFINE E == Examined(capability, invalid, unready)
                 st == CASE j \in E \intersect invalid -> Uncertain
                         [] j \in E \ (invalid \union unready) /\ Exhausted(j) -> "FAILED"
                         [] OTHER -> StatusAfterRecovery(j)
      <3>1. job = [workerJobs[j] EXCEPT !.status = st]
        BY <2>5 DEF ClaimedJob
      <3>2. \/ st = StatusAfterRecovery(j)
            \/ st \in {Uncertain, "FAILED"} /\ StatusAfterRecovery(j) = "QUEUED"
        BY DEF Examined
      <3> HIDE DEF st, E
      <3>3. workerJobs[j].status \in Terminal => st = workerJobs[j].status
        BY <2>2, <3>2 DEF Terminal
      <3>4. /\ job.status = st /\ job.deadline = workerJobs[j].deadline
            /\ job.cancellationRequested = workerJobs[j].cancellationRequested
            /\ st = workerJobs[j].status => job = workerJobs[j]
        BY <2>1, <3>1 DEF Job
      <3>5. /\ st = "SUCCEEDED" => workerJobs[j].status = "SUCCEEDED"
            /\ st = "DEADLINE_EXCEEDED" => \/ workerJobs[j].status = "DEADLINE_EXCEEDED"
                                           \/ clock >= workerJobs[j].deadline
        BY <2>2, <3>2 DEF Uncertain
      <3> QED
        BY <3>3, <3>4, <3>5 DEF JobKept
    <2> QED
      BY <2>3, <2>4, <2>5 DEF ClaimedJob
  <1>3. Jobs' = Jobs
    BY <1>1 DEF Jobs
  <1> QED
    BY <1>1, <1>2, <1>3 DEF JobsKept

\* Every step of the protocol keeps its jobs.
LEMMA StepKeepsJobs ==
    ASSUME Inv, [Next]_vars
    PROVE  JobsKept /\ clock \in Nat /\ clock' \in Nat /\ clock <= clock'
  <1>1. JobsKept
    <2>1. CASE Queue
      <3>1. PICK job : workerJobs' = Append(workerJobs, job)
        BY <2>1 DEF Queue, queue_worker_job
      <3>2. workerJobs \in Seq(Job)
        BY DEF Inv, TypeOK
      <3>3. \A k \in Jobs : k \in Jobs' /\ workerJobs'[k] = workerJobs[k]
        BY <3>1, <3>2 DEF Jobs
      <3> QED
        BY <3>3 DEF JobsKept, JobKept
    <2>2. CASE \/ \E j \in Jobs : cancel_worker_job(j)
               \/ \E j \in Jobs, outcome \in {"FAILED", "CANCELLED"} :
                    reconcile_worker_job(j, outcome)
               \/ \E j \in Jobs : recoverWorker(j)
      BY <2>2, CommandKeeps DEF Inv
    <2>3. CASE \/ \E i \in Attempts : StartWorker(i)
               \/ \E i \in Attempts : HeartbeatWorker(i)
               \/ \E i \in Attempts, result \in Results : ReportWorker(i, result)
      BY <2>3, CallKeeps
    <2>4. CASE \E capability \in Capabilities : Claim(capability)
      BY <2>4, ClaimKeeps DEF Claim
    <2>5. CASE RestoreBackup
      <3>1. workerJobs' = [j \in Jobs |-> RestoredJob(j)]
        BY <2>5 DEF RestoreBackup
      <3>2. ASSUME NEW j \in Jobs PROVE JobKept(workerJobs[j], RestoredJob(j), clock)
        <4>1. workerJobs[j] \in Job
          BY Members DEF Inv
        <4> QED
          BY <4>1 DEF RestoredJob, Live, JobKept, Job, Uncertain
      <3> QED
        BY <3>1, <3>2 DEF JobsKept, Jobs
    <2>6. CASE Tick \/ UNCHANGED vars
      BY <2>6, SameJobsKept DEF Tick, vars
    <2> QED
      BY <2>1, <2>2, <2>3, <2>4, <2>5, <2>6 DEF Next
  <1> QED
    BY <1>1, ClockMoves

\* What is true of a job stays true of it.
LEMMA HonestStays ==
    ASSUME NEW old \in Job, NEW new, NEW now \in Nat, NEW later \in Nat, now <= later,
           JobKept(old, new, now), NEW w, Honest(old, now, w)
    PROVE  Honest(new, later, w)
  <1>1. old.deadline \in Nat
    BY DEF Job
  <1> QED
    BY <1>1 DEF JobKept, Honest, Terminal

LEMMA DeadlineStays ==
    ASSUME NEW old \in Job, NEW new, NEW now \in Nat, NEW later \in Nat, now <= later,
           JobKept(old, new, now), DeadlineOK(old, now)
    PROVE  DeadlineOK(new, later)
  <1>1. old.deadline \in Nat
    BY DEF Job
  <1> QED
    BY <1>1 DEF JobKept, DeadlineOK

-----------------------------------------------------------------------------
(***************************************************************************)
(* What every step leaves true                                             *)
(***************************************************************************)

\* The jobs a step starts from and ends with.
JobsStep ==
    /\ Inv /\ Inv'
    /\ JobsKept
    /\ clock \in Nat /\ clock' \in Nat /\ clock <= clock'

LEMMA CheckIs ==
    ASSUME Inv, CheckInv, NEW j \in Jobs
    PROVE  /\ j \in Nat \ {0} /\ j \in Checks /\ j \in DOMAIN runs /\ j \in DOMAIN created
           /\ checks[j] \in CheckOperation /\ runs[j] \in Payloads \union {None}
           /\ created[j] \in Nat
           /\ workerJobs[j] \in Job
           /\ JobIsShown(checks[j], runs[j], workerJobs[j], clock)
           /\ OneCreation(j)
  <1>1. /\ workerJobs \in Seq(Job)
        /\ checks \in Seq(CheckOperation) /\ Len(checks) = Len(workerJobs)
        /\ runs \in Seq(Payloads \union {None}) /\ Len(runs) = Len(workerJobs)
        /\ created \in Seq(Nat) /\ Len(created) = Len(workerJobs)
    BY DEF Inv, TypeOK, CheckInv, CheckTypeOK
  <1>2. /\ j \in Nat \ {0} /\ j \in Checks /\ j \in DOMAIN runs /\ j \in DOMAIN created
        /\ checks[j] \in CheckOperation /\ runs[j] \in Payloads \union {None}
        /\ created[j] \in Nat /\ workerJobs[j] \in Job
    BY <1>1 DEF Jobs, Checks
  <1> QED
    BY <1>2 DEF CheckInv

LEMMA SameIndices ==
    ASSUME Inv, CheckInv
    PROVE  Checks = Jobs /\ DOMAIN runs = Jobs /\ DOMAIN created = Jobs
  BY DEF Inv, TypeOK, CheckInv, CheckTypeOK, Jobs, Checks

\* What a Tick under way is, by its stage.
LEMMA TickIs ==
    ASSUME CheckInv, NEW s \in Servers
    PROVE  /\ tick[s] \in TickRecord /\ TickCarries(s, tick[s])
           /\ tick[s].stage \in {"NONE", "BEGIN", "CALL", "WAIT", "DONE"}
           /\ tick[s].stage = "NONE" => tick[s] = NoTick
           /\ tick[s].stage # "NONE" => tick[s].job \in Jobs
           /\ tick[s].stage \in {"CALL", "WAIT", "DONE"} => tick[s].intent \in Payloads
           /\ tick[s].stage = "CALL" => tick[s].action \in {"create", "find", "read", "update"}
           /\ tick[s].stage = "DONE" => tick[s].answer \in Payloads \union {None}
           /\ s # None
  <1>1. tick[s] \in TickRecord /\ TickCarries(s, tick[s])
    BY DEF CheckInv, CheckTypeOK
  <1>2. s # None
    BY CheckAssumption DEF CheckAssumption
  <1> QED
    BY <1>1, <1>2 DEF TickRecord, NoTick, TickCarries

\* What is true of a job stays true, whatever the step.
LEMMA TrueStays ==
    ASSUME JobsStep, NEW j \in Jobs, NEW w, Honest(workerJobs[j], clock, w)
    PROVE  j \in Jobs' /\ Honest(workerJobs'[j], clock', w)
  <1>1. workerJobs[j] \in Job
    BY Members DEF JobsStep, Inv
  <1> QED
    BY <1>1, HonestStays DEF JobsStep, JobsKept

LEMMA LateStays ==
    ASSUME JobsStep, NEW j \in Jobs, DeadlineOK(workerJobs[j], clock)
    PROVE  DeadlineOK(workerJobs'[j], clock')
  <1>1. workerJobs[j] \in Job
    BY Members DEF JobsStep, Inv
  <1> QED
    BY <1>1, DeadlineStays DEF JobsStep, JobsKept

LEMMA ShownStays ==
    ASSUME JobsStep, NEW j \in Jobs, NEW c, NEW run,
           JobIsShown(c, run, workerJobs[j], clock)
    PROVE  JobIsShown(c, run, workerJobs'[j], clock')
  <1>1. DeadlineOK(workerJobs'[j], clock')
    BY LateStays DEF JobIsShown
  <1>2. \A w \in {c.intent, c.observed, run} \ {None} : Honest(workerJobs'[j], clock', w)
    BY TrueStays DEF JobIsShown
  <1> QED
    BY <1>1, <1>2 DEF JobIsShown

\* A Tick keeps what it carries when its check is as before, or is no longer
\* its own.
LEMMA CarriedStays ==
    ASSUME JobsStep, CheckInv, NEW s \in Servers,
           tick'[s] = tick[s],
           \A j \in Jobs : checks'[j].leased /\ checks'[j].owner = s =>
              checks[j].leased /\ checks[j].owner = s /\ checks'[j].intent = checks[j].intent
    PROVE  TickCarries(s, tick[s])'
  <1> SUFFICES ASSUME tick[s].stage # "NONE"
               PROVE  TickCarries(s, tick[s])'
    BY DEF TickCarries
  <1>1. PICK j \in Jobs : j = tick[s].job
    BY TickIs
  <1>2. j \in Jobs'
    BY DEF JobsStep, JobsKept
  <1>3. tick[s].stage # "BEGIN" => Honest(workerJobs'[j], clock', tick[s].intent)
    BY <1>1, TickIs, TrueStays DEF TickCarries
  <1>4. tick[s].stage # "BEGIN" /\ checks'[j].leased /\ checks'[j].owner = s =>
           checks'[j].intent = tick[s].intent
    BY <1>1, TickIs DEF TickCarries
  <1> QED
    BY <1>1, <1>2, <1>3, <1>4 DEF TickCarries

\* A request stays one its sender waits for as long as the sender waits.
LEMMA RequestStays ==
    ASSUME JobsStep, NEW m, RequestOK(m),
           m.from # None => tick'[m.from] = tick[m.from]
    PROVE  RequestOK(m)'
  <1>1. m.job \in Jobs' /\ Honest(workerJobs'[m.job], clock', m.payload)
    BY TrueStays DEF RequestOK
  <1> QED
    BY <1>1 DEF RequestOK

LEMMA SameCreation ==
    ASSUME NEW j, OneCreation(j), checks'[j].phase = checks[j].phase, UNCHANGED <<wire, created>>,
           \A s \in Servers : Creating(s, j)' => Creating(s, j)
    PROVE  OneCreation(j)'
  BY DEF OneCreation, CreateRequests

\* The types, when the collections of the checks do not grow.
LEMMA TypesKept ==
    ASSUME CheckInv, JobsStep, Jobs' = Jobs, late' \subseteq Jobs',
           checks' \in Seq(CheckOperation), Len(checks') = Len(checks),
           runs' \in Seq(Payloads \union {None}), Len(runs') = Len(runs),
           created' \in Seq(Nat), Len(created') = Len(created),
           tick' \in [Servers -> TickRecord], wire' \subseteq Request, faults' \in Nat
    PROVE  CheckTypeOK'
  <1>1. Len(workerJobs') = Len(workerJobs)
    BY DEF JobsStep, Inv, TypeOK, Jobs
  <1> QED
    BY <1>1 DEF CheckInv, CheckTypeOK

-----------------------------------------------------------------------------
(***************************************************************************)
(* A step of a server on the check it has taken                            *)
(***************************************************************************)

\* A server replaces its Tick and the operation of one check; what is on the
\* wire and at the provider stays as it is.
LEMMA ServerStep ==
    ASSUME JobsStep, CheckInv, Jobs' = Jobs, late' \subseteq Jobs', faults' = faults,
           NEW s \in Servers, NEW t \in TickRecord, tick' = [tick EXCEPT ![s] = t],
           NEW j \in Jobs, NEW c \in CheckOperation, checks' = [checks EXCEPT ![j] = c],
           UNCHANGED <<wire, runs, created>>,
           tick[s].stage # "WAIT",
           CheckOK(c),
           \A w \in {c.intent, c.observed} \ {None} : Honest(workerJobs'[j], clock', w),
           t.stage # "NONE" => t.job = j,
           t.stage \notin {"NONE", "BEGIN"} =>
              /\ Honest(workerJobs'[j], clock', t.intent)
              /\ c.leased /\ c.owner = s => c.intent = t.intent,
           ~c.leased \/ c.owner = s \/ c = checks[j],
           c.phase = "CHECK_CREATE_READY" => checks[j].phase = "CHECK_CREATE_READY",
           t.stage = "CALL" /\ t.action = "create" =>
              checks[j].phase = "CHECK_CREATE_READY" /\ c.phase # "CHECK_CREATE_READY"
    PROVE  CheckInv'
  <1>1. /\ tick \in [Servers -> TickRecord] /\ tick' \in [Servers -> TickRecord]
        /\ tick'[s] = t /\ \A r \in Servers \ {s} : tick'[r] = tick[r]
    BY DEF CheckInv, CheckTypeOK
  <1>2. /\ checks' \in Seq(CheckOperation) /\ Len(checks') = Len(checks)
        /\ checks'[j] = c /\ \A k \in Jobs \ {j} : checks'[k] = checks[k]
    <2>1. checks \in Seq(CheckOperation) /\ Checks = Jobs
      BY SameIndices DEF CheckInv, CheckTypeOK, JobsStep
    <2> QED
      BY <2>1 DEF Checks
  <1>3. CheckTypeOK'
    BY <1>1, <1>2, TypesKept DEF CheckInv, CheckTypeOK
  <1>4. ASSUME NEW k \in Jobs PROVE JobIsShown(checks'[k], runs'[k], workerJobs'[k], clock')
    <2>1. JobIsShown(checks[k], runs[k], workerJobs'[k], clock')
      BY CheckIs, ShownStays DEF JobsStep
    <2>2. CASE k # j
      BY <1>2, <2>1, <2>2
    <2>3. CASE k = j
      BY <1>2, <2>1, <2>3 DEF JobIsShown
    <2> QED
      BY <2>2, <2>3
  <1>5. ASSUME NEW r \in Servers PROVE TickCarries(r, tick[r])'
    <2>1. CASE r = s
      BY <1>1, <1>2, <2>1 DEF TickCarries
    <2>2. CASE r # s
      <3>1. ASSUME NEW k \in Jobs, checks'[k].leased, checks'[k].owner = r
            PROVE  checks[k].leased /\ checks[k].owner = r /\ checks'[k].intent = checks[k].intent
        BY <1>2, <2>2, <3>1
      <3> QED
        BY <1>1, <2>2, <3>1, CarriedStays
    <2> QED
      BY <2>1, <2>2
  <1>6. ASSUME NEW m \in wire PROVE RequestOK(m)'
    <2>1. RequestOK(m) /\ m \in Request
      BY DEF CheckInv, CheckTypeOK
    <2>2. m.from # None => m.from \in Servers \ {s}
      BY <2>1 DEF RequestOK, Request
    <2> QED
      BY <1>1, <2>1, <2>2, RequestStays
  <1>7. OneRequestEach'
    BY DEF CheckInv, OneRequestEach
  <1>8. ASSUME NEW k \in Jobs PROVE OneCreation(k)'
    <2>1. OneCreation(k)
      BY DEF CheckInv
    <2>2. CASE k # j
      <3>1. \A r \in Servers : Creating(r, k)' => Creating(r, k)
        BY <1>1, <2>2 DEF Creating
      <3> QED
        BY <1>2, <2>1, <2>2, <3>1, SameCreation
    <2>3. CASE k = j /\ t.stage = "CALL" /\ t.action = "create"
      <3>1. /\ created[j] = 0 /\ CreateRequests(j) = {}
            /\ \A r \in Servers : ~Creating(r, j)
        BY <2>1, <2>3 DEF OneCreation
      <3>2. CreateRequests(j)' = {}
        BY <3>1 DEF CreateRequests
      <3>3. \A r \in Servers : Creating(r, j)' => r = s
        BY <1>1, <3>1 DEF Creating
      <3> QED
        BY <1>2, <2>3, <3>1, <3>2, <3>3 DEF OneCreation
    <2>4. CASE k = j /\ ~(t.stage = "CALL" /\ t.action = "create")
      <3>1. \A r \in Servers : Creating(r, j)' => Creating(r, j)
        BY <1>1, <2>4 DEF Creating
      <3>2. CreateRequests(j)' = CreateRequests(j)
        BY DEF CreateRequests
      <3> QED
        BY <1>2, <2>1, <2>4, <3>1, <3>2 DEF OneCreation
    <2> QED
      BY <2>2, <2>3, <2>4
  <1> QED
    BY <1>3, <1>4, <1>5, <1>6, <1>7, <1>8 DEF CheckInv

\* The operation stays as it is.
LEMMA ServerMoves ==
    ASSUME JobsStep, CheckInv, Jobs' = Jobs, late' \subseteq Jobs', faults' = faults,
           NEW s \in Servers, NEW t \in TickRecord, tick' = [tick EXCEPT ![s] = t],
           NEW j \in Jobs, UNCHANGED <<checks, wire, runs, created>>,
           tick[s].stage # "WAIT",
           t.stage # "NONE" => t.job = j,
           t.stage # "BEGIN" => t.stage = "NONE" \/ (t.stage = "DONE" /\ t.job = tick[s].job
                                /\ tick[s].stage = "CALL" /\ t.intent = tick[s].intent)
    PROVE  CheckInv'
  <1>1. /\ checks' = [checks EXCEPT ![j] = checks[j]]
        /\ checks[j] \in CheckOperation /\ CheckOK(checks[j])
        /\ \A w \in {checks[j].intent, checks[j].observed} \ {None} :
              Honest(workerJobs[j], clock, w)
    <2>1. checks = [checks EXCEPT ![j] = checks[j]]
      BY CheckIs DEF JobsStep, CheckInv, CheckTypeOK, Checks
    <2> QED
      BY <2>1, CheckIs DEF JobsStep, JobIsShown
  <1>2. \A w \in {checks[j].intent, checks[j].observed} \ {None} :
           Honest(workerJobs'[j], clock', w)
    BY <1>1, TrueStays
  <1>3. t.stage \notin {"NONE", "BEGIN"} =>
           /\ Honest(workerJobs'[j], clock', t.intent)
           /\ checks[j].leased /\ checks[j].owner = s => checks[j].intent = t.intent
    BY TickIs, TrueStays DEF TickCarries
  <1>4. t.stage # "CALL"
    OBVIOUS
  <1> QED
    BY <1>1, <1>2, <1>3, <1>4, ServerStep

\* A registration says nothing of the job.
LEMMA RegistrationIsTrue ==
    ASSUME NEW j, NEW job, NEW now
    PROVE  /\ RegistrationOf(j) \in Payloads /\ RegistrationOf(j).status = "queued"
           /\ Honest(job, now, RegistrationOf(j))
  BY DEF RegistrationOf, Payloads, JobStatus, Honest, validCheckPayload

\* What the check should show is true of the job the transaction leaves behind.
LEMMA DesiredIsTrue ==
    ASSUME JobsStep, CheckInv, NEW j \in Jobs, RecoverJob(j)
    PROVE  desiredCheck(j) \in Payloads /\ Honest(workerJobs'[j], clock', desiredCheck(j))
  <1>1. /\ workerJobs[j] \in Job /\ j \in DOMAIN workerJobs
        /\ DeadlineOK(workerJobs[j], clock)
    BY CheckIs DEF JobsStep, JobIsShown, Jobs
  <1>2. workerJobs'[j] = Recovered(j) /\ clock' = clock
    BY <1>1 DEF RecoverJob, recoverWorker, Write, Recovered
  <1>3. /\ Recovered(j) \in Job /\ DeadlineOK(Recovered(j), clock)
    <2>1. workerJobs'[j] \in Job
      BY DEF JobsStep, JobsKept, Inv, TypeOK, Jobs
    <2>2. DeadlineOK(workerJobs'[j], clock')
      BY <1>1, LateStays
    <2> QED
      BY <1>2, <2>1, <2>2
  <1>4. /\ Recovered(j).cancellationRequested = workerJobs[j].cancellationRequested
        /\ Recovered(j).deadline = workerJobs[j].deadline
        /\ workerJobs[j].deadline \in Nat
        /\ Recovered(j).status \in JobStatus
    BY <1>1, <1>3 DEF Recovered, Job
  <1>5. /\ ConclusionOf(j) \in {"", "success", "failure", "cancelled", "timed_out"}
        /\ ConclusionOf(j) = "success" => Recovered(j).status = "SUCCEEDED"
        /\ ConclusionOf(j) = "failure" => Recovered(j).status = "FAILED"
        /\ ConclusionOf(j) = "cancelled" => \/ Recovered(j).cancellationRequested
                                            \/ Recovered(j).status = "CANCELLED"
        /\ ConclusionOf(j) = "timed_out" => /\ clock >= Recovered(j).deadline
                                            /\ Recovered(j).status # "SUCCEEDED"
    <2>1. FailedByDeadline(j) => Recovered(j).status = "FAILED" /\ clock >= workerJobs[j].deadline
      BY DEF FailedByDeadline
    <2>2. Recovered(j).status = "DEADLINE_EXCEEDED" => clock >= workerJobs[j].deadline
      BY <1>3, <1>4 DEF DeadlineOK
    <2> DEFINE st == Recovered(j).status
               F == FailedByDeadline(j)
               c == workerJobs[j].cancellationRequested
    <2>3. ConclusionOf(j) =
            IF c THEN "cancelled"
            ELSE IF (st \notin Terminal /\ TimedOut(j)) \/ F \/ st = "DEADLINE_EXCEEDED"
            THEN "timed_out"
            ELSE CASE st = "SUCCEEDED" -> "success"
                   [] st = "FAILED" -> "failure"
                   [] st = "CANCELLED" -> "cancelled"
                   [] OTHER -> ""
      BY DEF ConclusionOf
    <2>4. TimedOut(j) => clock >= workerJobs[j].deadline
      BY DEF TimedOut
    <2>5. c = Recovered(j).cancellationRequested /\ c \in BOOLEAN
      BY <1>1, <1>4 DEF Job
    <2> HIDE DEF st, F, c
    <2>6. CASE c
      <3>1. ConclusionOf(j) = "cancelled"
        BY <2>3, <2>6
      <3> QED
        BY <2>5, <2>6, <3>1
    <2>7. CASE ~c /\ ((st \notin Terminal /\ TimedOut(j)) \/ F \/ st = "DEADLINE_EXCEEDED")
      <3>1. ConclusionOf(j) = "timed_out"
        BY <2>3, <2>7
      <3> QED
        BY <1>4, <2>1, <2>2, <2>4, <2>7, <3>1 DEF Terminal, st, F
    <2>8. CASE ~c /\ ~((st \notin Terminal /\ TimedOut(j)) \/ F \/ st = "DEADLINE_EXCEEDED")
      <3>1. \/ st = "SUCCEEDED" /\ ConclusionOf(j) = "success"
            \/ st = "FAILED" /\ ConclusionOf(j) = "failure"
            \/ st = "CANCELLED" /\ ConclusionOf(j) = "cancelled"
            \/ ConclusionOf(j) = ""
        BY <2>3, <2>8
      <3> QED
        BY <3>1 DEF st
    <2> QED
      BY <2>6, <2>7, <2>8
  <1>6. PICK conclusion : conclusion = ConclusionOf(j)
    OBVIOUS
  <1>7. /\ desiredCheck(j).conclusion = conclusion
        /\ desiredCheck(j).status \in {"queued", "in_progress", "completed"}
        /\ desiredCheck(j).status = "completed" <=> conclusion # ""
        /\ desiredCheck(j).result = Recovered(j).status
        /\ desiredCheck(j) = [status |-> desiredCheck(j).status,
                              conclusion |-> desiredCheck(j).conclusion,
                              result |-> desiredCheck(j).result]
    BY <1>6 DEF desiredCheck
  <1>8. desiredCheck(j) \in Payloads
    BY <1>4, <1>5, <1>6, <1>7 DEF Payloads
  <1>9. Honest(Recovered(j), clock, desiredCheck(j))
    BY <1>5, <1>6, <1>7 DEF Honest, validCheckPayload
  <1> QED
    BY <1>2, <1>8, <1>9

-----------------------------------------------------------------------------
(***************************************************************************)
(* tickCheck                                                               *)
(***************************************************************************)

\* The operation the server has under its lease.
LEMMA HeldIs ==
    ASSUME Inv, CheckInv, NEW s \in Servers, tick[s].stage # "NONE", HoldsLease(s)
    PROVE  /\ tick[s].job \in Jobs
           /\ checks[tick[s].job] \in CheckOperation
           /\ checks[tick[s].job].leased /\ checks[tick[s].job].owner = s
           /\ checks[tick[s].job].status \notin Ended
           /\ CheckOK(checks[tick[s].job])
           /\ \A w \in {checks[tick[s].job].intent, checks[tick[s].job].observed} \ {None} :
                 w \in Payloads /\ Honest(workerJobs[tick[s].job], clock, w)
  <1>1. PICK j \in Jobs : j = tick[s].job
    BY TickIs
  <1>2. checks[j].leased /\ checks[j].owner = s
    BY <1>1 DEF HoldsLease
  <1>3. /\ checks[j] \in CheckOperation /\ CheckOK(checks[j])
        /\ \A w \in {checks[j].intent, checks[j].observed} \ {None} :
              Honest(workerJobs[j], clock, w)
    BY CheckIs DEF JobIsShown
  <1>4. checks[j].status \notin Ended
    BY <1>2, <1>3 DEF CheckOK
  <1>5. \A w \in {checks[j].intent, checks[j].observed} \ {None} : w \in Payloads
    BY <1>3 DEF CheckOperation
  <1> QED
    BY <1>1, <1>2, <1>3, <1>4, <1>5

LEMMA TakeKeeps ==
    ASSUME JobsStep, CheckInv, Jobs' = Jobs, late' \subseteq Jobs',
           NEW s \in Servers, NEW j \in Jobs, TakeCheck(s, j)
    PROVE  CheckInv'
  <1> DEFINE c == [checks[j] EXCEPT !.status = "RUNNING", !.owner = s, !.leased = TRUE]
             t == [stage |-> "BEGIN", job |-> j]
  <1>1. checks[j] \in CheckOperation /\ JobIsShown(checks[j], runs[j], workerJobs[j], clock)
        /\ j \in Nat
    BY CheckIs DEF JobsStep
  <1>2. /\ checks' = [checks EXCEPT ![j] = c] /\ tick' = [tick EXCEPT ![s] = t]
        /\ UNCHANGED <<wire, runs, created>> /\ faults' = faults
    BY DEF TakeCheck
  <1>t. tick[s].stage # "WAIT"
    BY DEF TakeCheck, NoTick
  <1>3. /\ c \in CheckOperation /\ t \in TickRecord
        /\ c.status = "RUNNING" /\ c.owner = s /\ c.phase = checks[j].phase
        /\ c.intent = checks[j].intent /\ c.observed = checks[j].observed
        /\ c.observations = checks[j].observations
    BY <1>1 DEF CheckOperation, TickRecord
  <1>4. CheckOK(c)
    BY <1>1, <1>3 DEF JobIsShown, CheckOK, Ended
  <1>5. \A w \in {c.intent, c.observed} \ {None} : Honest(workerJobs'[j], clock', w)
    BY <1>1, <1>3, TrueStays DEF JobIsShown
  <1>6. t.stage = "BEGIN" /\ t.job = j
    OBVIOUS
  <1> HIDE DEF c, t
  <1> QED
    BY <1>2, <1>t, <1>3, <1>4, <1>5, <1>6, ServerStep

\* The lease is given back, with the status and the state of the check as given.
LEMMA ReleaseKeeps ==
    ASSUME JobsStep, CheckInv, Jobs' = Jobs, late' \subseteq Jobs', faults' = faults,
           NEW s \in Servers, NEW j \in Jobs, NEW c \in CheckOperation,
           checks' = [checks EXCEPT ![j] = c], tick' = [tick EXCEPT ![s] = NoTick],
           UNCHANGED <<wire, runs, created>>,
           tick[s].stage # "WAIT",
           ~c.leased, CheckOK(c),
           \A w \in {c.intent, c.observed} \ {None} : Honest(workerJobs[j], clock, w),
           c.phase = "CHECK_CREATE_READY" => checks[j].phase = "CHECK_CREATE_READY"
    PROVE  CheckInv'
  <1>1. \A w \in {c.intent, c.observed} \ {None} : Honest(workerJobs'[j], clock', w)
    BY TrueStays
  <1>2. NoTick \in TickRecord /\ NoTick.stage = "NONE"
    BY DEF TickRecord, NoTick
  <1> QED
    BY <1>1, <1>2, ServerStep

LEMMA GiveUpKeeps ==
    ASSUME JobsStep, CheckInv, Jobs' = Jobs, late' \subseteq Jobs', faults' = faults,
           NEW s \in Servers, tick[s].stage \in {"BEGIN", "DONE"}, HoldsLease(s),
           UNCHANGED <<wire, runs, created>>,
           \/ GiveUp(s, tick[s].job)
           \/ /\ checks' = [checks EXCEPT ![tick[s].job] = Released(@)]
              /\ tick' = [tick EXCEPT ![s] = NoTick]
    PROVE  CheckInv'
  <1>1. PICK j \in Jobs : j = tick[s].job
    BY TickIs
  <1>2. PICK c0 \in CheckOperation : c0 = checks[j]
    BY <1>1, HeldIs DEF JobsStep
  <1>3. /\ CheckOK(c0) /\ c0.status \notin Ended
        /\ \A w \in {c0.intent, c0.observed} \ {None} : Honest(workerJobs[j], clock, w)
    BY <1>1, <1>2, HeldIs DEF JobsStep
  <1>4. tick' = [tick EXCEPT ![s] = NoTick]
    BY DEF GiveUp
  <1>5. \/ checks' = [checks EXCEPT ![j] = Released(c0)]
        \/ checks' = [checks EXCEPT ![j] = [Released(c0) EXCEPT !.status = "FAILED"]]
    BY <1>1, <1>2 DEF GiveUp
  <1>6. PICK c \in CheckOperation :
           /\ checks' = [checks EXCEPT ![j] = c]
           /\ ~c.leased /\ c.status \in {c0.status, "FAILED"} /\ c.phase = c0.phase
           /\ c.intent = c0.intent /\ c.observed = c0.observed
           /\ c.observations = c0.observations
    <2>1. CASE checks' = [checks EXCEPT ![j] = Released(c0)]
      <3> DEFINE c == Released(c0)
      <3>1. c \in CheckOperation /\ ~c.leased /\ c.status = c0.status /\ c.phase = c0.phase
            /\ c.intent = c0.intent /\ c.observed = c0.observed
            /\ c.observations = c0.observations
        BY DEF Released, CheckOperation
      <3> HIDE DEF c
      <3> QED
        BY <2>1, <3>1 DEF c
    <2>2. CASE checks' = [checks EXCEPT ![j] = [Released(c0) EXCEPT !.status = "FAILED"]]
      <3> DEFINE c == [Released(c0) EXCEPT !.status = "FAILED"]
      <3>1. c \in CheckOperation /\ ~c.leased /\ c.status = "FAILED" /\ c.phase = c0.phase
            /\ c.intent = c0.intent /\ c.observed = c0.observed
            /\ c.observations = c0.observations
        BY DEF Released, CheckOperation, Ended
      <3> HIDE DEF c
      <3> QED
        BY <2>2, <3>1 DEF c
    <2> QED
      BY <1>5, <2>1, <2>2
  <1>7. CheckOK(c)
    BY <1>3, <1>6 DEF CheckOK, Ended
  <1>8. \A w \in {c.intent, c.observed} \ {None} : Honest(workerJobs[j], clock, w)
    BY <1>3, <1>6
  <1> QED
    BY <1>2, <1>4, <1>6, <1>7, <1>8, ReleaseKeeps

\* An intent that is true of the job, and that fits the phase, is stored with
\* the call that will be made.
LEMMA IntendKeeps ==
    ASSUME JobsStep, CheckInv, Jobs' = Jobs, late' \subseteq Jobs', faults' = faults,
           NEW s \in Servers, tick[s].stage = "BEGIN", HoldsLease(s),
           NEW j \in Jobs, j = tick[s].job,
           UNCHANGED <<wire, runs, created>>,
           NEW phase \in {"CHECK_CREATE_UNCERTAIN", "CHECK_UPDATE_UNCERTAIN"},
           NEW intent \in Payloads, Honest(workerJobs'[j], clock', intent),
           NEW action \in {"create", "find", "read", "update"},
           Intend(s, j, phase, intent, action),
           phase = "CHECK_CREATE_UNCERTAIN" =>
              checks[j].observed = None /\ intent.status = "queued",
           phase = "CHECK_UPDATE_UNCERTAIN" => checks[j].observed # None,
           action = "create" => checks[j].phase = "CHECK_CREATE_READY"
    PROVE  CheckInv'
  <1>1. PICK c0 \in CheckOperation : c0 = checks[j]
    BY HeldIs DEF JobsStep
  <1>2. /\ CheckOK(c0) /\ c0.status \notin Ended /\ c0.leased /\ c0.owner = s
        /\ \A w \in {c0.intent, c0.observed} \ {None} : Honest(workerJobs[j], clock, w)
    BY <1>1, HeldIs DEF JobsStep
  <1>n. PICK n \in Nat : n = c0.observations + 1
    BY DEF CheckOperation
  <1> DEFINE c == [c0 EXCEPT !.phase = phase, !.intent = intent, !.observations = n]
             t == [stage |-> "CALL", job |-> j, action |-> action, intent |-> intent]
  <1>3. /\ checks' = [checks EXCEPT ![j] = c]
        /\ tick' = [tick EXCEPT ![s] = t]
    BY <1>1, <1>n DEF Intend
  <1>4. /\ c \in CheckOperation /\ c.status = c0.status /\ c.leased /\ c.owner = s
        /\ c.phase = phase /\ c.intent = intent /\ c.observed = c0.observed
    BY <1>2 DEF CheckOperation
  <1>5. j \in Nat /\ intent # None
    BY CheckIs, CheckAssumption DEF JobsStep, CheckAssumption
  <1>6. /\ t \in TickRecord /\ t.stage = "CALL" /\ t.job = j /\ t.intent = intent
        /\ t.action = action
    BY <1>5 DEF TickRecord
  <1> HIDE DEF c, t
  <1>7. CheckOK(c)
    BY <1>1, <1>2, <1>4, <1>5 DEF CheckOK, Ended
  <1>8. \A w \in {c.intent, c.observed} \ {None} : Honest(workerJobs'[j], clock', w)
    BY <1>2, <1>4, TrueStays
  <1>9. tick[s].stage # "WAIT" /\ c.phase # "CHECK_CREATE_READY"
    BY <1>4
  <1> QED
    BY <1>3, <1>4, <1>6, <1>7, <1>8, <1>9, ServerStep

\* What the four intents have in common.
LEMMA ObservationIs ==
    ASSUME JobsStep, CheckInv, NEW s \in Servers, NEW phase, MayObserve(s, phase)
    PROVE  /\ tick[s].stage = "BEGIN" /\ HoldsLease(s)
           /\ tick[s].job \in Jobs /\ RecoverJob(tick[s].job)
           /\ checks[tick[s].job].phase = phase
           /\ UNCHANGED <<wire, runs, created>> /\ faults' = faults
           /\ CheckOK(checks[tick[s].job])
           /\ \A w \in {checks[tick[s].job].intent, checks[tick[s].job].observed} \ {None} :
                 w \in Payloads /\ Honest(workerJobs'[tick[s].job], clock', w)
  <1>1. /\ tick[s].stage = "BEGIN" /\ HoldsLease(s) /\ RecoverJob(tick[s].job)
        /\ checks[tick[s].job].phase = phase
        /\ UNCHANGED <<wire, runs, created>> /\ faults' = faults
    BY DEF MayObserve
  <1>2. PICK j \in Jobs : j = tick[s].job
    BY <1>1, TickIs
  <1>3. /\ CheckOK(checks[j])
        /\ \A w \in {checks[j].intent, checks[j].observed} \ {None} :
              w \in Payloads /\ Honest(workerJobs[j], clock, w)
    BY <1>1, <1>2, HeldIs DEF JobsStep
  <1>4. \A w \in {checks[j].intent, checks[j].observed} \ {None} :
           w \in Payloads /\ Honest(workerJobs'[j], clock', w)
    BY <1>3, TrueStays
  <1> QED
    BY <1>1, <1>2, <1>3, <1>4

LEMMA ObserveKeeps ==
    ASSUME JobsStep, CheckInv, Jobs' = Jobs, late' \subseteq Jobs',
           NEW s \in Servers,
           \/ IntendCreate(s) \/ IntendFind(s) \/ IntendRead(s)
           \/ ObserveUnchanged(s) \/ IntendUpdate(s)
    PROVE  CheckInv'
  <1>0. PICK j : j = tick[s].job
    OBVIOUS
  <1>1. CASE IntendCreate(s)
    <2>1. /\ MayObserve(s, "CHECK_CREATE_READY")
          /\ Intend(s, j, "CHECK_CREATE_UNCERTAIN", RegistrationOf(j), "create")
      BY <1>0, <1>1 DEF IntendCreate
    <2>2. checks[j].observed = None
      BY <1>0, <2>1, ObservationIs DEF CheckOK
    <2>3. /\ RegistrationOf(j) \in Payloads /\ RegistrationOf(j).status = "queued"
          /\ Honest(workerJobs'[j], clock', RegistrationOf(j))
      BY RegistrationIsTrue
    <2> QED
      BY <1>0, <2>1, <2>2, <2>3, ObservationIs, IntendKeeps
  <1>2. CASE IntendFind(s)
    <2>1. /\ MayObserve(s, "CHECK_CREATE_UNCERTAIN")
          /\ Intend(s, j, "CHECK_CREATE_UNCERTAIN", checks[j].intent, "find")
      BY <1>0, <1>2 DEF IntendFind
    <2>2. /\ checks[j].observed = None /\ checks[j].intent.status = "queued"
          /\ checks[j].intent # None
      BY <1>0, <2>1, ObservationIs DEF CheckOK
    <2>3. checks[j].intent \in Payloads /\ Honest(workerJobs'[j], clock', checks[j].intent)
      BY <1>0, <2>1, <2>2, ObservationIs
    <2> QED
      BY <1>0, <2>1, <2>2, <2>3, ObservationIs, IntendKeeps
  <1>3. CASE IntendRead(s)
    <2>1. /\ MayObserve(s, "CHECK_UPDATE_UNCERTAIN")
          /\ Intend(s, j, "CHECK_UPDATE_UNCERTAIN", checks[j].intent, "read")
      BY <1>0, <1>3 DEF IntendRead
    <2>2. checks[j].observed # None /\ checks[j].intent # None
      BY <1>0, <2>1, ObservationIs DEF CheckOK
    <2>3. checks[j].intent \in Payloads /\ Honest(workerJobs'[j], clock', checks[j].intent)
      BY <1>0, <2>1, <2>2, ObservationIs
    <2> QED
      BY <1>0, <2>1, <2>2, <2>3, ObservationIs, IntendKeeps
  <1>4. CASE ObserveUnchanged(s)
    <2>1. /\ MayObserve(s, "CHECK_OBSERVE")
          /\ checks' = [checks EXCEPT ![tick[s].job] = Released(@)]
          /\ tick' = [tick EXCEPT ![s] = NoTick]
      BY <1>4 DEF ObserveUnchanged
    <2> QED
      BY <2>1, ObservationIs, GiveUpKeeps
  <1>5. CASE IntendUpdate(s)
    <2>1. /\ MayObserve(s, "CHECK_OBSERVE")
          /\ Intend(s, j, "CHECK_UPDATE_UNCERTAIN", desiredCheck(j), "update")
      BY <1>0, <1>5 DEF IntendUpdate
    <2>2. checks[j].observed # None
      BY <1>0, <2>1, ObservationIs DEF CheckOK
    <2>3. desiredCheck(j) \in Payloads /\ Honest(workerJobs'[j], clock', desiredCheck(j))
      BY <1>0, <2>1, ObservationIs, DesiredIsTrue
    <2>4. PICK intent \in Payloads : intent = desiredCheck(j)
      BY <2>3
    <2> QED
      BY <1>0, <2>1, <2>2, <2>3, <2>4, ObservationIs, IntendKeeps
  <1> QED
    BY <1>1, <1>2, <1>3, <1>4, <1>5

\* The outcome is recorded: what was confirmed, or only the end of the lease.
LEMMA RecordKeeps ==
    ASSUME JobsStep, CheckInv, Jobs' = Jobs, late' \subseteq Jobs',
           NEW s \in Servers, RecordOutcome(s)
    PROVE  CheckInv'
  <1>1. /\ tick[s].stage = "DONE" /\ HoldsLease(s)
        /\ tick' = [tick EXCEPT ![s] = NoTick]
        /\ UNCHANGED <<wire, runs, created>> /\ faults' = faults
    BY DEF RecordOutcome
  <1>2. PICK j \in Jobs : j = tick[s].job
    BY <1>1, TickIs
  <1>3. PICK c0 \in CheckOperation : c0 = checks[j]
    BY <1>1, <1>2, HeldIs DEF JobsStep
  <1>4. PICK w0 \in Payloads : w0 = tick[s].intent
    BY <1>1, TickIs
  <1>5. /\ c0.status \notin Ended /\ CheckOK(c0) /\ c0.intent = w0
        /\ Honest(workerJobs[j], clock, w0) /\ w0 # None
    <2>1. c0.status \notin Ended /\ CheckOK(c0) /\ c0.leased /\ c0.owner = s
      BY <1>1, <1>2, <1>3, HeldIs DEF JobsStep
    <2>2. c0.intent = w0 /\ Honest(workerJobs[j], clock, w0)
      BY <1>1, <1>2, <1>3, <1>4, <2>1, TickIs DEF TickCarries
    <2> QED
      BY <2>1, <2>2, CheckAssumption DEF CheckAssumption
  <1>6. CASE ~Confirmed(s)
    <2>1. checks' = [checks EXCEPT ![tick[s].job] = Released(@)]
      BY <1>6 DEF RecordOutcome
    <2> QED
      BY <1>1, <2>1, GiveUpKeeps
  <1>7. CASE Confirmed(s)
    <2>1. PICK st \in {"SUCCEEDED", "RUNNING"} :
             /\ checks' = [checks EXCEPT ![j] =
                  [Released(c0) EXCEPT !.observed = w0, !.phase = "CHECK_OBSERVE", !.status = st]]
             /\ st = "SUCCEEDED" => w0.status = "completed"
      BY <1>2, <1>3, <1>4, <1>7 DEF RecordOutcome
    <2> DEFINE c == [Released(c0) EXCEPT !.observed = w0, !.phase = "CHECK_OBSERVE", !.status = st]
    <2>2. /\ c \in CheckOperation /\ ~c.leased /\ c.status = st /\ c.phase = "CHECK_OBSERVE"
          /\ c.intent = w0 /\ c.observed = w0
      BY <1>5 DEF Released, CheckOperation, Ended
    <2> HIDE DEF c
    <2>3. CheckOK(c)
      BY <1>5, <2>1, <2>2 DEF CheckOK, Ended
    <2>4. \A w \in {c.intent, c.observed} \ {None} : Honest(workerJobs[j], clock, w)
      BY <1>5, <2>2
    <2>5. checks' = [checks EXCEPT ![j] = c]
      BY <2>1 DEF c
    <2> QED
      BY <1>1, <2>2, <2>3, <2>4, <2>5, ReleaseKeeps
  <1> QED
    BY <1>6, <1>7

LEMMA ReadKeeps ==
    ASSUME JobsStep, CheckInv, Jobs' = Jobs, late' \subseteq Jobs',
           NEW s \in Servers, ReadRun(s)
    PROVE  CheckInv'
  <1>1. /\ tick[s].stage = "CALL" /\ UNCHANGED <<checks, wire, runs, created>> /\ faults' = faults
    BY DEF ReadRun
  <1>2. PICK j \in Jobs : j = tick[s].job
    BY <1>1, TickIs
  <1>3. PICK w \in Payloads : w = tick[s].intent
    BY <1>1, TickIs
  <1>4. runs[j] \in Payloads \union {None} /\ j \in Nat
    BY CheckIs DEF JobsStep
  <1> DEFINE t == [stage |-> "DONE", job |-> j, intent |-> w, answer |-> runs[j]]
  <1>5. tick' = [tick EXCEPT ![s] = t]
    BY <1>2, <1>3 DEF ReadRun, Answer
  <1>6. t \in TickRecord /\ t.stage = "DONE" /\ t.job = j /\ t.intent = w
    BY <1>4 DEF TickRecord
  <1> HIDE DEF t
  <1> QED
    BY <1>1, <1>2, <1>3, <1>5, <1>6, ServerMoves

LEMMA LostKeeps ==
    ASSUME JobsStep, CheckInv, Jobs' = Jobs, late' \subseteq Jobs',
           NEW s \in Servers, LeaseLost(s)
    PROVE  CheckInv'
  <1>1. /\ tick[s].stage \in {"BEGIN", "DONE"} /\ tick' = [tick EXCEPT ![s] = NoTick]
        /\ UNCHANGED <<checks, wire, runs, created>> /\ faults' = faults
    BY DEF LeaseLost
  <1>2. tick[s].job \in Jobs
    BY <1>1, TickIs
  <1>3. NoTick \in TickRecord /\ NoTick.stage = "NONE"
    BY DEF TickRecord, NoTick
  <1> QED
    BY <1>1, <1>2, <1>3, ServerMoves

-----------------------------------------------------------------------------
(***************************************************************************)
(* The wire, the provider and the faults                                   *)
(***************************************************************************)

\* Steps that leave the stored operations, the runs and the jobs as they are.
LEMMA ShowsTheSame ==
    ASSUME JobsStep, CheckInv, Jobs' = Jobs,
           UNCHANGED <<runs>>,
           \A j \in Jobs : checks'[j].intent = checks[j].intent
                           /\ checks'[j].observed = checks[j].observed
                           /\ CheckOK(checks'[j])
    PROVE  \A j \in Jobs : JobIsShown(checks'[j], runs'[j], workerJobs'[j], clock')
  <1> SUFFICES ASSUME NEW j \in Jobs
               PROVE  JobIsShown(checks'[j], runs'[j], workerJobs'[j], clock')
    OBVIOUS
  <1>1. JobIsShown(checks[j], runs[j], workerJobs'[j], clock')
    BY CheckIs, ShownStays DEF JobsStep
  <1> QED
    BY <1>1 DEF JobIsShown

\* The permission to create passes from the Tick to the wire.
LEMMA SendKeeps ==
    ASSUME JobsStep, CheckInv, Jobs' = Jobs, late' \subseteq Jobs',
           NEW s \in Servers, SendCheck(s)
    PROVE  CheckInv'
  <1>1. /\ tick[s].stage = "CALL" /\ tick[s].action \in {"create", "update"}
        /\ UNCHANGED <<checks, runs, created>> /\ faults' = faults
    BY DEF SendCheck
  <1>2. PICK j \in Jobs : j = tick[s].job
    BY <1>1, TickIs
  <1>3. PICK w \in Payloads : w = tick[s].intent
    BY <1>1, TickIs
  <1>4. PICK action \in {"create", "update"} : action = tick[s].action
    BY <1>1
  <1>5. j \in Nat /\ s # None
    BY CheckIs, TickIs DEF JobsStep
  <1> DEFINE t == [stage |-> "WAIT", job |-> j, intent |-> w]
             m == [job |-> j, action |-> action, payload |-> w, from |-> s]
  <1>6. tick' = [tick EXCEPT ![s] = t] /\ wire' = wire \union {m}
    BY <1>2, <1>3, <1>4 DEF SendCheck
  <1>7. /\ t \in TickRecord /\ t.stage = "WAIT" /\ t.job = j /\ t.intent = w
        /\ m \in Request /\ m.job = j /\ m.action = action /\ m.payload = w /\ m.from = s
    BY <1>5 DEF TickRecord, Request
  <1> HIDE DEF t, m
  <1>8. /\ tick \in [Servers -> TickRecord] /\ tick' \in [Servers -> TickRecord]
        /\ tick'[s] = t /\ \A r \in Servers \ {s} : tick'[r] = tick[r]
    BY <1>6, <1>7 DEF CheckInv, CheckTypeOK
  <1>9. CheckTypeOK'
    BY <1>1, <1>6, <1>7, <1>8, TypesKept DEF CheckInv, CheckTypeOK
  <1>10. \A k \in Jobs : JobIsShown(checks'[k], runs'[k], workerJobs'[k], clock')
    <2>1. \A k \in Jobs : CheckOK(checks[k])
      BY CheckIs DEF JobsStep, JobIsShown
    <2> QED
      BY <1>1, <2>1, ShowsTheSame
  <1>11. Honest(workerJobs'[j], clock', w)
    BY <1>1, <1>2, <1>3, TickIs, TrueStays DEF TickCarries
  <1>12. ASSUME NEW r \in Servers PROVE TickCarries(r, tick[r])'
    <2>1. CASE r = s
      <3>1. checks[j].leased /\ checks[j].owner = s => checks[j].intent = w
        BY <1>1, <1>2, <1>3, TickIs DEF TickCarries
      <3> QED
        BY <1>1, <1>7, <1>8, <1>11, <2>1, <3>1 DEF TickCarries
    <2>2. CASE r # s
      BY <1>1, <1>8, <2>2, CarriedStays
    <2> QED
      BY <2>1, <2>2
  <1>13. ASSUME NEW n \in wire
         PROVE  RequestOK(n)' /\ n.from # s
    <2>1. RequestOK(n) /\ n \in Request
      BY DEF CheckInv, CheckTypeOK
    <2>2. n.from # s
      BY <1>1, <1>5, <2>1 DEF RequestOK
    <2>3. n.from # None => n.from \in Servers \ {s}
      BY <2>1, <2>2 DEF Request
    <2> QED
      BY <1>8, <2>1, <2>2, <2>3, RequestStays
  <1>14. RequestOK(m)'
    BY <1>7, <1>8, <1>11 DEF RequestOK
  <1>15. OneRequestEach'
    <2>1. OneRequestEach
      BY DEF CheckInv
    <2> QED
      BY <1>6, <1>7, <1>13, <2>1 DEF OneRequestEach
  <1>16. ASSUME NEW k \in Jobs PROVE OneCreation(k)'
    <2>1. OneCreation(k)
      BY DEF CheckInv
    <2>2. \A r \in Servers : Creating(r, k)' <=> r # s /\ Creating(r, k)
      BY <1>7, <1>8 DEF Creating
    <2>3. CASE k = j /\ action = "create"
      <3>1. Creating(s, j)
        BY <1>1, <1>2, <1>4, <2>3 DEF Creating
      <3>2. /\ checks[j].phase # "CHECK_CREATE_READY" /\ created[j] # 1
            /\ CreateRequests(j) = {} /\ created[j] <= 1
            /\ \A r \in Servers : Creating(r, j) => r = s
        BY <2>1, <2>3, <3>1 DEF OneCreation
      <3>3. CreateRequests(j)' = {m}
        BY <1>6, <1>7, <2>3, <3>2 DEF CreateRequests
      <3> QED
        BY <1>1, <2>2, <2>3, <3>2, <3>3 DEF OneCreation
    <2>4. CASE ~(k = j /\ action = "create")
      <3>1. CreateRequests(k)' = CreateRequests(k)
        BY <1>6, <1>7, <2>4 DEF CreateRequests
      <3> QED
        BY <1>1, <2>1, <2>2, <3>1 DEF OneCreation
    <2> QED
      BY <2>3, <2>4
  <1> QED
    BY <1>6, <1>9, <1>10, <1>12, <1>13, <1>14, <1>15, <1>16 DEF CheckInv

\* A sender that stops waiting leaves its request on the wire.
Abandoned(s) ==
    /\ wire' = Detached(s)
    /\ UNCHANGED <<checks, runs, created>>

LEMMA AbandonKeeps ==
    ASSUME JobsStep, CheckInv, Jobs' = Jobs, late' \subseteq Jobs', faults' \in Nat,
           NEW s \in Servers, Abandoned(s),
           NEW t \in TickRecord, tick' = [tick EXCEPT ![s] = t],
           \/ t.stage = "NONE"
           \/ /\ t.stage = "DONE" /\ t.job = tick[s].job /\ t.intent = tick[s].intent
              /\ tick[s].stage \in {"CALL", "WAIT", "DONE"}
    PROVE  CheckInv'
  <1>1. UNCHANGED <<checks, runs, created>>
    BY DEF Abandoned
  <1>2. /\ tick \in [Servers -> TickRecord] /\ tick' \in [Servers -> TickRecord]
        /\ tick'[s] = t /\ \A r \in Servers \ {s} : tick'[r] = tick[r]
    BY DEF CheckInv, CheckTypeOK
  <1> DEFINE Left(m) == IF m.from = s THEN [m EXCEPT !.from = None] ELSE m
  <1>3. ASSUME NEW m \in wire
        PROVE  /\ Left(m) \in Request
               /\ Left(m).job = m.job /\ Left(m).action = m.action
               /\ Left(m).payload = m.payload
               /\ Left(m).from = IF m.from = s THEN None ELSE m.from
    <2>1. m \in Request
      BY DEF CheckInv, CheckTypeOK
    <2> QED
      BY <2>1 DEF Request
  <1>4. wire' = {Left(m) : m \in wire}
    BY DEF Abandoned, Detached
  <1> HIDE DEF Left
  <1>5. CheckTypeOK'
    <2>1. wire' \subseteq Request
      BY <1>3, <1>4
    <2> QED
      BY <1>1, <1>2, <2>1, TypesKept DEF CheckInv, CheckTypeOK
  <1>6. \A k \in Jobs : JobIsShown(checks'[k], runs'[k], workerJobs'[k], clock')
    <2>1. \A k \in Jobs : CheckOK(checks[k])
      BY CheckIs DEF JobsStep, JobIsShown
    <2> QED
      BY <1>1, <2>1, ShowsTheSame
  <1>7. ASSUME NEW r \in Servers PROVE TickCarries(r, tick[r])'
    <2>1. CASE r = s /\ t.stage = "NONE"
      BY <1>2, <2>1 DEF TickCarries
    <2>2. CASE r = s /\ t.stage # "NONE"
      <3>1. PICK j \in Jobs : j = tick[s].job
        BY <2>2, TickIs
      <3>2. Honest(workerJobs'[j], clock', tick[s].intent)
        BY <2>2, <3>1, TickIs, TrueStays DEF TickCarries
      <3>3. checks[j].leased /\ checks[j].owner = s => checks[j].intent = tick[s].intent
        BY <2>2, <3>1, TickIs DEF TickCarries
      <3>4. j \in Jobs'
        OBVIOUS
      <3> QED
        BY <1>1, <1>2, <2>2, <3>1, <3>2, <3>3, <3>4 DEF TickCarries
    <2>3. CASE r # s
      BY <1>1, <1>2, <2>3, CarriedStays
    <2> QED
      BY <2>1, <2>2, <2>3
  <1>8. ASSUME NEW n \in wire PROVE RequestOK(Left(n))'
    <2>1. RequestOK(n) /\ n \in Request
      BY DEF CheckInv, CheckTypeOK
    <2>2. n.job \in Jobs' /\ Honest(workerJobs'[n.job], clock', n.payload)
      BY <2>1, TrueStays DEF RequestOK
    <2>3. CASE n.from = s
      BY <1>3, <2>2, <2>3 DEF RequestOK
    <2>4. CASE n.from # s
      <3>1. n.from # None => tick'[n.from] = tick[n.from]
        BY <1>2, <2>1, <2>4 DEF Request
      <3>2. RequestOK(n)'
        BY <2>1, <3>1, RequestStays
      <3> QED
        BY <2>4, <3>2 DEF Left
    <2> QED
      BY <2>3, <2>4
  <1>9. OneRequestEach'
    <2>1. OneRequestEach
      BY DEF CheckInv
    <2>2. ASSUME NEW m \in wire, NEW n \in wire,
                 Left(m).from = Left(n).from, Left(m).from # None
          PROVE  m = n
      BY <1>3, <2>1, <2>2 DEF OneRequestEach
    <2> QED
      BY <1>4, <2>2 DEF OneRequestEach
  <1>10. ASSUME NEW k \in Jobs PROVE OneCreation(k)'
    <2>1. OneCreation(k)
      BY DEF CheckInv
    <2>2. \A r \in Servers : Creating(r, k)' => Creating(r, k)
      BY <1>2 DEF Creating
    <2>3. CreateRequests(k)' = {Left(m) : m \in CreateRequests(k)}
      BY <1>3, <1>4 DEF CreateRequests
    <2> QED
      BY <1>1, <2>1, <2>2, <2>3 DEF OneCreation
  <1> QED
    BY <1>4, <1>5, <1>6, <1>7, <1>8, <1>9, <1>10 DEF CheckInv

LEMMA FaultKeeps ==
    ASSUME JobsStep, CheckInv, Jobs' = Jobs, late' \subseteq Jobs',
           NEW s \in Servers, CallFails(s) \/ ServerDies(s)
    PROVE  CheckInv'
  <1>1. faults' \in Nat /\ Abandoned(s)
    BY DEF CheckInv, CheckTypeOK, CallFails, ServerDies, Fault, Abandoned
  <1>2. CASE ServerDies(s)
    <2>1. NoTick \in TickRecord /\ NoTick.stage = "NONE" /\ tick' = [tick EXCEPT ![s] = NoTick]
      BY <1>2 DEF ServerDies, TickRecord, NoTick
    <2> QED
      BY <1>1, <2>1, AbandonKeeps
  <1>3. CASE CallFails(s)
    <2>1. tick[s].stage \in {"CALL", "WAIT", "DONE"}
      BY <1>3 DEF CallFails
    <2>2. PICK j \in Jobs : j = tick[s].job
      BY <2>1, TickIs
    <2>3. PICK w \in Payloads : w = tick[s].intent
      BY <2>1, TickIs
    <2>4. j \in Nat
      BY CheckIs DEF JobsStep
    <2> DEFINE t == [stage |-> "DONE", job |-> j, intent |-> w, answer |-> None]
    <2>5. tick' = [tick EXCEPT ![s] = t]
      BY <1>3, <2>2, <2>3 DEF CallFails, Answer
    <2>6. t \in TickRecord /\ t.stage = "DONE" /\ t.job = j /\ t.intent = w
      BY <2>4 DEF TickRecord
    <2> HIDE DEF t
    <2> QED
      BY <1>1, <2>1, <2>2, <2>3, <2>5, <2>6, AbandonKeeps
  <1> QED
    BY <1>2, <1>3

\* The provider shows what the request asks for, and who waits is answered.
LEMMA ProcessKeeps ==
    ASSUME JobsStep, CheckInv, Jobs' = Jobs, late' \subseteq Jobs',
           NEW m \in wire, ProcessRequest(m)
    PROVE  CheckInv'
  <1>1. RequestOK(m) /\ m \in Request
    BY DEF CheckInv, CheckTypeOK
  <1>2. PICK j \in Jobs : j = m.job
    BY <1>1 DEF RequestOK
  <1>3. PICK w \in Payloads : w = m.payload
    BY <1>1 DEF Request
  <1>4. /\ j \in Nat /\ created[j] \in Nat
        /\ runs \in Seq(Payloads \union {None}) /\ created \in Seq(Nat)
        /\ DOMAIN runs = Jobs /\ DOMAIN created = Jobs
    BY CheckIs, SameIndices DEF JobsStep, CheckInv, CheckTypeOK
  <1>5. /\ UNCHANGED checks /\ faults' = faults /\ wire' = wire \ {m}
        /\ runs' = [runs EXCEPT ![j] = w]
        /\ created' = [created EXCEPT ![j] = IF m.action = "create" THEN @ + 1 ELSE @]
    BY <1>2, <1>3 DEF ProcessRequest
  <1>6. PICK n \in Nat : n = IF m.action = "create" THEN created[j] + 1 ELSE created[j]
    BY <1>4
  <1>7. created' = [created EXCEPT ![j] = n]
    BY <1>4, <1>5, <1>6
  <1>8. /\ runs' \in Seq(Payloads \union {None}) /\ Len(runs') = Len(runs)
        /\ runs'[j] = w /\ \A k \in Jobs \ {j} : runs'[k] = runs[k]
        /\ created' \in Seq(Nat) /\ Len(created') = Len(created)
        /\ created'[j] = n /\ \A k \in Jobs \ {j} : created'[k] = created[k]
    BY <1>4, <1>5, <1>7
  <1>9. Honest(workerJobs'[j], clock', w)
    BY <1>1, <1>2, <1>3, TrueStays DEF RequestOK
  <1> DEFINE t == [stage |-> "DONE", job |-> j, intent |-> w, answer |-> w]
  <1>10. /\ t \in TickRecord /\ t.stage = "DONE" /\ t.job = j /\ t.intent = w
    BY <1>4 DEF TickRecord
  <1> HIDE DEF t
  <1>11. /\ tick' \in [Servers -> TickRecord]
         /\ \A r \in Servers : r # m.from => tick'[r] = tick[r]
         /\ m.from # None => m.from \in Servers /\ tick'[m.from] = t
    <2>1. tick \in [Servers -> TickRecord]
      BY DEF CheckInv, CheckTypeOK
    <2>2. CASE m.from = None
      BY <2>1, <2>2 DEF ProcessRequest
    <2>3. CASE m.from # None
      <3>1. m.from \in Servers
        BY <1>1, <2>3 DEF Request
      <3>2. tick[m.from].job = j /\ tick[m.from].intent = w
        BY <1>1, <1>2, <1>3, <2>3 DEF RequestOK
      <3>3. tick' = [tick EXCEPT ![m.from] = t]
        BY <1>3, <2>3, <3>2 DEF ProcessRequest, Answer, t
      <3> QED
        BY <1>10, <2>1, <3>1, <3>3
    <2> QED
      BY <2>2, <2>3
  <1>12. CheckTypeOK'
    BY <1>5, <1>8, <1>11, TypesKept DEF CheckInv, CheckTypeOK
  <1>13. ASSUME NEW k \in Jobs PROVE JobIsShown(checks'[k], runs'[k], workerJobs'[k], clock')
    <2>1. JobIsShown(checks[k], runs[k], workerJobs'[k], clock')
      BY CheckIs, ShownStays DEF JobsStep
    <2>2. CASE k # j
      BY <1>5, <1>8, <2>1, <2>2
    <2>3. CASE k = j
      BY <1>5, <1>8, <1>9, <2>1, <2>3 DEF JobIsShown
    <2> QED
      BY <2>2, <2>3
  <1>14. ASSUME NEW r \in Servers PROVE TickCarries(r, tick[r])'
    <2>1. CASE r # m.from
      BY <1>5, <1>11, <2>1, CarriedStays
    <2>2. CASE r = m.from
      <3>1. /\ m.from # None /\ tick[r].stage = "WAIT" /\ tick[r].job = j /\ tick[r].intent = w
        BY <1>1, <1>2, <1>3, <2>2, TickIs DEF RequestOK
      <3>2. checks[j].leased /\ checks[j].owner = r => checks[j].intent = w
        BY <3>1, TickIs DEF TickCarries
      <3> QED
        BY <1>5, <1>9, <1>10, <1>11, <2>2, <3>1, <3>2 DEF TickCarries
    <2> QED
      BY <2>1, <2>2
  <1>15. ASSUME NEW o \in wire \ {m} PROVE RequestOK(o)'
    <2>1. RequestOK(o) /\ o \in Request /\ (o.from # None => o.from # m.from)
      BY DEF CheckInv, CheckTypeOK, OneRequestEach
    <2>2. o.from # None => tick'[o.from] = tick[o.from]
      BY <1>11, <2>1 DEF Request
    <2> QED
      BY <2>1, <2>2, RequestStays
  <1>16. OneRequestEach'
    BY <1>5 DEF CheckInv, OneRequestEach
  <1>17. ASSUME NEW k \in Jobs PROVE OneCreation(k)'
    <2>1. OneCreation(k)
      BY DEF CheckInv
    <2>2. \A r \in Servers : Creating(r, k)' => Creating(r, k)
      BY <1>10, <1>11, TickIs DEF Creating
    <2>3. CASE k = j /\ m.action = "create"
      <3>1. m \in CreateRequests(j)
        BY <1>2, <2>3 DEF CreateRequests
      <3>2. CreateRequests(j)' = {}
        BY <1>5, <2>1, <2>3, <3>1 DEF OneCreation, CreateRequests
      <3>3. /\ checks[j].phase # "CHECK_CREATE_READY" /\ created[j] # 1 /\ created[j] <= 1
            /\ \A r \in Servers : ~Creating(r, j)
        BY <2>1, <2>3, <3>1 DEF OneCreation
      <3>4. created'[j] = 1
        BY <1>4, <1>6, <1>8, <2>3, <3>3
      <3> QED
        BY <1>5, <2>2, <2>3, <3>2, <3>3, <3>4 DEF OneCreation
    <2>4. CASE ~(k = j /\ m.action = "create")
      <3>1. CreateRequests(k)' = CreateRequests(k)
        BY <1>2, <1>5, <2>4 DEF CreateRequests
      <3>2. created'[k] = created[k]
        BY <1>6, <1>8, <2>4
      <3> QED
        BY <1>5, <2>1, <2>2, <3>1, <3>2 DEF OneCreation
    <2> QED
      BY <2>3, <2>4
  <1> QED
    BY <1>5, <1>12, <1>13, <1>14, <1>15, <1>16, <1>17 DEF CheckInv

\* Leases that end take nothing else with them: the checks become free, and
\* some of them end.
LEMMA LeasesEnd ==
    ASSUME JobsStep, CheckInv, Jobs' = Jobs, late' \subseteq Jobs', faults' \in Nat,
           UNCHANGED <<tick, wire, runs, created>>,
           checks' \in Seq(CheckOperation), Len(checks') = Len(checks),
           \A j \in Jobs : \/ checks'[j] = checks[j]
                           \/ /\ checks'[j].phase = checks[j].phase
                              /\ checks'[j].intent = checks[j].intent
                              /\ checks'[j].observed = checks[j].observed
                              /\ ~checks'[j].leased /\ CheckOK(checks'[j])
    PROVE  CheckInv'
  <1>1. CheckTypeOK'
    BY TypesKept DEF CheckInv, CheckTypeOK
  <1>2. \A j \in Jobs : JobIsShown(checks'[j], runs'[j], workerJobs'[j], clock')
    <2>1. \A j \in Jobs : CheckOK(checks[j])
      BY CheckIs DEF JobsStep, JobIsShown
    <2>2. \A j \in Jobs : /\ checks'[j].intent = checks[j].intent
                          /\ checks'[j].observed = checks[j].observed
                          /\ CheckOK(checks'[j])
      BY <2>1
    <2> QED
      BY <2>2, ShowsTheSame
  <1>3. \A r \in Servers : TickCarries(r, tick[r])'
    BY CarriedStays
  <1>4. \A m \in wire : RequestOK(m)'
    BY RequestStays DEF CheckInv
  <1>5. OneRequestEach'
    BY DEF CheckInv, OneRequestEach
  <1>6. ASSUME NEW k \in Jobs PROVE OneCreation(k)'
    <2>1. OneCreation(k) /\ checks'[k].phase = checks[k].phase
      BY DEF CheckInv
    <2>2. \A s \in Servers : Creating(s, k)' => Creating(s, k)
      BY DEF Creating
    <2> QED
      BY <2>1, <2>2, SameCreation
  <1> QED
    BY <1>1, <1>2, <1>3, <1>4, <1>5, <1>6 DEF CheckInv

LEMMA LeaseEndKeeps ==
    ASSUME JobsStep, CheckInv, Jobs' = Jobs, late' \subseteq Jobs',
           NEW j \in Jobs, CheckLeaseEnds(j)
    PROVE  CheckInv'
  <1>1. /\ UNCHANGED <<tick, wire, runs, created>> /\ faults' \in Nat
        /\ checks' = [checks EXCEPT ![j].leased = FALSE]
    BY DEF CheckLeaseEnds, Fault, CheckInv, CheckTypeOK
  <1>2. PICK c0 \in CheckOperation : c0 = checks[j]
    BY CheckIs DEF JobsStep
  <1>3. CheckOK(c0)
    BY <1>2, CheckIs DEF JobsStep, JobIsShown
  <1> DEFINE c == [c0 EXCEPT !.leased = FALSE]
  <1>4. /\ c \in CheckOperation /\ ~c.leased /\ c.phase = c0.phase /\ c.intent = c0.intent
        /\ c.observed = c0.observed /\ c.status = c0.status
        /\ c.observations = c0.observations
    BY DEF CheckOperation
  <1>5. checks' = [checks EXCEPT ![j] = c]
    BY <1>1, <1>2
  <1> HIDE DEF c
  <1>6. CheckOK(c)
    BY <1>3, <1>4 DEF CheckOK
  <1>7. /\ checks' \in Seq(CheckOperation) /\ Len(checks') = Len(checks)
        /\ checks'[j] = c /\ \A k \in Jobs \ {j} : checks'[k] = checks[k]
    <2>1. checks \in Seq(CheckOperation) /\ Checks = Jobs
      BY SameIndices DEF CheckInv, CheckTypeOK, JobsStep
    <2> QED
      BY <1>4, <1>5, <2>1 DEF Checks
  <1> QED
    BY <1>1, <1>2, <1>4, <1>6, <1>7, LeasesEnd

\* The jobs move and the checks do not.
LEMMA JobStepKeeps ==
    ASSUME JobsStep, CheckInv, Jobs' = Jobs, late' \subseteq Jobs',
           UNCHANGED <<checks, tick, wire, runs, created, faults>>
    PROVE  CheckInv'
  BY LeasesEnd DEF CheckInv, CheckTypeOK

\* Only a queued job is new.
LEMMA SameJobSet ==
    ASSUME JobsStep, CheckInv, CheckNext, ~QueueWithCheck
    PROVE  Jobs' = Jobs
  <1>1. CASE JobStep
    BY <1>1 DEF JobStep, cancel_worker_job, reconcile_worker_job, ClaimReady, ClaimWorker,
                recoverWorker, StartWorker, HeartbeatWorker, ReportWorker,
                Write, WriteAttempt, Jobs
  <1>2. CASE TimePasses \/ RestoreWithChecks
    BY <1>2 DEF TimePasses, Tick, RestoreWithChecks, RestoreBackup, Jobs
  <1>3. CASE \E s \in Servers : tickCheck(s)
    <2>1. PICK s \in Servers : tickCheck(s)
      BY <1>3
    <2>2. CASE RecoverJob(tick[s].job)
      BY <2>2 DEF RecoverJob, recoverWorker, Write, Jobs
    <2>3. CASE UNCHANGED jobVars
      BY <2>3 DEF jobVars, Jobs
    <2> QED
      BY <2>1, <2>2, <2>3 DEF tickCheck, TakeCheck, LeaseLost, RefuseCheck, IntendCreate,
         IntendFind, IntendRead, ObserveUnchanged, IntendUpdate, MayObserve, SendCheck,
         ReadRun, PostIORefused, RecordOutcome
  <1>4. CASE \/ \E m \in wire : ProcessRequest(m)
             \/ \E s \in Servers : CallFails(s)
             \/ \E s \in Servers : ServerDies(s)
             \/ \E j \in Checks : CheckLeaseEnds(j)
    BY <1>4 DEF ProcessRequest, CallFails, ServerDies, CheckLeaseEnds, jobVars, Jobs
  <1> QED
    BY <1>1, <1>2, <1>3, <1>4 DEF CheckNext

\* A job is queued with its check.
LEMMA QueueKeeps ==
    ASSUME JobsStep, CheckInv, late' \subseteq Jobs', QueueWithCheck
    PROVE  CheckInv'
  <1>1. PICK key \in Keys, capability \in Capabilities, budget \in Budgets,
             deadline \in 1..(MaxTime - Finalize) :
               workerJobs' = Append(workerJobs, NewJob(key, capability, deadline, budget))
    BY DEF QueueWithCheck, queue_worker_job
  <1>2. /\ checks' = Append(checks, NewCheck) /\ runs' = Append(runs, None)
        /\ created' = Append(created, 0) /\ UNCHANGED <<tick, wire, faults>>
    BY DEF QueueWithCheck
  <1>3. PICK n \in Nat : n = Len(workerJobs) + 1
    BY DEF JobsStep, Inv, TypeOK
  <1>4. /\ Jobs' = Jobs \union {n} /\ n \notin Jobs
        /\ workerJobs'[n] = NewJob(key, capability, deadline, budget)
        /\ Len(workerJobs') = n
    BY <1>1, <1>3 DEF JobsStep, Inv, TypeOK, Jobs
  <1>5. NewCheck \in CheckOperation /\ CheckOK(NewCheck)
    BY DEF NewCheck, CheckOperation, CheckOK, Ended
  <1>6. /\ checks' \in Seq(CheckOperation) /\ Len(checks') = n
        /\ checks'[n] = NewCheck /\ \A k \in Jobs : checks'[k] = checks[k]
    <2>1. checks \in Seq(CheckOperation) /\ Len(checks) = Len(workerJobs) /\ Checks = Jobs
      BY SameIndices DEF CheckInv, CheckTypeOK, JobsStep
    <2> QED
      BY <1>2, <1>3, <1>5, <2>1, SeqAppend DEF Checks
  <1>7. /\ runs' \in Seq(Payloads \union {None}) /\ Len(runs') = n
        /\ runs'[n] = None /\ \A k \in Jobs : runs'[k] = runs[k]
    <2>1. /\ runs \in Seq(Payloads \union {None}) /\ Len(runs) = Len(workerJobs)
          /\ DOMAIN runs = Jobs /\ None \in Payloads \union {None}
      BY SameIndices DEF CheckInv, CheckTypeOK, JobsStep
    <2> QED
      BY <1>2, <1>3, <2>1, SeqAppend
  <1>8. /\ created' \in Seq(Nat) /\ Len(created') = n
        /\ created'[n] = 0 /\ \A k \in Jobs : created'[k] = created[k]
    <2>1. /\ created \in Seq(Nat) /\ Len(created) = Len(workerJobs) /\ DOMAIN created = Jobs
      BY SameIndices DEF CheckInv, CheckTypeOK, JobsStep
    <2> QED
      BY <1>2, <1>3, <2>1, SeqAppend
  <1>9. CheckTypeOK'
    BY <1>2, <1>4, <1>6, <1>7, <1>8 DEF CheckInv, CheckTypeOK
  <1>10. ASSUME NEW k \in Jobs' PROVE JobIsShown(checks'[k], runs'[k], workerJobs'[k], clock')
    <2>1. CASE k \in Jobs
      BY <1>6, <1>7, <2>1, CheckIs, ShownStays DEF JobsStep
    <2>2. CASE k = n
      <3>1. DeadlineOK(workerJobs'[n], clock')
        BY <1>4 DEF NewJob, DeadlineOK
      <3>2. {NewCheck.intent, NewCheck.observed, None} = {None}
        BY DEF NewCheck
      <3> QED
        BY <1>5, <1>6, <1>7, <2>2, <3>1, <3>2 DEF JobIsShown
    <2> QED
      BY <1>4, <2>1, <2>2
  <1>11. \A r \in Servers : TickCarries(r, tick[r])'
    BY <1>2, <1>6, CarriedStays
  <1>12. \A m \in wire : RequestOK(m)'
    BY <1>2, RequestStays DEF CheckInv
  <1>13. OneRequestEach'
    BY <1>2 DEF CheckInv, OneRequestEach
  <1>14. ASSUME NEW k \in Jobs' PROVE OneCreation(k)'
    <2>1. CASE k \in Jobs
      <3>1. OneCreation(k) /\ checks'[k].phase = checks[k].phase /\ created'[k] = created[k]
        BY <1>6, <1>8, <2>1 DEF CheckInv
      <3>2. CreateRequests(k)' = CreateRequests(k)
        BY <1>2 DEF CreateRequests
      <3>3. \A s \in Servers : Creating(s, k)' <=> Creating(s, k)
        BY <1>2 DEF Creating
      <3> QED
        BY <3>1, <3>2, <3>3 DEF OneCreation
    <2>2. CASE k = n
      <3>1. CreateRequests(n)' = {}
        BY <1>2, <1>4 DEF CreateRequests, CheckInv, RequestOK
      <3>2. \A s \in Servers : ~Creating(s, n)'
        BY <1>2, <1>4, TickIs DEF Creating
      <3> QED
        BY <1>8, <2>2, <3>1, <3>2 DEF OneCreation
    <2> QED
      BY <1>4, <2>1, <2>2
  <1> QED
    BY <1>2, <1>9, <1>10, <1>11, <1>12, <1>13, <1>14 DEF CheckInv

\* A restore ends what was active and leaves what is on the wire to itself.
LEMMA RestoreKeeps ==
    ASSUME JobsStep, CheckInv, Jobs' = Jobs, late' \subseteq Jobs', RestoreWithChecks
    PROVE  CheckInv'
  <1> DEFINE c(j) == IF checks[j].status \in Ended THEN checks[j]
                     ELSE [checks[j] EXCEPT !.status = "CANCELLED", !.owner = None,
                                            !.leased = FALSE]
             Left(m) == [m EXCEPT !.from = None]
  <1>1. /\ checks' = [j \in Checks |-> c(j)]
        /\ tick' = [s \in Servers |-> NoTick]
        /\ wire' = {Left(m) : m \in wire}
        /\ UNCHANGED <<runs, created, faults>>
    BY DEF RestoreWithChecks
  <1>2. ASSUME NEW j \in Jobs
        PROVE  /\ c(j) \in CheckOperation /\ c(j).phase = checks[j].phase
               /\ c(j).intent = checks[j].intent /\ c(j).observed = checks[j].observed
               /\ CheckOK(c(j))
    <2>1. PICK c0 \in CheckOperation : c0 = checks[j]
      BY CheckIs DEF JobsStep
    <2>2. CheckOK(c0)
      BY <2>1, CheckIs DEF JobsStep, JobIsShown
    <2>3. CASE c0.status \in Ended
      BY <2>1, <2>2, <2>3
    <2>4. CASE c0.status \notin Ended
      <3> DEFINE d == [c0 EXCEPT !.status = "CANCELLED", !.owner = None, !.leased = FALSE]
      <3>1. /\ d \in CheckOperation /\ ~d.leased /\ d.phase = c0.phase /\ d.intent = c0.intent
            /\ d.observed = c0.observed /\ d.status = "CANCELLED"
            /\ d.observations = c0.observations
        BY DEF CheckOperation, Ended
      <3>2. c(j) = d
        BY <2>1, <2>4
      <3> HIDE DEF d, c
      <3>3. CheckOK(d)
        BY <2>2, <3>1 DEF CheckOK
      <3> QED
        BY <2>1, <3>1, <3>2, <3>3
    <2> QED
      BY <2>1, <2>3, <2>4
  <1>3. ASSUME NEW m \in wire
        PROVE  /\ Left(m) \in Request /\ Left(m).from = None
               /\ Left(m).job = m.job /\ Left(m).action = m.action
               /\ Left(m).payload = m.payload
    <2>1. m \in Request
      BY DEF CheckInv, CheckTypeOK
    <2> QED
      BY <2>1 DEF Request
  <1> HIDE DEF c, Left
  <1>4. /\ checks' \in Seq(CheckOperation) /\ Len(checks') = Len(checks)
        /\ \A j \in Jobs : checks'[j] = c(j)
    <2>1. checks \in Seq(CheckOperation) /\ Checks = Jobs
      BY SameIndices DEF CheckInv, CheckTypeOK, JobsStep
    <2>2. checks' \in [DOMAIN checks -> CheckOperation]
      BY <1>1, <1>2, <2>1 DEF Checks
    <2> QED
      BY <1>1, <2>1, <2>2, SeqMap DEF Checks
  <1>5. NoTick \in TickRecord /\ NoTick.stage = "NONE"
    BY DEF TickRecord, NoTick
  <1>6. CheckTypeOK'
    <2>1. wire' \subseteq Request /\ tick' \in [Servers -> TickRecord]
      BY <1>1, <1>3, <1>5
    <2> QED
      BY <1>1, <1>4, <2>1, TypesKept DEF CheckInv, CheckTypeOK
  <1>7. \A j \in Jobs : JobIsShown(checks'[j], runs'[j], workerJobs'[j], clock')
    BY <1>1, <1>2, <1>4, ShowsTheSame
  <1>8. \A s \in Servers : TickCarries(s, tick[s])'
    BY <1>1, <1>5 DEF TickCarries
  <1>9. ASSUME NEW m \in wire PROVE RequestOK(Left(m))'
    <2>1. RequestOK(m)
      BY DEF CheckInv
    <2>2. m.job \in Jobs' /\ Honest(workerJobs'[m.job], clock', m.payload)
      BY <2>1, TrueStays DEF RequestOK
    <2> QED
      BY <1>3, <2>2 DEF RequestOK
  <1>10. OneRequestEach'
    BY <1>1, <1>3 DEF OneRequestEach
  <1>11. ASSUME NEW j \in Jobs PROVE OneCreation(j)'
    <2>1. OneCreation(j)
      BY DEF CheckInv
    <2>2. \A s \in Servers : ~Creating(s, j)'
      BY <1>1, <1>5 DEF Creating
    <2>3. CreateRequests(j)' = {Left(m) : m \in CreateRequests(j)}
      BY <1>1, <1>3 DEF CreateRequests
    <2>4. checks'[j].phase = checks[j].phase /\ created'[j] = created[j]
      BY <1>1, <1>2, <1>4
    <2> QED
      BY <2>1, <2>2, <2>3, <2>4 DEF OneCreation
  <1> QED
    BY <1>1, <1>6, <1>7, <1>8, <1>9, <1>10, <1>11 DEF CheckInv

-----------------------------------------------------------------------------
(***************************************************************************)
(* The theorems of the publication                                         *)
(***************************************************************************)

\* Every step keeps the invariant, given what the protocol does to the jobs.
LEMMA CheckInvStep ==
    ASSUME Inv, Inv', CheckInv, TickOK, [CheckNext]_allVars
    PROVE  CheckInv'
  <1>1. [Next]_vars
    BY CheckStepIsStep, WorkerAssumption, CheckAssumption
  <1>2. JobsStep
    BY <1>1, StepKeepsJobs DEF JobsStep
  <1>3. CASE UNCHANGED allVars
    <2>1. Jobs' = Jobs /\ late' \subseteq Jobs'
      BY <1>3 DEF allVars, jobVars, checkVars, Jobs, CheckInv, CheckTypeOK
    <2> QED
      BY <1>2, <1>3, <2>1, JobStepKeeps DEF allVars, checkVars
  <1>4. CASE CheckNext
    <2>1. late' \subseteq Jobs'
      BY <1>4 DEF CheckNext, Stamp, Jobs
    <2>2. CASE QueueWithCheck
      BY <1>2, <2>1, <2>2, QueueKeeps
    <2>3. CASE ~QueueWithCheck
      <3>1. Jobs' = Jobs
        BY <1>2, <1>4, <2>3, SameJobSet
      <3>2. CASE JobStep \/ TimePasses
        BY <1>2, <2>1, <3>1, <3>2, JobStepKeeps DEF JobStep, TimePasses
      <3>3. CASE RestoreWithChecks
        BY <1>2, <2>1, <3>1, <3>3, RestoreKeeps
      <3>4. ASSUME NEW s \in Servers, tickCheck(s) PROVE CheckInv'
        <4>1. CASE \E j \in Jobs : TakeCheck(s, j)
          BY <1>2, <2>1, <3>1, <4>1, TakeKeeps
        <4>2. CASE LeaseLost(s)
          BY <1>2, <2>1, <3>1, <4>2, LostKeeps
        <4>3. CASE \E authorised \in BOOLEAN :
                     RefuseCheck(s, authorised) \/ PostIORefused(s, authorised)
          <5>1. /\ tick[s].stage \in {"BEGIN", "DONE"} /\ HoldsLease(s)
                /\ GiveUp(s, tick[s].job) /\ UNCHANGED <<wire, runs, created>>
                /\ faults' = faults
            BY <4>3 DEF RefuseCheck, PostIORefused
          <5> QED
            BY <1>2, <2>1, <3>1, <5>1, GiveUpKeeps
        <4>4. CASE \/ IntendCreate(s) \/ IntendFind(s) \/ IntendRead(s)
                   \/ ObserveUnchanged(s) \/ IntendUpdate(s)
          BY <1>2, <2>1, <3>1, <4>4, ObserveKeeps
        <4>5. CASE SendCheck(s)
          BY <1>2, <2>1, <3>1, <4>5, SendKeeps
        <4>6. CASE ReadRun(s)
          BY <1>2, <2>1, <3>1, <4>6, ReadKeeps
        <4>7. CASE RecordOutcome(s)
          BY <1>2, <2>1, <3>1, <4>7, RecordKeeps
        <4> QED
          BY <3>4, <4>1, <4>2, <4>3, <4>4, <4>5, <4>6, <4>7 DEF tickCheck
      <3>5. CASE \E m \in wire : ProcessRequest(m)
        BY <1>2, <2>1, <3>1, <3>5, ProcessKeeps
      <3>6. CASE \E s \in Servers : CallFails(s) \/ ServerDies(s)
        BY <1>2, <2>1, <3>1, <3>6, FaultKeeps
      <3>7. CASE \E j \in Checks : CheckLeaseEnds(j)
        BY <1>2, <2>1, <3>1, <3>7, LeaseEndKeeps, SameIndices
      <3> QED
        BY <1>4, <2>3, <3>2, <3>3, <3>4, <3>5, <3>6, <3>7 DEF CheckNext
    <2> QED
      BY <2>2, <2>3
  <1> QED
    BY <1>3, <1>4

LEMMA CheckInvInit ==
    CheckInit => CheckInv
  <1> SUFFICES ASSUME CheckInit PROVE CheckInv
    OBVIOUS
  <1>1. /\ workerJobs = <<>> /\ checks = <<>> /\ runs = <<>> /\ created = <<>>
        /\ late = {} /\ wire = {} /\ faults = 0 /\ tick = [s \in Servers |-> NoTick]
    BY DEF CheckInit, Init
  <1>2. Jobs = {}
    BY <1>1 DEF Jobs
  <1>3. NoTick \in TickRecord /\ NoTick.stage = "NONE"
    BY DEF TickRecord, NoTick
  <1>4. tick \in [Servers -> TickRecord] /\ \A s \in Servers : tick[s] = NoTick
    BY <1>1, <1>3
  <1>5. CheckTypeOK
    <2>1. /\ <<>> \in Seq(CheckOperation) /\ <<>> \in Seq(Payloads \union {None})
          /\ <<>> \in Seq(Nat)
      OBVIOUS
    <2> QED
      BY <1>1, <1>2, <1>4, <2>1 DEF CheckTypeOK
  <1> QED
    BY <1>1, <1>2, <1>3, <1>4, <1>5 DEF CheckInv, TickCarries, OneRequestEach

\* The invariants of the protocol and of the publication hold in every state.
THEOREM CheckInvariantHolds == CheckSpec => [](Inv /\ CheckInv)
  <1>1. CheckInit => Inv /\ CheckInv /\ TickOK
    BY InvInit, CheckInvInit DEF CheckInit, TickOK, NoTick
  <1>2. Inv /\ CheckInv /\ TickOK /\ [CheckNext]_allVars => Inv' /\ CheckInv' /\ TickOK'
    <2> SUFFICES ASSUME Inv, CheckInv, TickOK, [CheckNext]_allVars
                 PROVE  Inv' /\ CheckInv' /\ TickOK'
      OBVIOUS
    <2>1. [Next]_vars
      BY CheckStepIsStep, WorkerAssumption, CheckAssumption
    <2>2. Inv'
      BY <2>1, InvStep
    <2>3. TickOK'
      BY <2>1, JobsGrow, TickOKPreserved
    <2>4. CheckInv'
      BY <2>2, CheckInvStep
    <2> QED
      BY <2>2, <2>3, <2>4
  <1> QED
    BY <1>1, <1>2, PTL DEF CheckSpec

\* The publication's variables keep their types, the protocol's too.
THEOREM CheckTypesHold == CheckSpec => [](TypeOK /\ CheckTypeOK)
  <1>1. Inv /\ CheckInv => TypeOK /\ CheckTypeOK
    BY DEF Inv, CheckInv
  <1> QED
    BY CheckInvariantHolds, <1>1, PTL

\* However many servers run tickCheck, lose answers, die and outlive their
\* leases, the provider never makes two runs of one check.
THEOREM OneRunPerJob == CheckSpec => []CreatedOnce
  <1>1. Inv /\ CheckInv => CreatedOnce
    BY SameIndices DEF CheckInv, OneCreation, CreatedOnce
  <1> QED
    BY CheckInvariantHolds, <1>1, PTL

\* No conclusion the provider shows is contradicted by the job, then or later:
\* a late request included.
THEOREM ConclusionsStandTrue == CheckSpec => []ConclusionIsTrue
  <1>1. ASSUME Inv, CheckInv PROVE ConclusionIsTrue
    <2> SUFFICES ASSUME NEW j \in Jobs, runs[j] # None
                 PROVE  LET job == workerJobs[j] IN
                        CASE runs[j].conclusion = "success"   -> job.status = "SUCCEEDED"
                          [] runs[j].conclusion = "failure"   -> job.status = "FAILED"
                          [] runs[j].conclusion = "cancelled" ->
                                job.cancellationRequested \/ job.status = "CANCELLED"
                          [] runs[j].conclusion = "timed_out" ->
                                clock >= job.deadline /\ job.status # "SUCCEEDED"
                          [] OTHER -> TRUE
      BY DEF ConclusionIsTrue
    <2>1. Honest(workerJobs[j], clock, runs[j])
      BY <1>1 DEF CheckInv, JobIsShown
    <2> QED
      BY <2>1 DEF Honest
  <1> QED
    BY CheckInvariantHolds, <1>1, PTL

\* ValidateWorkerChecks never refuses an update of the store.
THEOREM StoreNeverRefuses == CheckSpec => []StoredIsValid
  <1>1. ASSUME Inv, CheckInv PROVE StoredIsValid
    <2> SUFFICES ASSUME NEW j \in Jobs PROVE ValidateWorkerChecks(j)
      BY <1>1, SameIndices DEF StoredIsValid
    <2>1. /\ CheckOK(checks[j]) /\ workerJobs[j] \in Job
          /\ \A w \in {checks[j].intent, checks[j].observed} \ {None} :
                Honest(workerJobs[j], clock, w)
      BY <1>1, CheckIs DEF JobIsShown
    <2>2. workerJobs[j].status = "SUCCEEDED" => checkSuccessProvenance(j)
      <3> SUFFICES ASSUME workerJobs[j].status = "SUCCEEDED" PROVE checkSuccessProvenance(j)
        OBVIOUS
      <3>1. ~workerJobs[j].cancellationRequested
        BY <1>1 DEF Inv, JobsOK, JobOK, Uncertain
      <3>2. PICK i \in Attempts : /\ workerAttempts[i].job = j
                                  /\ workerAttempts[i].fence = workerJobs[j].fence
        BY <1>1 DEF Inv, HeldByAttempt
      <3>3. workerAttempts[i].status = "SUCCEEDED" /\ workerAttempts[i].report = "PASSED"
        BY <1>1, <3>2 DEF Inv, AttemptsOK, AttemptOK, CurrentOK
      <3>4. i \in currentWorkerAttempt(j)
        BY <1>1, <3>2, CurrentIsTheOne DEF Inv
      <3> QED
        BY <3>1, <3>3, <3>4 DEF checkSuccessProvenance
    <2>3. \A w \in {checks[j].intent, checks[j].observed} \ {None} :
             /\ validCheckPayload(w)
             /\ w.conclusion = "success" => checkSuccessProvenance(j)
      BY <2>1, <2>2 DEF Honest
    <2> QED
      BY <2>1, <2>3 DEF ValidateWorkerChecks, CheckOK
  <1> QED
    BY CheckInvariantHolds, <1>1, PTL

-----------------------------------------------------------------------------
(***************************************************************************)
(* Part 3: native publication and delivery                                 *)
(***************************************************************************)

-----------------------------------------------------------------------------
(***************************************************************************)
(* The inductive invariant                                                 *)
(***************************************************************************)

\* What the store holds.
StoredJob ==
    [key : Keys, capability : Capabilities, deadline : Nat, maxAttempts : Nat,
     status : JobStatus, fence : Nat, cancellationRequested : BOOLEAN]
Delivery ==
    [status : {"PENDING", "RUNNING"} \union Over, phase : Phases,
     owner : Processes \union {None}, leased : BOOLEAN, deadline : Nat,
     build : Nat, publication : Nat, artifact : Nat]
Artifact == [job : Nat, attempt : Nat, digest : Nat, reconciled : BOOLEAN]
AdmissionCall == [kind : {"report", "reconcile"}, attempt : Nat, read : BOOLEAN]
DeliveryTick ==
    {NotTicking} \union
    [stage : {"TAKEN", "PROPOSE", "PROPOSED"}, delivery : Deliveries, copy : Delivery]

JobTypes ==
    /\ workerJobs \in Seq(StoredJob)
    /\ workerAttempts \in Seq(Attempt)
    /\ \A i \in Attempts : workerAttempts[i].job \in Jobs
    /\ clock \in Nat

StoreTypes ==
    /\ receipts \in Seq(Nat) /\ Len(receipts) = Len(workerJobs)
    /\ artifacts \in Seq(Artifact)
    /\ calls \subseteq AdmissionCall

DeliveryTypes ==
    /\ Requested \subseteq Deliveries
    /\ deliveries \in [Requested -> Delivery]
    /\ ticking \in [Processes -> DeliveryTick]
    /\ \A s \in Processes : ticking[s] # NotTicking =>
          ticking[s].delivery \in Requested /\ ticking[s].copy.owner = s

\* A delivery links jobs that exist, and as its publication one that publishes;
\* a job that names a delivery was queued for one that exists.
LinksOK ==
    /\ \A d \in Requested :
          /\ deliveries[d].build # 0 => deliveries[d].build \in Jobs
          /\ deliveries[d].publication # 0 =>
                /\ deliveries[d].publication \in Jobs
                /\ workerJobs[deliveries[d].publication].capability = Publish
    /\ \A j \in Jobs : Managed(j) => Owner(j) \in Requested

\* The copy a Tick may still store links the jobs the stored delivery links.
CopyOK(s) ==
    ticking[s] # NotTicking /\ OwnerKept(s) =>
        /\ ticking[s].copy.build = deliveries[ticking[s].delivery].build
        /\ ticking[s].copy.publication = deliveries[ticking[s].delivery].publication

CopiesOK == \A s \in Processes : CopyOK(s)

\* What an admission read in the registry is there.
CallsOK ==
    \A call \in calls :
        /\ call.attempt \in Attempts
        /\ call.read => receipts[workerAttempts[call.attempt].job] \in registry

OneArtifact(j) ==
    workerJobs[j].capability = Publish =>
        IF workerJobs[j].status = "SUCCEEDED" THEN \E n : ArtifactsOf(j) = {n}
        ELSE ArtifactsOf(j) = {}

\* An artifact keeps its evidence, and its job that of the build, whether the
\* product is quarantined or not.
ArtifactOK(n) ==
    /\ artifacts[n].job \in Jobs /\ artifacts[n].attempt \in Attempts
    /\ publicationEvidence(n)
    /\ ~workerJobs[artifacts[n].job].cancellationRequested
    /\ BuildProvenance(artifacts[n].job)
    /\ artifacts[n].digest \in registry

AdmissionsOK ==
    /\ \A j \in Jobs : OneArtifact(j)
    /\ \A n \in DOMAIN artifacts : ArtifactOK(n)

NativeInv ==
    /\ JobTypes /\ StoreTypes /\ DeliveryTypes
    /\ LinksOK /\ CopiesOK /\ CallsOK /\ AdmissionsOK

-----------------------------------------------------------------------------
(***************************************************************************)
(* What no step of the worker protocol does                                *)
(***************************************************************************)

\* A job keeps what it was queued with, changes nothing once it is terminal, and
\* succeeds as a publication only by an admission.
JobStays(old, new) ==
    /\ new \in StoredJob
    /\ new.key = old.key /\ new.capability = old.capability
    /\ old.status \in Terminal => new = old
    /\ new.capability = Publish /\ new.status = "SUCCEEDED" => old.status = "SUCCEEDED"

\* An attempt keeps its job and its fence, and changes nothing once its job is
\* terminal.
AttemptStays(old, new) ==
    /\ new \in Attempt
    /\ new.job = old.job /\ new.fence = old.fence
    /\ workerJobs[old.job].status \in Terminal => new = old

\* A step keeps all jobs and attempts in this sense.
JobsStay ==
    /\ \A j \in Jobs : j \in Jobs' /\ JobStays(workerJobs[j], workerJobs'[j])
    /\ \A i \in Attempts : i \in Attempts' /\ AttemptStays(workerAttempts[i], workerAttempts'[i])

\* New jobs are queued.
NewJobsQueued == \A j \in Jobs' : j \notin Jobs => workerJobs'[j].status = "QUEUED"

ProtocolStep == JobTypes' /\ JobsStay /\ NewJobsQueued

\* A job that stays as it is stays.
LEMMA JobUnchanged ==
    ASSUME NEW job \in StoredJob
    PROVE  JobStays(job, job)
  BY DEF JobStays

LEMMA AttemptUnchanged ==
    ASSUME NEW a \in Attempt
    PROVE  AttemptStays(a, a)
  BY DEF AttemptStays

\* A job that is not terminal may change its status.
LEMMA StatusChanges ==
    ASSUME NEW job \in StoredJob, NEW status \in JobStatus,
           job.status \notin Terminal \/ status = job.status,
           job.capability = Publish => status # "SUCCEEDED" \/ status = job.status
    PROVE  JobStays(job, [job EXCEPT !.status = status])
  BY DEF JobStays, StoredJob

\* ... and be cancelled.
LEMMA StatusCancelled ==
    ASSUME NEW job \in StoredJob, NEW status \in JobStatus \ {"SUCCEEDED"},
           job.status \notin Terminal
    PROVE  JobStays(job, [job EXCEPT !.status = status, !.cancellationRequested = TRUE])
  BY DEF JobStays, StoredJob

\* The attempt of a job that is not terminal may change status, lease and report.
LEMMA AttemptChanges ==
    ASSUME NEW a \in Attempt, workerJobs[a.job].status \notin Terminal,
           NEW b \in Attempt, b.job = a.job, b.fence = a.fence
    PROVE  AttemptStays(a, b)
  BY DEF AttemptStays

\* The kinds of the attempts that are written.
LEMMA AttemptStatusSet ==
    ASSUME NEW a \in Attempt, NEW status \in AttemptStatus
    PROVE  LET b == [a EXCEPT !.status = status]
           IN b \in Attempt /\ b.job = a.job /\ b.fence = a.fence
  BY DEF Attempt

\* The two sequences, element by element.
LEMMA Elements ==
    ASSUME JobTypes
    PROVE  /\ \A j \in Jobs : workerJobs[j] \in StoredJob /\ j \in Nat \ {0}
           /\ \A i \in Attempts : /\ workerAttempts[i] \in Attempt /\ i \in Nat
                                  /\ workerAttempts[i].job \in Jobs
  BY DEF JobTypes, Jobs, Attempts

\* A step that maps jobs and attempts one by one.
LEMMA InPlace ==
    ASSUME JobTypes,
           workerJobs' \in [Jobs -> StoredJob], workerAttempts' \in [Attempts -> Attempt],
           \A j \in Jobs : JobStays(workerJobs[j], workerJobs'[j]),
           \A i \in Attempts : AttemptStays(workerAttempts[i], workerAttempts'[i]),
           clock' \in Nat
    PROVE  ProtocolStep /\ Jobs' = Jobs /\ Attempts' = Attempts
  <1>1. workerJobs' \in Seq(StoredJob) /\ Jobs' = Jobs
    BY SeqMap DEF JobTypes, Jobs
  <1>2. workerAttempts' \in Seq(Attempt) /\ Attempts' = Attempts
    BY SeqMap DEF JobTypes, Attempts
  <1>3. \A i \in Attempts : workerAttempts'[i].job \in Jobs
    BY Elements DEF AttemptStays
  <1>4. JobTypes'
    BY <1>1, <1>2, <1>3 DEF JobTypes
  <1> QED
    BY <1>1, <1>2, <1>4 DEF ProtocolStep, JobsStay, NewJobsQueued

\* A step that leaves the protocol alone.
LEMMA ProtocolAlone ==
    ASSUME JobTypes, UNCHANGED <<workerJobs, workerAttempts>>, clock' \in Nat
    PROVE  ProtocolStep /\ Jobs' = Jobs /\ Attempts' = Attempts
  <1>1. \A j \in Jobs : workerJobs[j] \in StoredJob
    BY Elements
  <1>2. \A i \in Attempts : workerAttempts[i] \in Attempt
    BY Elements
  <1>3. workerJobs \in [Jobs -> StoredJob] /\ workerAttempts \in [Attempts -> Attempt]
    BY DEF JobTypes, Jobs, Attempts
  <1> QED
    BY <1>1, <1>2, <1>3, InPlace, JobUnchanged, AttemptUnchanged

\* Write, for a job that is not terminal.
LEMMA WriteStep ==
    ASSUME JobTypes, NEW j \in Jobs, workerJobs[j].status \notin Terminal, NEW job,
           JobStays(workerJobs[j], job), NEW a \in AttemptStatus, Write(j, job, a)
    PROVE  ProtocolStep /\ Jobs' = Jobs /\ Attempts' = Attempts
  <1>1. /\ workerJobs' = [workerJobs EXCEPT ![j] = job]
        /\ workerAttempts' = [i \in Attempts |->
              IF i \in currentWorkerAttempt(j)
              THEN [workerAttempts[i] EXCEPT !.status = a] ELSE workerAttempts[i]]
        /\ clock' = clock
    BY DEF Write, WithAttemptStatus
  <1>2. job \in StoredJob
    BY DEF JobStays
  <1>3. workerJobs' \in [Jobs -> StoredJob]
    BY <1>1, <1>2 DEF JobTypes, Jobs
  <1>4. ASSUME NEW k \in Jobs
        PROVE  JobStays(workerJobs[k], workerJobs'[k])
    <2>1. workerJobs'[k] = IF k = j THEN job ELSE workerJobs[k]
      BY <1>1 DEF Jobs, JobTypes
    <2> QED
      BY <2>1, JobUnchanged, Elements
  <1>5. ASSUME NEW i \in Attempts
        PROVE  AttemptStays(workerAttempts[i], workerAttempts'[i])
    <2>1. CASE i \in currentWorkerAttempt(j)
      <3>1. workerAttempts'[i] = [workerAttempts[i] EXCEPT !.status = a]
        BY <1>1, <2>1
      <3>2. workerAttempts[i].job = j
        BY <2>1 DEF currentWorkerAttempt
      <3> QED
        <4>1. workerAttempts[i] \in Attempt
          BY Elements
        <4>2. /\ workerAttempts'[i] \in Attempt
              /\ workerAttempts'[i].job = workerAttempts[i].job
              /\ workerAttempts'[i].fence = workerAttempts[i].fence
          BY <3>1, <4>1, AttemptStatusSet
        <4>3. workerJobs[workerAttempts[i].job].status \notin Terminal
          BY <3>2
        <4> QED
          BY <4>1, <4>2, <4>3, AttemptChanges
    <2>2. CASE i \notin currentWorkerAttempt(j)
      BY <1>1, <2>2, Elements, AttemptUnchanged
    <2> QED
      BY <2>1, <2>2
  <1>6. workerAttempts' \in [Attempts -> Attempt]
    BY <1>1, <1>5 DEF AttemptStays
  <1> QED
    BY <1>1, <1>3, <1>4, <1>5, <1>6, InPlace DEF JobTypes

\* WriteAttempt, for an attempt of a job that is not terminal.
LEMMA WriteAttemptStep ==
    ASSUME JobTypes, NEW i \in Attempts, NEW job, NEW a, NEW started,
           JobStays(workerJobs[workerAttempts[i].job], job),
           AttemptStays(workerAttempts[i], a), WriteAttempt(i, job, a, started)
    PROVE  ProtocolStep /\ Jobs' = Jobs /\ Attempts' = Attempts
  <1> DEFINE j == workerAttempts[i].job
  <1>1. /\ workerJobs' = [workerJobs EXCEPT ![j] = job]
        /\ workerAttempts' = [workerAttempts EXCEPT ![i] = a]
        /\ clock' = clock
    BY DEF WriteAttempt
  <1>2. job \in StoredJob /\ a \in Attempt
    BY DEF JobStays, AttemptStays
  <1>3. workerJobs' \in [Jobs -> StoredJob] /\ workerAttempts' \in [Attempts -> Attempt]
    BY <1>1, <1>2 DEF JobTypes, Jobs, Attempts
  <1>4. \A k \in Jobs : workerJobs'[k] = IF k = j THEN job ELSE workerJobs[k]
    BY <1>1 DEF Jobs
  <1>5. \A k \in Attempts : workerAttempts'[k] = IF k = i THEN a ELSE workerAttempts[k]
    BY <1>1 DEF Attempts
  <1>6. \A k \in Jobs : JobStays(workerJobs[k], workerJobs'[k])
    BY <1>4, JobUnchanged, Elements
  <1>7. \A k \in Attempts : AttemptStays(workerAttempts[k], workerAttempts'[k])
    BY <1>5, AttemptUnchanged, Elements
  <1> QED
    BY <1>1, <1>3, <1>6, <1>7, InPlace DEF JobTypes

\* The steps of a command, of recovery and of a worker's call.
LEMMA CancelStays ==
    ASSUME JobTypes, NEW j \in Jobs, cancel_worker_job(j)
    PROVE  ProtocolStep /\ Jobs' = Jobs /\ Attempts' = Attempts
  <1> DEFINE status == IF workerJobs[j].status \in {"RUNNING", Uncertain} THEN Uncertain
                       ELSE "CANCELLED"
             job == [workerJobs[j] EXCEPT !.status = status, !.cancellationRequested = TRUE]
  <1>1. workerJobs[j] \in StoredJob /\ workerJobs[j].status \notin Terminal
    BY Elements DEF cancel_worker_job
  <1>2. status \in {Uncertain, "CANCELLED"}
    OBVIOUS
  <1>3. job.status = status
    BY <1>1 DEF StoredJob
  <1>4. Write(j, job, status)
    BY <1>1, <1>3 DEF cancel_worker_job, StoredJob
  <1>5. status \in JobStatus \ {"SUCCEEDED"} /\ status \in AttemptStatus
    BY <1>2 DEF JobStatus, AttemptStatus, Uncertain, Terminal
  <1>6. JobStays(workerJobs[j], job)
    BY <1>1, <1>5, StatusCancelled
  <1> QED
    BY <1>1, <1>4, <1>5, <1>6, WriteStep

LEMMA ReconcileStays ==
    ASSUME JobTypes, NEW j \in Jobs, NEW outcome \in {"FAILED", "CANCELLED"},
           reconcile_worker_job(j, outcome)
    PROVE  ProtocolStep /\ Jobs' = Jobs /\ Attempts' = Attempts
  <1> DEFINE job == [workerJobs[j] EXCEPT !.status = outcome]
  <1>1. workerJobs[j] \in StoredJob /\ workerJobs[j].status \notin Terminal
    BY Elements DEF reconcile_worker_job, Terminal, Uncertain
  <1>2. Write(j, job, outcome)
    BY DEF reconcile_worker_job
  <1>3. outcome \in JobStatus /\ outcome \in AttemptStatus /\ outcome # "SUCCEEDED"
    BY DEF JobStatus, AttemptStatus, Terminal
  <1>4. JobStays(workerJobs[j], job)
    BY <1>1, <1>3, StatusChanges
  <1> QED
    BY <1>1, <1>2, <1>3, <1>4, WriteStep

\* What recovery makes of a job that is due.
LEMMA RecoveryStatus ==
    ASSUME NEW j, Due(j)
    PROVE  /\ workerJobs[j].status \notin Terminal
           /\ RecoveredStatus(j) \in {Uncertain, "DEADLINE_EXCEEDED", "QUEUED", "FAILED"}
  <1>1. workerJobs[j].status \in {"QUEUED", "CLAIMED", "RUNNING"}
    BY DEF Due
  <1>2. workerJobs[j].status \notin Terminal
    BY <1>1 DEF Terminal
  <1>3. RecoveredStatus(j) \in {Uncertain, "DEADLINE_EXCEEDED", "QUEUED", "FAILED"}
    BY DEF RecoveredStatus
  <1> QED
    BY <1>2, <1>3

LEMMA RecoverStays ==
    ASSUME JobTypes, NEW j \in Jobs, recoverWorker(j)
    PROVE  ProtocolStep /\ Jobs' = Jobs /\ Attempts' = Attempts
  <1> DEFINE job == [workerJobs[j] EXCEPT !.status = RecoveredStatus(j)]
  <1>1. Due(j) /\ Write(j, job, "EXPIRED")
    BY DEF recoverWorker
  <1>2. /\ workerJobs[j] \in StoredJob /\ workerJobs[j].status \notin Terminal
        /\ RecoveredStatus(j) \in {Uncertain, "DEADLINE_EXCEEDED", "QUEUED", "FAILED"}
    BY <1>1, Elements, RecoveryStatus
  <1>3. RecoveredStatus(j) \in JobStatus /\ RecoveredStatus(j) # "SUCCEEDED"
    BY <1>2 DEF JobStatus, Terminal, Uncertain
  <1>4. JobStays(workerJobs[j], job)
    BY <1>2, <1>3, StatusChanges
  <1>5. "EXPIRED" \in AttemptStatus
    BY DEF AttemptStatus
  <1> QED
    BY <1>1, <1>2, <1>4, <1>5, WriteStep

\* The attempt of a call that is admitted, and its job.
LEMMA AdmittedIs ==
    ASSUME JobTypes, NEW i \in Attempts, Admitted(i)
    PROVE  /\ workerAttempts[i] \in Attempt /\ workerAttempts[i].job \in Jobs
           /\ workerJobs[workerAttempts[i].job] \in StoredJob
           /\ workerJobs[workerAttempts[i].job].status \notin Terminal
  BY Elements DEF Admitted

LEMMA StartStays ==
    ASSUME JobTypes, NEW i \in Attempts, StartWorker(i)
    PROVE  ProtocolStep /\ Jobs' = Jobs /\ Attempts' = Attempts
  <1> DEFINE j == workerAttempts[i].job
             job == [workerJobs[j] EXCEPT !.status = "RUNNING"]
             a == [workerAttempts[i] EXCEPT !.status = "RUNNING"]
  <1>1. Admitted(i) /\ WriteAttempt(i, job, a, {[job |-> j, fence |-> workerJobs[j].fence]})
    BY DEF StartWorker
  <1>2. /\ workerAttempts[i] \in Attempt /\ j \in Jobs /\ workerJobs[j] \in StoredJob
        /\ workerJobs[j].status \notin Terminal
    BY <1>1, AdmittedIs
  <1>3. JobStays(workerJobs[j], job)
    BY <1>2, StatusChanges DEF JobStatus
  <1>4. a \in Attempt /\ a.job = workerAttempts[i].job /\ a.fence = workerAttempts[i].fence
    BY <1>2, AttemptStatusSet DEF AttemptStatus
  <1>5. AttemptStays(workerAttempts[i], a)
    BY <1>2, <1>4, AttemptChanges
  <1> QED
    BY <1>1, <1>3, <1>5, WriteAttemptStep

LEMMA HeartbeatStays ==
    ASSUME JobTypes, WorkerAssumption, NEW i \in Attempts, HeartbeatWorker(i)
    PROVE  ProtocolStep /\ Jobs' = Jobs /\ Attempts' = Attempts
  <1> DEFINE j == workerAttempts[i].job
             a == [workerAttempts[i] EXCEPT !.leaseUntil = LeaseEnd(j)]
  <1>1. Admitted(i) /\ WriteAttempt(i, workerJobs[j], a, {})
    BY DEF HeartbeatWorker
  <1>2. /\ workerAttempts[i] \in Attempt /\ j \in Jobs /\ workerJobs[j] \in StoredJob
        /\ workerJobs[j].status \notin Terminal
    BY <1>1, AdmittedIs
  <1>3. JobStays(workerJobs[j], workerJobs[j])
    BY <1>2, JobUnchanged
  <1>4. workerJobs[j].deadline \in Nat /\ clock + Lease \in Nat
    <2>1. workerJobs[j].deadline \in Nat
      BY <1>2 DEF StoredJob
    <2>2. clock \in Nat /\ Lease \in Nat
      BY DEF JobTypes, WorkerAssumption
    <2> QED
      BY <2>1, <2>2
  <1>5. LeaseEnd(j) \in Nat
    BY <1>4 DEF LeaseEnd, Earlier
  <1>6. a \in Attempt /\ a.job = workerAttempts[i].job /\ a.fence = workerAttempts[i].fence
    BY <1>2, <1>5 DEF Attempt
  <1>7. AttemptStays(workerAttempts[i], a)
    BY <1>2, <1>6, AttemptChanges
  <1> QED
    BY <1>1, <1>3, <1>7, WriteAttemptStep

LEMMA ReportStays ==
    ASSUME JobTypes, NEW i \in Attempts, NEW result \in Results, ReportFenced(i, result)
    PROVE  ProtocolStep /\ Jobs' = Jobs /\ Attempts' = Attempts
  <1> DEFINE j == workerAttempts[i].job
             job == [workerJobs[j] EXCEPT !.status = Verdict(result)]
             a == [workerAttempts[i] EXCEPT !.status = Verdict(result), !.report = result]
  <1>1. /\ Admitted(i) /\ WriteAttempt(i, job, a, {})
        /\ workerJobs[j].capability = Publish => result # "PASSED"
    BY DEF ReportFenced, ReportWorker
  <1>2. /\ workerAttempts[i] \in Attempt /\ j \in Jobs /\ workerJobs[j] \in StoredJob
        /\ workerJobs[j].status \notin Terminal
    BY <1>1, AdmittedIs
  <1>3. /\ Verdict(result) \in JobStatus /\ Verdict(result) \in AttemptStatus
        /\ workerJobs[j].capability = Publish => Verdict(result) # "SUCCEEDED"
    BY <1>1 DEF Verdict, JobStatus, AttemptStatus, Terminal
  <1>4. JobStays(workerJobs[j], job)
    BY <1>2, <1>3, StatusChanges
  <1>5. a \in Attempt /\ a.job = workerAttempts[i].job /\ a.fence = workerAttempts[i].fence
    BY <1>2, <1>3 DEF Attempt
  <1>6. AttemptStays(workerAttempts[i], a)
    BY <1>2, <1>5, AttemptChanges
  <1> QED
    BY <1>1, <1>4, <1>6, WriteAttemptStep

\* A job that is appended.
LEMMA AppendStays ==
    ASSUME JobTypes, NEW job \in StoredJob, job.status = "QUEUED",
           workerJobs' = Append(workerJobs, job), UNCHANGED <<workerAttempts, clock>>
    PROVE  /\ ProtocolStep /\ Attempts' = Attempts
           /\ Jobs' = Jobs \union {Len(workerJobs) + 1} /\ Len(workerJobs) + 1 \notin Jobs
           /\ Len(workerJobs) + 1 \in Nat \ {0}
           /\ workerJobs'[Len(workerJobs) + 1] = job
  <1>1. /\ workerJobs' \in Seq(StoredJob)
        /\ Jobs' = Jobs \union {Len(workerJobs) + 1} /\ Len(workerJobs) + 1 \notin Jobs
        /\ \A j \in Jobs : workerJobs'[j] = workerJobs[j]
        /\ workerJobs'[Len(workerJobs) + 1] = job
    BY SeqAppend DEF JobTypes, Jobs
  <1>2. Attempts' = Attempts
    BY DEF Attempts
  <1>3. JobTypes'
    BY <1>1, <1>2 DEF JobTypes
  <1>4. \A j \in Jobs : workerJobs[j] \in StoredJob
    BY Elements
  <1>5. \A i \in Attempts : workerAttempts[i] \in Attempt
    BY Elements
  <1>6. JobsStay
    BY <1>1, <1>2, <1>4, <1>5, JobUnchanged, AttemptUnchanged DEF JobsStay
  <1>7. NewJobsQueued
    BY <1>1 DEF NewJobsQueued
  <1>8. Len(workerJobs) + 1 \in Nat \ {0}
    BY DEF JobTypes
  <1> QED
    BY <1>1, <1>2, <1>3, <1>6, <1>7, <1>8 DEF ProtocolStep

\* A job's status behind recovery.
LEMMA StatusBehindRecovery ==
    ASSUME NEW j, workerJobs[j] \in StoredJob
    PROVE  /\ StatusAfterRecovery(j) \in JobStatus
           /\ StatusAfterRecovery(j) = "QUEUED" => workerJobs[j].status \notin Terminal
           /\ \/ StatusAfterRecovery(j) = workerJobs[j].status
              \/ /\ workerJobs[j].status \notin Terminal
                 /\ StatusAfterRecovery(j) # "SUCCEEDED"
  <1>1. CASE Due(j)
    <2>1. /\ workerJobs[j].status \notin Terminal
          /\ RecoveredStatus(j) \in {Uncertain, "DEADLINE_EXCEEDED", "QUEUED", "FAILED"}
      BY <1>1, RecoveryStatus
    <2>2. StatusAfterRecovery(j) = RecoveredStatus(j)
      BY <1>1 DEF StatusAfterRecovery
    <2> QED
      BY <2>1, <2>2 DEF JobStatus, Terminal, Uncertain
  <1>2. CASE ~Due(j)
    <2>1. StatusAfterRecovery(j) = workerJobs[j].status
      BY <1>2 DEF StatusAfterRecovery
    <2> QED
      BY <2>1 DEF StoredJob, Terminal
  <1> QED
    BY <1>1, <1>2

\* The walk of a claim over the jobs.
LEMMA ClaimedJobStays ==
    ASSUME JobTypes, NEW capability, NEW invalid, NEW unready, NEW j \in Jobs
    PROVE  JobStays(workerJobs[j], ClaimedJob(j, capability, invalid, unready))
  <1>1. workerJobs[j] \in StoredJob
    BY Elements
  <1>2. CASE j \notin Matching(capability)
    <2>1. ClaimedJob(j, capability, invalid, unready) = workerJobs[j]
      BY <1>2 DEF ClaimedJob
    <2> QED
      BY <1>1, <2>1, JobUnchanged
  <1>3. CASE j \in Matching(capability) /\ j \in Claimed(capability, invalid, unready)
    <2> DEFINE job == [workerJobs[j] EXCEPT !.status = "CLAIMED", !.fence = @ + 1]
    <2>1. ClaimedJob(j, capability, invalid, unready) = job
      BY <1>3 DEF ClaimedJob
    <2>2. StatusAfterRecovery(j) = "QUEUED"
      BY <1>3 DEF Claimed, Claimable
    <2>3. workerJobs[j].status \notin Terminal
      BY <1>1, <2>2, StatusBehindRecovery
    <2>4. "CLAIMED" \in JobStatus /\ "CLAIMED" # "SUCCEEDED"
      BY DEF JobStatus
    <2>5. JobStays(workerJobs[j], job)
      <3>1. PICK fence \in Nat : fence = workerJobs[j].fence + 1
        BY <1>1 DEF StoredJob
      <3>2. job = [workerJobs[j] EXCEPT !.status = "CLAIMED", !.fence = fence]
        BY <3>1
      <3> HIDE DEF job
      <3> QED
        BY <1>1, <2>3, <2>4, <3>2 DEF JobStays, StoredJob
    <2> QED
      BY <2>1, <2>5
  <1>4. CASE j \in Matching(capability) /\ j \notin Claimed(capability, invalid, unready)
    <2> DEFINE status ==
          CASE j \in Examined(capability, invalid, unready) \intersect invalid -> Uncertain
            [] /\ j \in Examined(capability, invalid, unready) \ (invalid \union unready)
               /\ Exhausted(j) -> "FAILED"
            [] OTHER -> StatusAfterRecovery(j)
    <2>1. ClaimedJob(j, capability, invalid, unready) = [workerJobs[j] EXCEPT !.status = status]
      BY <1>4 DEF ClaimedJob
    <2>2. j \in Examined(capability, invalid, unready) => StatusAfterRecovery(j) = "QUEUED"
      BY DEF Examined
    <2>3. \/ status = StatusAfterRecovery(j)
          \/ /\ j \in Examined(capability, invalid, unready)
             /\ status \in {Uncertain, "FAILED"}
      OBVIOUS
    <2> HIDE DEF status
    <2>4. CASE status = StatusAfterRecovery(j)
      <3>1. /\ status \in JobStatus
            /\ \/ status = workerJobs[j].status
               \/ workerJobs[j].status \notin Terminal /\ status # "SUCCEEDED"
        BY <1>1, <2>4, StatusBehindRecovery
      <3> QED
        BY <1>1, <2>1, <3>1, StatusChanges
    <2>5. CASE /\ j \in Examined(capability, invalid, unready)
               /\ status \in {Uncertain, "FAILED"}
      <3>1. workerJobs[j].status \notin Terminal
        BY <1>1, <2>2, <2>5, StatusBehindRecovery
      <3>2. status \in JobStatus /\ status # "SUCCEEDED"
        BY <2>5 DEF JobStatus, Terminal, Uncertain
      <3> QED
        BY <1>1, <2>1, <3>1, <3>2, StatusChanges
    <2> QED
      BY <2>3, <2>4, <2>5
  <1> QED
    BY <1>2, <1>3, <1>4

LEMMA SweptAttemptStays ==
    ASSUME JobTypes, NEW capability, NEW i \in Attempts
    PROVE  AttemptStays(workerAttempts[i], RecoveredAttempt(i, capability))
  <1>1. workerAttempts[i] \in Attempt
    BY Elements
  <1>2. CASE \E j \in Matching(capability) : Due(j) /\ i \in currentWorkerAttempt(j)
    <2>1. PICK j \in Matching(capability) : Due(j) /\ i \in currentWorkerAttempt(j)
      BY <1>2
    <2>2. RecoveredAttempt(i, capability) = [workerAttempts[i] EXCEPT !.status = "EXPIRED"]
      BY <1>2 DEF RecoveredAttempt
    <2>3. workerAttempts[i].job = j
      BY <2>1 DEF currentWorkerAttempt
    <2>4. workerJobs[workerAttempts[i].job].status \notin Terminal
      BY <2>1, <2>3, RecoveryStatus
    <2>5. /\ RecoveredAttempt(i, capability) \in Attempt
          /\ RecoveredAttempt(i, capability).job = workerAttempts[i].job
          /\ RecoveredAttempt(i, capability).fence = workerAttempts[i].fence
      BY <1>1, <2>2, AttemptStatusSet DEF AttemptStatus
    <2> QED
      BY <1>1, <2>4, <2>5, AttemptChanges
  <1>3. CASE ~\E j \in Matching(capability) : Due(j) /\ i \in currentWorkerAttempt(j)
    <2>1. RecoveredAttempt(i, capability) = workerAttempts[i]
      BY <1>3 DEF RecoveredAttempt
    <2> QED
      BY <1>1, <2>1, AttemptUnchanged
  <1> QED
    BY <1>2, <1>3

LEMMA NewAttemptType ==
    ASSUME JobTypes, WorkerAssumption, NEW c \in Jobs, NEW p \in Workers
    PROVE  NewAttempt(c, p) \in Attempt /\ NewAttempt(c, p).job = c
  <1>1. workerJobs[c] \in StoredJob /\ c \in Nat
    BY Elements
  <1>2. workerJobs[c].fence + 1 \in Nat
    BY <1>1 DEF StoredJob
  <1>3. workerJobs[c].deadline \in Nat /\ clock + Lease \in Nat
    <2>1. workerJobs[c].deadline \in Nat
      BY <1>1 DEF StoredJob
    <2>2. clock \in Nat /\ Lease \in Nat
      BY DEF JobTypes, WorkerAssumption
    <2> QED
      BY <2>1, <2>2
  <1>4. LeaseEnd(c) \in Nat
    BY <1>3 DEF LeaseEnd, Earlier
  <1> QED
    BY <1>1, <1>2, <1>4 DEF NewAttempt, Attempt, AttemptStatus

LEMMA ClaimStays ==
    ASSUME JobTypes, WorkerAssumption, NEW p \in Workers, NEW capability, NEW invalid,
           NEW unready, ClaimWorker(p, capability, invalid, unready)
    PROVE  ProtocolStep /\ Jobs' = Jobs
  <1> DEFINE swept == [i \in Attempts |-> RecoveredAttempt(i, capability)]
  <1>1. /\ workerJobs' = [j \in Jobs |-> ClaimedJob(j, capability, invalid, unready)]
        /\ \/ workerAttempts' = swept
           \/ \E c \in Claimed(capability, invalid, unready) :
                workerAttempts' = Append(swept, NewAttempt(c, p))
        /\ clock' = clock /\ clock \in Nat
    BY DEF ClaimWorker, JobTypes
  <1>2. \A j \in Jobs : JobStays(workerJobs[j], workerJobs'[j])
    BY <1>1, ClaimedJobStays
  <1>3. \A i \in Attempts : AttemptStays(workerAttempts[i], swept[i])
    BY SweptAttemptStays
  <1>4. workerJobs' \in [Jobs -> StoredJob]
    BY <1>1, <1>2 DEF JobStays
  <1>5. swept \in [Attempts -> Attempt]
    BY <1>3 DEF AttemptStays
  <1> HIDE DEF swept
  <1>6. CASE workerAttempts' = swept
    BY <1>1, <1>2, <1>3, <1>4, <1>5, <1>6, InPlace
  <1>7. CASE \E c \in Claimed(capability, invalid, unready) :
                workerAttempts' = Append(swept, NewAttempt(c, p))
    <2>1. PICK c \in Claimed(capability, invalid, unready) :
                workerAttempts' = Append(swept, NewAttempt(c, p))
      BY <1>7
    <2>2. c \in Jobs
      BY <2>1 DEF Claimed, Claimable, Matching
    <2>3. NewAttempt(c, p) \in Attempt /\ NewAttempt(c, p).job = c
      BY <2>2, NewAttemptType
    <2>4. swept \in Seq(Attempt) /\ DOMAIN swept = Attempts
      BY <1>5, SeqMap DEF JobTypes, Attempts
    <2>5. /\ workerAttempts' \in Seq(Attempt)
          /\ Attempts' = Attempts \union {Len(swept) + 1}
          /\ \A i \in Attempts : workerAttempts'[i] = swept[i]
          /\ workerAttempts'[Len(swept) + 1] = NewAttempt(c, p)
      BY <2>1, <2>3, <2>4, SeqAppend DEF Attempts
    <2>6. workerJobs' \in Seq(StoredJob) /\ Jobs' = Jobs
      BY <1>4, SeqMap DEF JobTypes, Jobs
    <2>7. \A i \in Attempts : AttemptStays(workerAttempts[i], workerAttempts'[i])
      BY <1>3, <2>5
    <2>8. \A i \in Attempts' : workerAttempts'[i].job \in Jobs
      BY <2>2, <2>3, <2>5, <2>7, Elements DEF AttemptStays
    <2>9. JobTypes'
      BY <1>1, <2>5, <2>6, <2>8 DEF JobTypes
    <2> QED
      BY <1>2, <2>5, <2>6, <2>7, <2>9 DEF ProtocolStep, JobsStay, NewJobsQueued
  <1> QED
    BY <1>1, <1>6, <1>7

\* A restore, which leaves terminal jobs and their attempts as they are.
LEMMA RestoreStays ==
    ASSUME JobTypes, RestoreBackup
    PROVE  ProtocolStep /\ Jobs' = Jobs /\ Attempts' = Attempts
  <1>1. /\ workerJobs' = [j \in Jobs |-> RestoredJob(j)]
        /\ workerAttempts' = [i \in Attempts |->
              IF \E j \in Live : i \in currentWorkerAttempt(j)
              THEN [workerAttempts[i] EXCEPT !.status = Uncertain, !.leaseUntil = clock]
              ELSE workerAttempts[i]]
        /\ clock' = clock /\ clock \in Nat
    BY DEF RestoreBackup, JobTypes
  <1>2. ASSUME NEW j \in Jobs
        PROVE  JobStays(workerJobs[j], workerJobs'[j])
    <2>1. workerJobs[j] \in StoredJob /\ workerJobs'[j] = RestoredJob(j)
      BY <1>1, Elements
    <2>2. CASE j \in Live
      <3>1. /\ workerJobs[j].status \notin Terminal
            /\ workerJobs'[j] = [workerJobs[j] EXCEPT !.status = Uncertain,
                                                      !.cancellationRequested = TRUE]
        BY <2>1, <2>2 DEF RestoredJob, Live
      <3>2. Uncertain \in JobStatus \ {"SUCCEEDED"}
        BY DEF JobStatus, Uncertain
      <3> QED
        BY <2>1, <3>1, <3>2, StatusCancelled
    <2>3. CASE j \notin Live
      BY <2>1, <2>3, JobUnchanged DEF RestoredJob
    <2> QED
      BY <2>2, <2>3
  <1>3. ASSUME NEW i \in Attempts
        PROVE  AttemptStays(workerAttempts[i], workerAttempts'[i])
    <2>1. workerAttempts[i] \in Attempt
      BY Elements
    <2>2. CASE \E j \in Live : i \in currentWorkerAttempt(j)
      <3>1. PICK j \in Live : i \in currentWorkerAttempt(j)
        BY <2>2
      <3>2. workerJobs[workerAttempts[i].job].status \notin Terminal
        BY <3>1 DEF Live, currentWorkerAttempt
      <3>3. workerAttempts'[i] =
              [workerAttempts[i] EXCEPT !.status = Uncertain, !.leaseUntil = clock]
        BY <1>1, <2>2
      <3>4. /\ workerAttempts'[i] \in Attempt
            /\ workerAttempts'[i].job = workerAttempts[i].job
            /\ workerAttempts'[i].fence = workerAttempts[i].fence
        BY <1>1, <2>1, <3>3 DEF Attempt, AttemptStatus, Uncertain
      <3> QED
        BY <2>1, <3>2, <3>4, AttemptChanges
    <2>3. CASE ~\E j \in Live : i \in currentWorkerAttempt(j)
      BY <1>1, <2>1, <2>3, AttemptUnchanged
    <2> QED
      BY <2>2, <2>3
  <1>4. workerJobs' \in [Jobs -> StoredJob] /\ workerAttempts' \in [Attempts -> Attempt]
    BY <1>1, <1>2, <1>3 DEF JobStays, AttemptStays
  <1> QED
    BY <1>1, <1>2, <1>3, <1>4, InPlace

\* The stop of a delivery, which ends the linked jobs that are not terminal.
LEMMA StopStays ==
    ASSUME JobTypes, NEW d, NEW status, stopNativeDelivery(d, status)
    PROVE  ProtocolStep /\ Jobs' = Jobs /\ Attempts' = Attempts
  <1> DEFINE stopped == [j \in Jobs |->
            IF j \notin ToStop(d) THEN workerJobs[j]
            ELSE [workerJobs[j] EXCEPT
                    !.status = IF @ \in {"RUNNING", Uncertain} THEN Uncertain ELSE "CANCELLED",
                    !.cancellationRequested = TRUE]]
  <1>1. /\ workerJobs' = stopped
        /\ workerAttempts' = [i \in Attempts |->
              IF \E j \in ToStop(d) : i \in currentWorkerAttempt(j)
              THEN [workerAttempts[i] EXCEPT !.status = stopped[workerAttempts[i].job].status]
              ELSE workerAttempts[i]]
        /\ clock' = clock /\ clock \in Nat
    BY DEF stopNativeDelivery, JobTypes
  <1>2. ASSUME NEW j \in Jobs
        PROVE  /\ JobStays(workerJobs[j], stopped[j])
               /\ j \in ToStop(d) => stopped[j].status \in {Uncertain, "CANCELLED"}
    <2>1. workerJobs[j] \in StoredJob
      BY Elements
    <2>2. CASE j \in ToStop(d)
      <3> DEFINE end == IF workerJobs[j].status \in {"RUNNING", Uncertain} THEN Uncertain
                        ELSE "CANCELLED"
      <3>1. stopped[j] = [workerJobs[j] EXCEPT !.status = end, !.cancellationRequested = TRUE]
        BY <2>2
      <3>2. workerJobs[j].status \notin Terminal
        BY <2>2 DEF ToStop
      <3>3. end \in {Uncertain, "CANCELLED"}
        OBVIOUS
      <3>4. end \in JobStatus \ {"SUCCEEDED"}
        BY <3>3 DEF JobStatus, Terminal, Uncertain
      <3>5. JobStays(workerJobs[j], stopped[j])
        BY <2>1, <3>1, <3>2, <3>4, StatusCancelled
      <3> HIDE DEF end, stopped
      <3>6. stopped[j].status = end
        BY <2>1, <3>1 DEF StoredJob
      <3> QED
        BY <3>3, <3>5, <3>6
    <2>3. CASE j \notin ToStop(d)
      <3>1. stopped[j] = workerJobs[j]
        BY <2>3
      <3> QED
        BY <2>1, <2>3, <3>1, JobUnchanged
    <2> QED
      BY <2>2, <2>3
  <1>3. stopped \in [Jobs -> StoredJob]
    BY <1>2 DEF JobStays
  <1> HIDE DEF stopped
  <1>4. ASSUME NEW i \in Attempts
        PROVE  AttemptStays(workerAttempts[i], workerAttempts'[i])
    <2>1. workerAttempts[i] \in Attempt /\ workerAttempts[i].job \in Jobs
      BY Elements
    <2>2. CASE \E j \in ToStop(d) : i \in currentWorkerAttempt(j)
      <3>1. PICK j \in ToStop(d) : i \in currentWorkerAttempt(j)
        BY <2>2
      <3>2. workerAttempts[i].job = j /\ workerJobs[j].status \notin Terminal
        BY <3>1 DEF ToStop, currentWorkerAttempt
      <3>3. stopped[j].status \in AttemptStatus
        BY <1>2, <2>1, <3>1, <3>2 DEF AttemptStatus, Uncertain
      <3>4. workerAttempts'[i] = [workerAttempts[i] EXCEPT !.status = stopped[j].status]
        BY <1>1, <2>2, <3>2
      <3>5. /\ workerAttempts'[i] \in Attempt
            /\ workerAttempts'[i].job = workerAttempts[i].job
            /\ workerAttempts'[i].fence = workerAttempts[i].fence
        BY <2>1, <3>3, <3>4, AttemptStatusSet
      <3> QED
        BY <2>1, <3>2, <3>5, AttemptChanges
    <2>3. CASE ~\E j \in ToStop(d) : i \in currentWorkerAttempt(j)
      BY <1>1, <2>1, <2>3, AttemptUnchanged
    <2> QED
      BY <2>2, <2>3
  <1>5. workerAttempts' \in [Attempts -> Attempt]
    BY <1>1, <1>4 DEF AttemptStays
  <1> QED
    BY <1>1, <1>2, <1>3, <1>4, <1>5, InPlace

\* Every step of the worker protocol under the fence.
LEMMA WorkerStepStays ==
    ASSUME JobTypes, WorkerAssumption, WorkerStep
    PROVE  ProtocolStep /\ Jobs' = Jobs
  <1>1. ASSUME NEW capability \in Capabilities, ClaimFenced(capability)
        PROVE  ProtocolStep /\ Jobs' = Jobs
    BY <1>1, ClaimStays DEF ClaimFenced
  <1>2. ASSUME NEW j \in Jobs, NEW outcome \in {"FAILED", "CANCELLED"},
               reconcile_worker_job(j, outcome)
        PROVE  ProtocolStep /\ Jobs' = Jobs
    BY <1>2, ReconcileStays
  <1>3. ASSUME NEW j \in Jobs, cancel_worker_job(j)
        PROVE  ProtocolStep /\ Jobs' = Jobs
    BY <1>3, CancelStays
  <1>4. ASSUME NEW j \in Jobs, recoverWorker(j)
        PROVE  ProtocolStep /\ Jobs' = Jobs
    BY <1>4, RecoverStays
  <1>5. ASSUME NEW i \in Attempts, StartWorker(i)
        PROVE  ProtocolStep /\ Jobs' = Jobs
    BY <1>5, StartStays
  <1>6. ASSUME NEW i \in Attempts, HeartbeatWorker(i)
        PROVE  ProtocolStep /\ Jobs' = Jobs
    BY <1>6, HeartbeatStays
  <1>7. ASSUME NEW i \in Attempts, NEW result \in Results, ReportFenced(i, result)
        PROVE  ProtocolStep /\ Jobs' = Jobs
    BY <1>7, ReportStays
  <1> QED
    BY <1>1, <1>2, <1>3, <1>4, <1>5, <1>6, <1>7 DEF WorkerStep

LEMMA ClockStays ==
    ASSUME JobTypes, Tick
    PROVE  ProtocolStep /\ Jobs' = Jobs /\ Attempts' = Attempts
  <1>1. UNCHANGED <<workerJobs, workerAttempts>> /\ clock' \in Nat
    BY DEF Tick, JobTypes
  <1> QED
    BY <1>1, ProtocolAlone

-----------------------------------------------------------------------------
(***************************************************************************)
(* What the deliveries and the artifacts rest on                           *)
(***************************************************************************)

\* A link of a delivery is set once; so is the receipt of a publication.
LinksKept ==
    \A d \in Requested :
        /\ d \in Requested'
        /\ deliveries[d].build # 0 => deliveries'[d].build = deliveries[d].build
        /\ deliveries[d].publication # 0 =>
              deliveries'[d].publication = deliveries[d].publication

ReceiptsKept == \A j \in Jobs : receipts'[j] = receipts[j]

\* A job that is queued for a delivery finds it requested.
OwnersRequested == \A j \in Jobs' : j \notin Jobs /\ Managed(j)' => Owner(j)' \in Requested

\* A Tick ends, or keeps its delivery and its copy.
TickStays(s) ==
    \/ ticking'[s] = NotTicking
    \/ /\ ticking[s] # NotTicking /\ ticking'[s] # NotTicking
       /\ ticking'[s].delivery = ticking[s].delivery
       /\ ticking'[s].copy = ticking[s].copy

\* What is over stays as it is, for a publication that is admitted as well.
FinalStays ==
    /\ \A j \in Jobs :
          /\ j \in Jobs' /\ workerJobs'[j].key = workerJobs[j].key
          /\ workerJobs[j].status \in Terminal => workerJobs'[j] = workerJobs[j]
    /\ \A i \in Attempts :
          /\ i \in Attempts'
          /\ workerJobs[workerAttempts[i].job].status \in Terminal =>
                workerAttempts'[i] = workerAttempts[i]

LEMMA ProtocolStepIsFinal ==
    ASSUME ProtocolStep
    PROVE  FinalStays
  BY DEF ProtocolStep, JobsStay, JobStays, AttemptStays, FinalStays

\* A publication stays linked to its delivery.
LEMMA LinkedStays ==
    ASSUME LinksOK, FinalStays, LinksKept, NEW j \in Jobs, Managed(j) => j \in Linked(Owner(j))
    PROVE  (Managed(j) => j \in Linked(Owner(j)))'
  <1>1. Owner(j)' = Owner(j)
    BY DEF FinalStays, Owner
  <1> SUFFICES ASSUME Managed(j)
               PROVE  (j \in Linked(Owner(j)))'
    BY <1>1 DEF Managed
  <1>2. Owner(j) \in Requested
    BY DEF LinksOK
  <1>3. /\ deliveries[Owner(j)].build # 0 =>
              deliveries'[Owner(j)].build = deliveries[Owner(j)].build
        /\ deliveries[Owner(j)].publication # 0 =>
              deliveries'[Owner(j)].publication = deliveries[Owner(j)].publication
    BY <1>2 DEF LinksKept
  <1> QED
    BY <1>1, <1>3 DEF Linked

\* The build's evidence stays: its job and its attempt are terminal.
LEMMA ProvenanceStays ==
    ASSUME JobTypes, LinksOK, FinalStays, LinksKept, NEW j \in Jobs,
           receipts'[j] = receipts[j], BuildProvenance(j)
    PROVE  BuildProvenance(j)'
  <1> DEFINE r == receipts[j]
             b == workerAttempts[r].job
  <1>1. /\ r \in Attempts /\ workerJobs[b].status = "SUCCEEDED"
        /\ workerAttempts[r].status = "SUCCEEDED" /\ workerAttempts[r].report = "PASSED"
        /\ nativeWorkerOrigin(b)
    BY DEF BuildProvenance
  <1>2. b \in Jobs
    BY <1>1 DEF JobTypes
  <1>3. "SUCCEEDED" \in Terminal
    BY DEF Terminal
  <1>4. b \in Jobs' /\ workerJobs'[b] = workerJobs[b]
    BY <1>1, <1>2, <1>3 DEF FinalStays
  <1>5. r \in Attempts' /\ workerAttempts'[r] = workerAttempts[r]
    BY <1>1, <1>3 DEF FinalStays
  <1>6. PICK k \in Jobs : k = b
    BY <1>2
  <1>7. (Managed(k) => k \in Linked(Owner(k)))'
    BY <1>1, <1>6, LinkedStays DEF nativeWorkerOrigin
  <1>8. nativeWorkerOrigin(workerAttempts[receipts[j]].job)'
    BY <1>5, <1>6, <1>7 DEF nativeWorkerOrigin, Managed, Owner, Linked
  <1> QED
    BY <1>1, <1>4, <1>5, <1>8 DEF BuildProvenance

\* An artifact stays valid: its job is terminal, so that neither the job nor the
\* attempt it was admitted for changes.
LEMMA ArtifactStays ==
    ASSUME JobTypes, LinksOK, FinalStays, ReceiptsKept, LinksKept, registry \subseteq registry',
           NEW n \in DOMAIN artifacts, ArtifactOK(n), artifacts'[n] = artifacts[n]
    PROVE  ArtifactOK(n)'
  <1> DEFINE a == artifacts[n]
  <1>1. /\ a.job \in Jobs /\ a.attempt \in Attempts /\ publicationEvidence(n)
        /\ ~workerJobs[a.job].cancellationRequested /\ BuildProvenance(a.job)
        /\ a.digest \in registry
    BY DEF ArtifactOK
  <1>2. /\ workerJobs[a.job].status = "SUCCEEDED" /\ workerJobs[a.job].capability = Publish
        /\ workerAttempts[a.attempt].job = a.job
        /\ workerAttempts[a.attempt].fence = workerJobs[a.job].fence
        /\ a.digest = receipts[a.job]
        /\ nativeWorkerOrigin(a.job)
        /\ IF a.reconciled THEN /\ workerAttempts[a.attempt].status = "EXPIRED"
                                /\ workerAttempts[a.attempt].report = None
           ELSE /\ workerAttempts[a.attempt].status = "SUCCEEDED"
                /\ workerAttempts[a.attempt].report = "PASSED"
    BY <1>1 DEF publicationEvidence
  <1>3. "SUCCEEDED" \in Terminal
    BY DEF Terminal
  <1>4. a.job \in Jobs' /\ workerJobs'[a.job] = workerJobs[a.job]
    BY <1>1, <1>2, <1>3 DEF FinalStays
  <1>5. a.attempt \in Attempts' /\ workerAttempts'[a.attempt] = workerAttempts[a.attempt]
    BY <1>1, <1>2, <1>3 DEF FinalStays
  <1>7. receipts'[a.job] = receipts[a.job]
    BY <1>1 DEF ReceiptsKept
  <1>6. nativeWorkerOrigin(a.job)' /\ BuildProvenance(artifacts[n].job)'
    <2>1. PICK j \in Jobs : j = a.job
      BY <1>1
    <2>2. (Managed(j) => j \in Linked(Owner(j)))'
      BY <1>2, <2>1, LinkedStays DEF nativeWorkerOrigin
    <2>3. artifacts'[n].job = j
      BY <2>1
    <2>4. BuildProvenance(j)'
      BY <1>1, <1>7, <2>1, ProvenanceStays
    <2>5. nativeWorkerOrigin(a.job)'
      BY <2>2, <2>3 DEF nativeWorkerOrigin, Managed, Owner, Linked
    <2>6. BuildProvenance(artifacts[n].job)'
      BY <2>3, <2>4 DEF BuildProvenance
    <2> QED
      BY <2>5, <2>6
  <1>8. a.digest \in registry'
    BY <1>1
  <1>9. publicationEvidence(n)'
    BY <1>2, <1>4, <1>5, <1>6, <1>7 DEF publicationEvidence
  <1> QED
    BY <1>1, <1>4, <1>5, <1>6, <1>8, <1>9 DEF ArtifactOK

LEMMA AdmissionsStay ==
    ASSUME NativeInv, ProtocolStep, ReceiptsKept, LinksKept, registry \subseteq registry',
           artifacts' = artifacts
    PROVE  AdmissionsOK'
  <1>1. \A n \in DOMAIN artifacts : ArtifactOK(n)'
    BY ArtifactStays, ProtocolStepIsFinal DEF NativeInv, AdmissionsOK
  <1>2. \A n \in DOMAIN artifacts : artifacts[n].job \in Jobs
    BY DEF NativeInv, AdmissionsOK, ArtifactOK
  <1>3. \A j : ArtifactsOf(j)' = ArtifactsOf(j)
    BY DEF ArtifactsOf
  <1>4. ASSUME NEW j \in Jobs'
        PROVE  OneArtifact(j)'
    <2>1. CASE j \in Jobs
      <3>1. JobStays(workerJobs[j], workerJobs'[j]) /\ OneArtifact(j)
        BY <2>1 DEF ProtocolStep, JobsStay, NativeInv, AdmissionsOK
      <3>2. workerJobs'[j].capability = workerJobs[j].capability
        BY <3>1 DEF JobStays
      <3>3. CASE workerJobs[j].status = "SUCCEEDED"
        <4>1. workerJobs'[j].status = "SUCCEEDED"
          BY <3>1, <3>3 DEF JobStays, Terminal
        <4> QED
          BY <1>3, <3>1, <3>2, <3>3, <4>1 DEF OneArtifact
      <3>4. CASE workerJobs[j].status # "SUCCEEDED"
        <4>1. workerJobs'[j].capability = Publish => workerJobs'[j].status # "SUCCEEDED"
          BY <3>1, <3>4 DEF JobStays
        <4> QED
          BY <1>3, <3>1, <3>2, <3>4, <4>1 DEF OneArtifact
      <3> QED
        BY <3>3, <3>4
    <2>2. CASE j \notin Jobs
      <3>1. workerJobs'[j].status # "SUCCEEDED"
        BY <2>2 DEF ProtocolStep, NewJobsQueued
      <3>2. ArtifactsOf(j)' = {}
        BY <1>2, <1>3, <2>2 DEF ArtifactsOf
      <3> QED
        BY <3>1, <3>2 DEF OneArtifact
    <2> QED
      BY <2>1, <2>2
  <1> QED
    BY <1>1, <1>4 DEF AdmissionsOK

\* Calls that go on, or end.
LEMMA CallStays ==
    ASSUME NativeInv, ProtocolStep, ReceiptsKept, registry \subseteq registry',
           NEW call \in calls
    PROVE  /\ call.attempt \in Attempts'
           /\ call.read => receipts'[workerAttempts'[call.attempt].job] \in registry'
  <1>1. /\ call.attempt \in Attempts
        /\ call.read => receipts[workerAttempts[call.attempt].job] \in registry
        /\ workerAttempts[call.attempt].job \in Jobs
    BY DEF NativeInv, CallsOK, JobTypes
  <1>2. /\ call.attempt \in Attempts'
        /\ workerAttempts'[call.attempt].job = workerAttempts[call.attempt].job
    BY <1>1 DEF ProtocolStep, JobsStay, AttemptStays
  <1> QED
    BY <1>1, <1>2 DEF ReceiptsKept

LEMMA CallsStay ==
    ASSUME NativeInv, ProtocolStep, ReceiptsKept, registry \subseteq registry',
           calls' \subseteq calls
    PROVE  CallsOK'
  BY CallStays DEF CallsOK

\* The deliveries stay what they are.
LEMMA DeliveriesAlone ==
    ASSUME NativeInv, ProtocolStep, OwnersRequested, deliveries' = deliveries,
           ticking' \in [Processes -> DeliveryTick], \A s \in Processes : TickStays(s)
    PROVE  DeliveryTypes' /\ LinksOK' /\ CopiesOK' /\ LinksKept
  <1>1. Requested' = Requested
    BY DEF Requested
  <1>2. LinksKept
    BY <1>1 DEF LinksKept
  <1>3. DeliveryTypes'
    <2>1. \A s \in Processes : ticking'[s] # NotTicking =>
             ticking'[s].delivery \in Requested /\ ticking'[s].copy.owner = s
      BY DEF NativeInv, DeliveryTypes, TickStays
    <2> QED
      BY <1>1, <2>1 DEF NativeInv, DeliveryTypes
  <1>4. CopiesOK'
    BY DEF NativeInv, CopiesOK, CopyOK, OwnerKept, TickStays
  <1>5. LinksOK'
    <2>1. \A j \in Jobs : /\ j \in Jobs' /\ workerJobs'[j].key = workerJobs[j].key
                          /\ workerJobs'[j].capability = workerJobs[j].capability
      BY DEF ProtocolStep, JobsStay, JobStays
    <2>2. \A d \in Requested :
             /\ deliveries[d].build # 0 => deliveries[d].build \in Jobs'
             /\ deliveries[d].publication # 0 =>
                   /\ deliveries[d].publication \in Jobs'
                   /\ workerJobs'[deliveries[d].publication].capability = Publish
      BY <2>1 DEF NativeInv, LinksOK
    <2>3. \A j \in Jobs' : Managed(j)' => Owner(j)' \in Requested
      BY <2>1 DEF NativeInv, LinksOK, Managed, Owner, OwnersRequested
    <2> QED
      BY <1>1, <2>2, <2>3 DEF LinksOK
  <1> QED
    BY <1>2, <1>3, <1>4, <1>5

\* A delivery r in the place of d keeps the links or sets them the first time.
LinksSet(d, r) ==
    /\ \/ r.build = deliveries[d].build
       \/ deliveries[d].build = 0 /\ r.build \in Jobs'
    /\ \/ r.publication = deliveries[d].publication
       \/ /\ deliveries[d].publication = 0 /\ r.publication \in Jobs'
          /\ workerJobs'[r.publication].capability = Publish

\* Whoever owns r after that has a copy with its links.
TickAfterStore(s, d, r) ==
    \/ /\ TickStays(s)
       /\ ticking'[s] # NotTicking /\ ticking[s].delivery = d /\ r.owner = s =>
             /\ deliveries[d].owner = s
             /\ r.build = deliveries[d].build
             /\ r.publication = deliveries[d].publication
    \/ /\ ticking'[s].delivery = d /\ ticking'[s].copy.owner = s
       /\ ticking'[s].copy.build = r.build
       /\ ticking'[s].copy.publication = r.publication

\* One delivery is stored: its links are kept, or set for the first time, and no
\* Tick but the one that stores it gets to own it.
LEMMA DeliveryStored ==
    ASSUME NativeInv, ProtocolStep, OwnersRequested, NEW d \in Requested, NEW r \in Delivery,
           deliveries' = [deliveries EXCEPT ![d] = r], LinksSet(d, r),
           ticking' \in [Processes -> DeliveryTick],
           \A s \in Processes : TickAfterStore(s, d, r)
    PROVE  DeliveryTypes' /\ LinksOK' /\ CopiesOK' /\ LinksKept
  <1>1. /\ Requested' = Requested
        /\ \A e \in Requested : deliveries'[e] = IF e = d THEN r ELSE deliveries[e]
        /\ deliveries' \in [Requested -> Delivery]
    BY DEF Requested, NativeInv, DeliveryTypes
  <1>2. LinksKept
    BY <1>1 DEF LinksKept, LinksSet
  <1>3. \A s \in Processes : ticking'[s] # NotTicking =>
           ticking'[s].delivery \in Requested /\ ticking'[s].copy.owner = s
    BY DEF NativeInv, DeliveryTypes, TickStays, TickAfterStore
  <1>4. DeliveryTypes'
    BY <1>1, <1>3 DEF NativeInv, DeliveryTypes
  <1>5. ASSUME NEW s \in Processes, ticking'[s] # NotTicking, OwnerKept(s)'
        PROVE  /\ ticking'[s].copy.build = deliveries'[ticking'[s].delivery].build
               /\ ticking'[s].copy.publication = deliveries'[ticking'[s].delivery].publication
    <2>1. deliveries'[ticking'[s].delivery].owner = s
      BY <1>5 DEF OwnerKept
    <2>2. CASE TickStays(s) /\ ticking[s].delivery # d
      <3>1. /\ ticking[s] # NotTicking /\ ticking'[s].delivery = ticking[s].delivery
            /\ ticking'[s].copy = ticking[s].copy
        BY <1>5, <2>2 DEF TickStays
      <3>2. ticking[s].delivery \in Requested
        BY <3>1 DEF NativeInv, DeliveryTypes
      <3>3. deliveries'[ticking'[s].delivery] = deliveries[ticking[s].delivery]
        BY <1>1, <2>2, <3>1, <3>2
      <3>4. OwnerKept(s)
        BY <2>1, <3>3 DEF OwnerKept
      <3> QED
        BY <3>1, <3>3, <3>4 DEF NativeInv, CopiesOK, CopyOK
    <2>3. CASE /\ TickStays(s) /\ ticking[s].delivery = d
               /\ (r.owner = s => /\ deliveries[d].owner = s
                                  /\ r.build = deliveries[d].build
                                  /\ r.publication = deliveries[d].publication)
      <3>1. /\ ticking[s] # NotTicking /\ ticking'[s].delivery = d
            /\ ticking'[s].copy = ticking[s].copy
        BY <1>5, <2>3 DEF TickStays
      <3>2. deliveries'[ticking'[s].delivery] = r
        BY <1>1, <3>1
      <3>3. OwnerKept(s)
        BY <2>1, <2>3, <3>2 DEF OwnerKept
      <3>4. /\ ticking[s].copy.build = deliveries[d].build
            /\ ticking[s].copy.publication = deliveries[d].publication
        BY <2>3, <3>1, <3>3 DEF NativeInv, CopiesOK, CopyOK
      <3> QED
        BY <2>1, <2>3, <3>1, <3>2, <3>4
    <2>4. CASE /\ ticking'[s].delivery = d
               /\ ticking'[s].copy.build = r.build
               /\ ticking'[s].copy.publication = r.publication
      BY <1>1, <2>4
    <2> QED
      BY <1>5, <2>2, <2>3, <2>4 DEF TickAfterStore
  <1>6. CopiesOK'
    BY <1>5 DEF CopiesOK, CopyOK
  <1>7. LinksOK'
    <2>1. \A j \in Jobs : /\ j \in Jobs' /\ workerJobs'[j].key = workerJobs[j].key
                          /\ workerJobs'[j].capability = workerJobs[j].capability
      BY DEF ProtocolStep, JobsStay, JobStays
    <2>2. \A e \in Requested :
             /\ deliveries[e].build # 0 => deliveries[e].build \in Jobs'
             /\ deliveries[e].publication # 0 =>
                   /\ deliveries[e].publication \in Jobs'
                   /\ workerJobs'[deliveries[e].publication].capability = Publish
      BY <2>1 DEF NativeInv, LinksOK
    <2>3. \A e \in Requested :
             /\ deliveries'[e].build # 0 => deliveries'[e].build \in Jobs'
             /\ deliveries'[e].publication # 0 =>
                   /\ deliveries'[e].publication \in Jobs'
                   /\ workerJobs'[deliveries'[e].publication].capability = Publish
      BY <1>1, <2>2 DEF LinksSet
    <2>4. \A j \in Jobs' : Managed(j)' => Owner(j)' \in Requested
      BY <2>1 DEF NativeInv, LinksOK, Managed, Owner, OwnersRequested
    <2> QED
      BY <1>1, <2>3, <2>4 DEF LinksOK
  <1> QED
    BY <1>2, <1>4, <1>6, <1>7

-----------------------------------------------------------------------------
(***************************************************************************)
(* Steps                                                                   *)
(***************************************************************************)

LEMMA SameJobs ==
    ASSUME NativeInv, ProtocolStep, Jobs' = Jobs
    PROVE  OwnersRequested /\ Len(workerJobs') = Len(workerJobs)
  <1>1. OwnersRequested
    BY DEF OwnersRequested
  <1>2. workerJobs \in Seq(StoredJob) /\ workerJobs' \in Seq(StoredJob)
    BY DEF NativeInv, ProtocolStep, JobTypes
  <1>3. 1..Len(workerJobs) = 1..Len(workerJobs')
    BY <1>2 DEF Jobs
  <1>4. Len(workerJobs) \in Nat /\ Len(workerJobs') \in Nat
    BY <1>2
  <1>5. Len(workerJobs) = Len(workerJobs')
    BY <1>3, <1>4
  <1> QED
    BY <1>1, <1>5

\* A step that queues no job and admits nothing.
LEMMA InPlaceKeeps ==
    ASSUME NativeInv, ProtocolStep, Jobs' = Jobs, UNCHANGED <<receipts, artifacts>>,
           registry \subseteq registry', calls' \subseteq calls,
           DeliveryTypes', LinksOK', CopiesOK', LinksKept
    PROVE  NativeInv'
  <1>1. ReceiptsKept
    BY DEF ReceiptsKept
  <1>2. StoreTypes'
    BY SameJobs DEF NativeInv, StoreTypes
  <1>3. AdmissionsOK'
    BY <1>1, AdmissionsStay
  <1>4. CallsOK'
    BY <1>1, CallsStay
  <1> QED
    BY <1>2, <1>3, <1>4 DEF NativeInv, ProtocolStep

\* A step of the worker protocol.
LEMMA ProtocolStepKeeps ==
    ASSUME NativeInv, ProtocolStep, Jobs' = Jobs, UNCHANGED ownVars
    PROVE  NativeInv'
  <1>1. UNCHANGED <<deliveries, receipts, artifacts, calls, ticking, registry>>
    BY DEF ownVars
  <1>2. ticking' \in [Processes -> DeliveryTick] /\ \A s \in Processes : TickStays(s)
    BY <1>1 DEF NativeInv, DeliveryTypes, TickStays
  <1>3. DeliveryTypes' /\ LinksOK' /\ CopiesOK' /\ LinksKept
    BY <1>1, <1>2, SameJobs, DeliveriesAlone
  <1> QED
    BY <1>1, <1>3, InPlaceKeeps

\* A step that leaves the protocol alone.
LEMMA NoProtocolStep ==
    ASSUME NativeInv, UNCHANGED protocolVars
    PROVE  ProtocolStep /\ Jobs' = Jobs /\ Attempts' = Attempts
  <1>1. JobTypes /\ UNCHANGED <<workerJobs, workerAttempts, clock>> /\ clock \in Nat
    BY DEF NativeInv, JobTypes, protocolVars
  <1> QED
    BY <1>1, ProtocolAlone

\* The request of a delivery.
LEMMA DeployKeeps ==
    ASSUME NativeInv, WorkerAssumption, NEW d \in Deliveries, deploy_integration(d)
    PROVE  NativeInv'
  <1> DEFINE r == [status |-> "PENDING", phase |-> "PREFLIGHT", owner |-> None,
                   leased |-> FALSE, deadline |-> clock + Hour,
                   build |-> 0, publication |-> 0, artifact |-> 0]
  <1>1. /\ d \notin Requested
        /\ deliveries' = [e \in Requested \union {d} |-> IF e # d THEN deliveries[e] ELSE r]
        /\ UNCHANGED protocolVars /\ UNCHANGED <<receipts, artifacts, calls, registry, ticking>>
    BY DEF deploy_integration, callVars, tickVars
  <1>2. ProtocolStep /\ Jobs' = Jobs
    BY <1>1, NoProtocolStep
  <1>3. clock + Hour \in Nat
    BY DEF NativeInv, JobTypes, WorkerAssumption
  <1>4. r \in Delivery
    BY <1>3 DEF Delivery, Phases
  <1> HIDE DEF r
  <1>5. Requested' = Requested \union {d}
    BY <1>1 DEF Requested
  <1>6. \A e \in Requested : deliveries'[e] = deliveries[e]
    BY <1>1
  <1>7. deliveries'[d] = r /\ r.build = 0 /\ r.publication = 0
    BY <1>1 DEF r
  <1>8. LinksKept
    BY <1>5, <1>6 DEF LinksKept
  <1>9. DeliveryTypes'
    <2>1. deliveries' \in [Requested' -> Delivery]
      BY <1>1, <1>4, <1>5 DEF NativeInv, DeliveryTypes
    <2> QED
      BY <1>1, <1>5, <2>1 DEF NativeInv, DeliveryTypes
  <1>10. LinksOK'
    <2>1. \A j \in Jobs : workerJobs'[j] = workerJobs[j]
      BY <1>1 DEF protocolVars
    <2>2. \A j \in Jobs : Managed(j)' = Managed(j) /\ Owner(j)' = Owner(j)
      BY <2>1 DEF Managed, Owner
    <2>3. \A e \in Requested' :
             /\ deliveries'[e].build # 0 => deliveries'[e].build \in Jobs
             /\ deliveries'[e].publication # 0 =>
                   /\ deliveries'[e].publication \in Jobs
                   /\ workerJobs'[deliveries'[e].publication].capability = Publish
      BY <1>5, <1>6, <1>7, <2>1 DEF NativeInv, LinksOK
    <2>4. \A j \in Jobs' : Managed(j)' => Owner(j)' \in Requested'
      BY <1>2, <1>5, <2>2 DEF NativeInv, LinksOK
    <2> QED
      BY <1>2, <2>3, <2>4 DEF LinksOK
  <1>11. CopiesOK'
    <2>1. \A s \in Processes : ticking[s] # NotTicking => ticking[s].delivery \in Requested
      BY DEF NativeInv, DeliveryTypes
    <2> QED
      BY <1>1, <1>6, <2>1 DEF NativeInv, CopiesOK, CopyOK, OwnerKept
  <1> QED
    BY <1>1, <1>2, <1>8, <1>9, <1>10, <1>11, InPlaceKeeps

\* A job is queued, with its receipt.
LEMMA QueuedKeeps ==
    ASSUME NativeInv, NEW job \in StoredJob, job.status = "QUEUED", NEW receipt \in Nat,
           workerJobs' = Append(workerJobs, job), UNCHANGED <<workerAttempts, clock>>,
           receipts' = Append(receipts, receipt), UNCHANGED <<artifacts, calls, registry>>,
           DeliveryTypes', LinksOK', CopiesOK', LinksKept
    PROVE  NativeInv'
  <1>1. /\ ProtocolStep /\ Jobs' = Jobs \union {Len(workerJobs) + 1}
    BY AppendStays DEF NativeInv
  <1>2. /\ receipts' \in Seq(Nat) /\ Len(receipts') = Len(receipts) + 1
        /\ \A i \in DOMAIN receipts : receipts'[i] = receipts[i]
    BY SeqAppend DEF NativeInv, StoreTypes
  <1>3. DOMAIN receipts = Jobs
    BY DEF NativeInv, StoreTypes, JobTypes, Jobs
  <1>4. ReceiptsKept
    BY <1>2, <1>3 DEF ReceiptsKept
  <1>5. Len(workerJobs') = Len(workerJobs) + 1
    BY SeqAppend DEF NativeInv, JobTypes
  <1>6. StoreTypes'
    BY <1>2, <1>5 DEF NativeInv, StoreTypes
  <1>7. AdmissionsOK'
    BY <1>1, <1>4, AdmissionsStay
  <1>8. CallsOK'
    BY <1>1, <1>4, CallsStay
  <1> QED
    BY <1>1, <1>6, <1>7, <1>8 DEF NativeInv, ProtocolStep

\* A standalone job is queued.
LEMMA StandaloneKeeps ==
    ASSUME NativeInv, NEW job \in StoredJob, job.status = "QUEUED", NEW receipt \in Nat,
           job.key[1] \notin Deliveries,
           workerJobs' = Append(workerJobs, job), UNCHANGED <<workerAttempts, clock>>,
           receipts' = Append(receipts, receipt),
           UNCHANGED <<deliveries, artifacts, calls, registry, ticking>>
    PROVE  NativeInv'
  <1>1. /\ ProtocolStep
        /\ Jobs' = Jobs \union {Len(workerJobs) + 1}
        /\ workerJobs'[Len(workerJobs) + 1] = job
    BY AppendStays DEF NativeInv
  <1>2. OwnersRequested
    BY <1>1 DEF OwnersRequested, Managed, Owner
  <1>3. ticking' \in [Processes -> DeliveryTick] /\ \A s \in Processes : TickStays(s)
    BY DEF NativeInv, DeliveryTypes, TickStays
  <1>4. DeliveryTypes' /\ LinksOK' /\ CopiesOK' /\ LinksKept
    BY <1>1, <1>2, <1>3, DeliveriesAlone
  <1> QED
    BY <1>4, QueuedKeeps

LEMMA NewJobType ==
    ASSUME NativeAssumption, NEW o \in Deliveries \union Requests, NEW capability \in Capabilities,
           NEW deadline \in Nat
    PROVE  LET job == NewJob(<<o, capability>>, capability, deadline, 1)
           IN /\ job \in StoredJob /\ job.status = "QUEUED" /\ job.key[1] = o
              /\ job.capability = capability
  <1>1. <<o, capability>> \in Keys
    BY DEF NativeAssumption
  <1> QED
    BY <1>1 DEF NewJob, StoredJob, JobStatus

LEMMA QueueBuildKeeps ==
    ASSUME NativeInv, WorkerAssumption, NativeAssumption, NEW r \in Requests, queue_build(r)
    PROVE  NativeInv'
  <1>1. PICK deadline \in 1..MaxTime : queue_worker_job(<<r, Build>>, Build, deadline, 1)
    BY DEF queue_build
  <1> DEFINE job == NewJob(<<r, Build>>, Build, deadline, 1)
  <1>2. /\ receipts' = Append(receipts, 0)
        /\ UNCHANGED <<deliveries, artifacts, calls, registry, ticking>>
    BY DEF queue_build, callVars, tickVars
  <1>3. workerJobs' = Append(workerJobs, job) /\ UNCHANGED <<workerAttempts, clock>>
    BY <1>1 DEF queue_worker_job
  <1>4. deadline \in Nat /\ Build \in Capabilities /\ r \notin Deliveries
    BY DEF NativeAssumption, WorkerAssumption
  <1>5. job \in StoredJob /\ job.status = "QUEUED" /\ job.key[1] = r
    BY <1>4, NewJobType
  <1> QED
    BY <1>2, <1>3, <1>4, <1>5, StandaloneKeeps

LEMMA QueuePublicationKeeps ==
    ASSUME NativeInv, WorkerAssumption, NativeAssumption, NEW r \in Requests,
           queue_worker_publication(r)
    PROVE  NativeInv'
  <1>1. PICK b \in JobsOf(<<r, Build>>), deadline \in 1..MaxTime : \E i \in Accepted(b) :
            AppendJob(<<r, Publish>>, Publish, deadline, i)
    BY DEF queue_worker_publication
  <1>2. PICK i \in Accepted(b) : AppendJob(<<r, Publish>>, Publish, deadline, i)
    BY <1>1
  <1> DEFINE job == NewJob(<<r, Publish>>, Publish, deadline, 1)
  <1>3. UNCHANGED <<deliveries, artifacts, calls, registry, ticking>>
    BY DEF queue_worker_publication, callVars, tickVars
  <1>4. /\ workerJobs' = Append(workerJobs, job) /\ UNCHANGED <<workerAttempts, clock>>
        /\ receipts' = Append(receipts, i)
    BY <1>2 DEF AppendJob
  <1>5. deadline \in Nat /\ Publish \in Capabilities /\ r \notin Deliveries
    BY DEF NativeAssumption, WorkerAssumption
  <1>6. job \in StoredJob /\ job.status = "QUEUED" /\ job.key[1] = r
    BY <1>5, NewJobType
  <1>7. i \in Nat
    BY Elements DEF Accepted, currentWorkerAttempt, NativeInv
  <1> QED
    BY <1>3, <1>4, <1>5, <1>6, <1>7, StandaloneKeeps

\* A publisher pushes.
LEMMA PushKeeps ==
    ASSUME NativeInv, NEW j \in Jobs, Push(j)
    PROVE  NativeInv'
  <1>1. /\ UNCHANGED protocolVars
        /\ UNCHANGED <<deliveries, receipts, artifacts, calls, ticking>>
        /\ registry \subseteq registry'
    BY DEF Push, tickVars
  <1>2. ProtocolStep /\ Jobs' = Jobs
    BY <1>1, NoProtocolStep
  <1>3. ticking' \in [Processes -> DeliveryTick] /\ \A s \in Processes : TickStays(s)
    BY <1>1 DEF NativeInv, DeliveryTypes, TickStays
  <1>4. DeliveryTypes' /\ LinksOK' /\ CopiesOK' /\ LinksKept
    BY <1>1, <1>2, <1>3, SameJobs, DeliveriesAlone
  <1> QED
    BY <1>1, <1>2, <1>4, InPlaceKeeps

\* A restore ends every Tick, every call and every delivery.
LEMMA RestoreNativeKeeps ==
    ASSUME NativeInv, RestoreNative
    PROVE  NativeInv'
  <1>1. /\ RestoreBackup
        /\ deliveries' = [d \in Requested |->
              IF deliveries[d].status \in Over THEN deliveries[d]
              ELSE [deliveries[d] EXCEPT !.status = "CANCELLED", !.owner = None,
                                         !.leased = FALSE]]
        /\ calls' = {} /\ ticking' = [s \in Processes |-> NotTicking]
        /\ UNCHANGED <<receipts, artifacts, registry>>
    BY DEF RestoreNative
  <1>2. ProtocolStep /\ Jobs' = Jobs
    BY <1>1, RestoreStays DEF NativeInv
  <1>3. Requested' = Requested
    BY <1>1 DEF Requested
  <1>4. ASSUME NEW d \in Requested
        PROVE  /\ deliveries'[d] \in Delivery
               /\ deliveries'[d].build = deliveries[d].build
               /\ deliveries'[d].publication = deliveries[d].publication
    <2>1. deliveries[d] \in Delivery
      BY DEF NativeInv, DeliveryTypes
    <2>2. LET r == [deliveries[d] EXCEPT !.status = "CANCELLED", !.owner = None,
                                         !.leased = FALSE]
          IN /\ r \in Delivery /\ r.build = deliveries[d].build
             /\ r.publication = deliveries[d].publication
      BY <2>1 DEF Delivery, Over
    <2> QED
      BY <1>1, <2>1, <2>2
  <1>5. DeliveryTypes'
    <2>1. deliveries' \in [Requested -> Delivery]
      BY <1>1, <1>4
    <2>2. ticking' \in [Processes -> DeliveryTick]
      BY <1>1 DEF DeliveryTick
    <2> QED
      BY <1>1, <1>3, <2>1, <2>2 DEF DeliveryTypes, NativeInv
  <1>6. LinksKept
    BY <1>3, <1>4 DEF LinksKept
  <1>7. CopiesOK'
    BY <1>1 DEF CopiesOK, CopyOK
  <1>8. LinksOK'
    <2>1. \A j \in Jobs : /\ workerJobs'[j].key = workerJobs[j].key
                          /\ workerJobs'[j].capability = workerJobs[j].capability
      BY <1>2 DEF ProtocolStep, JobsStay, JobStays
    <2>2. \A d \in Requested :
             /\ deliveries'[d].build # 0 => deliveries'[d].build \in Jobs
             /\ deliveries'[d].publication # 0 =>
                   /\ deliveries'[d].publication \in Jobs
                   /\ workerJobs'[deliveries'[d].publication].capability = Publish
      BY <1>4, <2>1 DEF NativeInv, LinksOK
    <2>3. \A j \in Jobs : Managed(j)' => Owner(j)' \in Requested
      BY <2>1 DEF NativeInv, LinksOK, Managed, Owner
    <2> QED
      BY <1>2, <1>3, <2>2, <2>3 DEF LinksOK
  <1> QED
    BY <1>1, <1>2, <1>5, <1>6, <1>7, <1>8, InPlaceKeeps

\* A call is added or changed, the deliveries are left alone.
LEMMA CallKept ==
    ASSUME NativeInv, ProtocolStep, Jobs' = Jobs, NEW call \in AdmissionCall,
           call.attempt \in Attempts,
           call.read => receipts[workerAttempts[call.attempt].job] \in registry,
           calls' \subseteq calls \union {call},
           UNCHANGED <<deliveries, receipts, artifacts, registry, ticking>>
    PROVE  NativeInv'
  <1>1. ticking' \in [Processes -> DeliveryTick] /\ \A s \in Processes : TickStays(s)
    BY DEF NativeInv, DeliveryTypes, TickStays
  <1>2. DeliveryTypes' /\ LinksOK' /\ CopiesOK' /\ LinksKept
    BY <1>1, SameJobs, DeliveriesAlone
  <1>3. ReceiptsKept
    BY DEF ReceiptsKept
  <1>4. StoreTypes'
    BY SameJobs DEF NativeInv, StoreTypes
  <1>5. AdmissionsOK'
    BY <1>2, <1>3, AdmissionsStay
  <1>6. \A c \in calls :
           /\ c.attempt \in Attempts'
           /\ c.read => receipts'[workerAttempts'[c.attempt].job] \in registry'
    BY <1>3, CallStays
  <1>7. /\ call.attempt \in Attempts'
        /\ call.read => receipts'[workerAttempts'[call.attempt].job] \in registry'
    <2>1. /\ call.attempt \in Attempts'
          /\ workerAttempts'[call.attempt].job = workerAttempts[call.attempt].job
      BY DEF ProtocolStep, JobsStay, AttemptStays
    <2> QED
      BY <2>1
  <1>8. CallsOK'
    BY <1>6, <1>7 DEF CallsOK
  <1> QED
    BY <1>2, <1>4, <1>5, <1>8 DEF NativeInv, ProtocolStep

LEMMA ReportAskedKeeps ==
    ASSUME NativeInv, NEW i \in Attempts, ReportAsked(i)
    PROVE  NativeInv'
  <1> DEFINE call == [kind |-> "report", attempt |-> i, read |-> FALSE]
  <1>1. /\ UNCHANGED protocolVars /\ calls' = calls \union {call}
        /\ UNCHANGED <<deliveries, receipts, artifacts, registry, ticking>>
    BY DEF ReportAsked, tickVars
  <1>2. ProtocolStep /\ Jobs' = Jobs
    BY <1>1, NoProtocolStep
  <1>3. i \in Nat
    BY Elements DEF NativeInv
  <1>4. call \in AdmissionCall /\ call.attempt = i /\ call.read = FALSE
    BY <1>3 DEF AdmissionCall
  <1> HIDE DEF call
  <1> QED
    BY <1>1, <1>2, <1>4, CallKept

LEMMA ReconcileAskedKeeps ==
    ASSUME NativeInv, NEW i \in Attempts, ReconcileAsked(i)
    PROVE  NativeInv'
  <1> DEFINE call == [kind |-> "reconcile", attempt |-> i, read |-> FALSE]
  <1>1. /\ calls' = calls \union {call}
        /\ UNCHANGED <<deliveries, receipts, artifacts, registry, ticking>>
    BY DEF ReconcileAsked, tickVars
  <1>2. ProtocolStep /\ Jobs' = Jobs
    <2>1. CASE UNCHANGED protocolVars
      BY <2>1, NoProtocolStep
    <2>2. CASE recoverWorker(workerAttempts[i].job)
      <3>1. workerAttempts[i].job \in Jobs
        BY Elements DEF NativeInv
      <3> QED
        BY <2>2, <3>1, RecoverStays DEF NativeInv
    <2> QED
      BY <2>1, <2>2 DEF ReconcileAsked
  <1>3. i \in Nat
    BY Elements DEF NativeInv
  <1>4. call \in AdmissionCall /\ call.attempt = i /\ call.read = FALSE
    BY <1>3 DEF AdmissionCall
  <1> HIDE DEF call
  <1> QED
    BY <1>1, <1>2, <1>4, CallKept

LEMMA ReadKeepsCalls ==
    ASSUME NativeInv, NEW call \in calls, ReadRegistry(call)
    PROVE  NativeInv'
  <1> DEFINE c == [call EXCEPT !.read = TRUE]
  <1>1. /\ receipts[workerAttempts[call.attempt].job] \in registry
        /\ calls' = (calls \ {call}) \union {c}
        /\ UNCHANGED protocolVars
        /\ UNCHANGED <<deliveries, receipts, artifacts, registry, ticking>>
    BY DEF ReadRegistry, tickVars
  <1>2. ProtocolStep /\ Jobs' = Jobs
    BY <1>1, NoProtocolStep
  <1>3. call \in AdmissionCall /\ call.attempt \in Attempts
    BY DEF NativeInv, StoreTypes, CallsOK
  <1>4. c \in AdmissionCall /\ c.attempt = call.attempt
    BY <1>3 DEF AdmissionCall
  <1> HIDE DEF c
  <1> QED
    BY <1>1, <1>2, <1>3, <1>4, CallKept

LEMMA CallEndKeeps ==
    ASSUME NativeInv, NEW call \in calls, CallEnds(call)
    PROVE  NativeInv'
  <1>1. /\ calls' \subseteq calls /\ UNCHANGED protocolVars
        /\ UNCHANGED <<deliveries, receipts, artifacts, registry, ticking>>
    BY DEF CallEnds, tickVars
  <1>2. ProtocolStep /\ Jobs' = Jobs
    BY <1>1, NoProtocolStep
  <1>3. ticking' \in [Processes -> DeliveryTick] /\ \A s \in Processes : TickStays(s)
    BY <1>1 DEF NativeInv, DeliveryTypes, TickStays
  <1>4. DeliveryTypes' /\ LinksOK' /\ CopiesOK' /\ LinksKept
    BY <1>1, <1>2, <1>3, SameJobs, DeliveriesAlone
  <1> QED
    BY <1>1, <1>2, <1>4, InPlaceKeeps

\* A publication is admitted: its job succeeds with the attempt a, and the first
\* artifact of the job is appended.
LEMMA AdmissionKeeps ==
    ASSUME NativeInv, NEW i \in Attempts, NEW j \in Jobs, j = workerAttempts[i].job,
           workerJobs[j].capability = Publish, workerJobs[j].status \notin Terminal,
           ~workerJobs[j].cancellationRequested, nativeWorkerOrigin(j), BuildProvenance(j),
           workerAttempts[i].fence = workerJobs[j].fence,
           receipts[j] \in registry,
           NEW reconciled \in BOOLEAN, NEW a \in Attempt, a.job = j,
           a.fence = workerAttempts[i].fence,
           IF reconciled THEN a.status = "EXPIRED" /\ a.report = None
           ELSE a.status = "SUCCEEDED" /\ a.report = "PASSED",
           WriteAttempt(i, [workerJobs[j] EXCEPT !.status = "SUCCEEDED"], a, {}),
           admitNative(i, reconciled), calls' \subseteq calls,
           UNCHANGED <<deliveries, receipts, registry, ticking>>
    PROVE  NativeInv'
  <1> DEFINE job == [workerJobs[j] EXCEPT !.status = "SUCCEEDED"]
             n == Len(artifacts) + 1
             e == [job |-> j, attempt |-> i, digest |-> receipts[j], reconciled |-> reconciled]
  <1>1. /\ workerJobs' = [workerJobs EXCEPT ![j] = job]
        /\ workerAttempts' = [workerAttempts EXCEPT ![i] = a]
        /\ clock' = clock
    BY DEF WriteAttempt
  <1>2. workerJobs[j] \in StoredJob /\ i \in Nat /\ j \in Nat
    BY Elements DEF NativeInv
  <1>3. /\ job \in StoredJob /\ job.status = "SUCCEEDED"
        /\ job.key = workerJobs[j].key /\ job.capability = Publish
        /\ job.fence = workerJobs[j].fence /\ ~job.cancellationRequested
    BY <1>2 DEF StoredJob, JobStatus, Terminal
  <1> HIDE DEF job
  <1>4. /\ workerJobs' \in Seq(StoredJob) /\ Jobs' = Jobs
        /\ Len(workerJobs') = Len(workerJobs)
        /\ \A k \in Jobs : workerJobs'[k] = IF k = j THEN job ELSE workerJobs[k]
    BY <1>1, <1>3, SeqReplace DEF NativeInv, JobTypes, Jobs
  <1>5. /\ workerAttempts' \in Seq(Attempt) /\ Attempts' = Attempts
        /\ \A k \in Attempts : workerAttempts'[k] = IF k = i THEN a ELSE workerAttempts[k]
    BY <1>1, SeqReplace DEF NativeInv, JobTypes, Attempts
  <1>6. \A k \in Attempts : /\ workerAttempts'[k].job = workerAttempts[k].job
                            /\ workerAttempts'[k].fence = workerAttempts[k].fence
    BY <1>5
  <1>7. JobTypes'
    BY <1>1, <1>4, <1>5, <1>6 DEF NativeInv, JobTypes
  <1>8. FinalStays
    <2>1. \A k \in Jobs : /\ workerJobs'[k].key = workerJobs[k].key
                          /\ workerJobs[k].status \in Terminal => workerJobs'[k] = workerJobs[k]
      BY <1>3, <1>4
    <2>2. \A k \in Attempts : workerJobs[workerAttempts[k].job].status \in Terminal =>
                                workerAttempts'[k] = workerAttempts[k]
      BY <1>5
    <2> QED
      BY <1>4, <1>5, <2>1, <2>2 DEF FinalStays
  <1>9. ReceiptsKept /\ LinksKept
    BY DEF ReceiptsKept, LinksKept, Requested
  <1>10. DeliveryTypes'
    BY DEF NativeInv, DeliveryTypes, Requested
  <1>11. CopiesOK'
    BY DEF NativeInv, CopiesOK, CopyOK, OwnerKept
  <1>12. LinksOK'
    <2>1. \A k \in Jobs : /\ workerJobs'[k].key = workerJobs[k].key
                          /\ workerJobs'[k].capability = workerJobs[k].capability
      BY <1>3, <1>4
    <2>2. Requested' = Requested
      BY DEF Requested
    <2>3. \A k \in Jobs : Managed(k)' => Owner(k)' \in Requested
      BY <2>1 DEF NativeInv, LinksOK, Managed, Owner
    <2>4. \A d \in Requested :
             /\ deliveries'[d].build # 0 => deliveries'[d].build \in Jobs
             /\ deliveries'[d].publication # 0 =>
                   /\ deliveries'[d].publication \in Jobs
                   /\ workerJobs'[deliveries'[d].publication].capability = Publish
      BY <2>1 DEF NativeInv, LinksOK
    <2> QED
      BY <1>4, <2>2, <2>3, <2>4 DEF LinksOK
  <1>13. CallsOK'
    BY <1>5, <1>6 DEF NativeInv, CallsOK
  <1>14. ArtifactsOf(j) = {}
    <2>1. workerJobs[j].status # "SUCCEEDED"
      BY DEF Terminal
    <2> QED
      BY <2>1 DEF NativeInv, AdmissionsOK, OneArtifact
  <1>15. artifacts' = Append(artifacts, e)
    BY <1>14 DEF admitNative
  <1>16. e \in Artifact
    <2>1. receipts[j] \in Nat
      BY DEF NativeInv, StoreTypes, JobTypes, Jobs
    <2> QED
      BY <1>2, <2>1 DEF Artifact
  <1>17. e.job = j /\ e.attempt = i /\ e.digest = receipts[j] /\ e.reconciled = reconciled
    OBVIOUS
  <1> HIDE DEF e
  <1>18. /\ artifacts' \in Seq(Artifact)
         /\ DOMAIN artifacts' = DOMAIN artifacts \union {n} /\ n \notin DOMAIN artifacts
         /\ \A m \in DOMAIN artifacts : artifacts'[m] = artifacts[m]
         /\ artifacts'[n] = e
    BY <1>15, <1>16, SeqAppend DEF NativeInv, StoreTypes
  <1>19. StoreTypes'
    BY <1>4, <1>18 DEF NativeInv, StoreTypes
  <1> HIDE DEF n
  <1>20. ASSUME NEW m \in DOMAIN artifacts'
         PROVE  ArtifactOK(m)'
    <2>1. CASE m \in DOMAIN artifacts
      BY <1>8, <1>9, <1>18, <2>1, ArtifactStays DEF NativeInv, AdmissionsOK
    <2>2. CASE m = n
      <3>1. artifacts'[m] = e
        BY <1>18, <2>2
      <3>2. j \in Jobs' /\ i \in Attempts' /\ receipts'[j] \in registry'
        BY <1>4, <1>5
      <3>3. workerJobs'[j] = job /\ workerAttempts'[i] = a
        BY <1>4, <1>5
      <3>4. (Managed(j) => j \in Linked(Owner(j)))'
        BY <1>8, <1>9, LinkedStays DEF NativeInv, nativeWorkerOrigin
      <3>5. nativeWorkerOrigin(artifacts[m].job)'
        BY <1>17, <3>1, <3>4 DEF nativeWorkerOrigin, Managed, Owner, Linked
      <3>6. publicationEvidence(m)'
        BY <1>3, <1>17, <3>1, <3>3, <3>5 DEF publicationEvidence
      <3>7. BuildProvenance(j)'
        BY <1>8, <1>9, ProvenanceStays DEF NativeInv
      <3>8. BuildProvenance(artifacts[m].job)'
        BY <1>17, <3>1, <3>7 DEF BuildProvenance
      <3>9. ~workerJobs'[artifacts'[m].job].cancellationRequested
        BY <1>3, <1>17, <3>1, <3>3
      <3> QED
        BY <1>17, <3>1, <3>2, <3>6, <3>8, <3>9 DEF ArtifactOK
    <2> QED
      BY <1>18, <2>1, <2>2
  <1>21. ASSUME NEW k \in Jobs
         PROVE  OneArtifact(k)'
    <2>1. CASE k = j
      <3>1. ArtifactsOf(j)' = {n}
        BY <1>14, <1>17, <1>18 DEF ArtifactsOf
      <3> QED
        BY <1>3, <1>4, <2>1, <3>1 DEF OneArtifact
    <2>2. CASE k # j
      <3>1. ArtifactsOf(k)' = ArtifactsOf(k)
        BY <1>17, <1>18, <2>2 DEF ArtifactsOf
      <3>2. workerJobs'[k] = workerJobs[k] /\ OneArtifact(k)
        BY <1>4, <2>2 DEF NativeInv, AdmissionsOK
      <3> QED
        BY <3>1, <3>2 DEF OneArtifact
    <2> QED
      BY <2>1, <2>2
  <1>22. AdmissionsOK'
    BY <1>4, <1>20, <1>21 DEF AdmissionsOK
  <1> QED
    BY <1>7, <1>10, <1>11, <1>12, <1>13, <1>19, <1>22 DEF NativeInv

LEMMA AdmitKeeps ==
    ASSUME NativeInv, NEW call \in calls, Admit(call)
    PROVE  NativeInv'
  <1> DEFINE i == call.attempt
             j == workerAttempts[i].job
  <1>1. /\ i \in Attempts /\ receipts[j] \in registry
        /\ calls' \subseteq calls /\ UNCHANGED <<deliveries, receipts, registry, ticking>>
    BY DEF Admit, NativeInv, CallsOK, tickVars
  <1>2. j \in Jobs /\ workerJobs[j] \in StoredJob /\ workerAttempts[i] \in Attempt
    BY <1>1, Elements DEF NativeInv
  <1>3. CASE AdmitReport(i)
    <2> DEFINE a == [workerAttempts[i] EXCEPT !.status = "SUCCEEDED", !.report = "PASSED"]
    <2>1. /\ publicationReportEligible(i)
          /\ WriteAttempt(i, [workerJobs[j] EXCEPT !.status = "SUCCEEDED"], a, {})
          /\ admitNative(i, FALSE)
      BY <1>3 DEF AdmitReport
    <2>2. /\ workerJobs[j].capability = Publish /\ workerJobs[j].status \notin Terminal
          /\ ~workerJobs[j].cancellationRequested /\ nativeWorkerOrigin(j) /\ BuildProvenance(j)
          /\ workerAttempts[i].fence = workerJobs[j].fence
      BY <2>1 DEF publicationReportEligible, publicationEligible, historicalPublicationEligible,
                  Terminal
    <2>3. /\ a \in Attempt /\ a.job = j /\ a.fence = workerAttempts[i].fence
          /\ a.status = "SUCCEEDED" /\ a.report = "PASSED"
      BY <1>2 DEF Attempt, AttemptStatus, Results
    <2> HIDE DEF a
    <2> QED
      BY <1>1, <1>2, <2>1, <2>2, <2>3, AdmissionKeeps
  <1>4. CASE AdmitReconciled(i)
    <2>1. /\ ReconcileEligible(i)
          /\ WriteAttempt(i, [workerJobs[j] EXCEPT !.status = "SUCCEEDED"], workerAttempts[i], {})
          /\ admitNative(i, TRUE)
      BY <1>4 DEF AdmitReconciled
    <2>2. /\ workerJobs[j].capability = Publish /\ workerJobs[j].status \notin Terminal
          /\ ~workerJobs[j].cancellationRequested /\ nativeWorkerOrigin(j) /\ BuildProvenance(j)
          /\ workerAttempts[i].fence = workerJobs[j].fence
          /\ workerAttempts[i].status = "EXPIRED" /\ workerAttempts[i].report = None
      BY <2>1 DEF ReconcileEligible, publicationEligible, historicalPublicationEligible,
                  Terminal, Uncertain, currentWorkerAttempt
    <2> QED
      BY <1>1, <1>2, <2>1, <2>2, AdmissionKeeps
  <1> QED
    BY <1>3, <1>4 DEF Admit

\* A delivery is stored without an owner and the Tick that stores it ends.
LEMMA TickEnds ==
    ASSUME NativeInv, NEW s \in Processes, EndTick(s)
    PROVE  ticking' \in [Processes -> DeliveryTick] /\ \A p \in Processes : TickStays(p)
  <1>1. ticking' = [ticking EXCEPT ![s] = NotTicking] /\ ticking \in [Processes -> DeliveryTick]
    BY DEF EndTick, NativeInv, DeliveryTypes
  <1>2. ticking' \in [Processes -> DeliveryTick]
    BY <1>1 DEF DeliveryTick
  <1>3. \A p \in Processes : ticking'[p] = IF p = s THEN NotTicking ELSE ticking[p]
    BY <1>1
  <1> QED
    BY <1>2, <1>3 DEF TickStays

LEMMA StoredUnowned ==
    ASSUME NativeInv, NativeAssumption, ProtocolStep, OwnersRequested,
           NEW d \in Requested, NEW r \in Delivery, r.owner = None,
           deliveries' = [deliveries EXCEPT ![d] = r], LinksSet(d, r),
           ticking' \in [Processes -> DeliveryTick], \A p \in Processes : TickStays(p)
    PROVE  DeliveryTypes' /\ LinksOK' /\ CopiesOK' /\ LinksKept
  <1>1. \A p \in Processes : r.owner # p
    BY DEF NativeAssumption
  <1>2. \A p \in Processes : TickAfterStore(p, d, r)
    BY <1>1 DEF TickAfterStore
  <1> QED
    BY <1>2, DeliveryStored

\* The Tick of a process that holds a delivery.
LEMMA CopyIs ==
    ASSUME NativeInv, NEW s \in Processes, ticking[s] # NotTicking
    PROVE  /\ ticking[s].delivery \in Requested
           /\ deliveries[ticking[s].delivery] \in Delivery
           /\ ticking[s].copy \in Delivery /\ ticking[s].copy.owner = s
           /\ OwnerKept(s) =>
                 /\ ticking[s].copy.build = deliveries[ticking[s].delivery].build
                 /\ ticking[s].copy.publication = deliveries[ticking[s].delivery].publication
  <1>1. ticking[s] \in DeliveryTick /\ ticking[s] # NotTicking
    BY DEF NativeInv, DeliveryTypes
  <1>2. ticking[s].copy \in Delivery
    BY <1>1 DEF DeliveryTick
  <1> QED
    BY <1>2 DEF NativeInv, DeliveryTypes, CopiesOK, CopyOK

LEMMA StageIs ==
    ASSUME NEW s, ticking[s].stage # "NONE"
    PROVE  ticking[s] # NotTicking
  BY DEF NotTicking

\* A step that stores a delivery without an owner and changes no job.
LEMMA StoreKeeps ==
    ASSUME NativeInv, NativeAssumption, ProtocolStep, Jobs' = Jobs,
           NEW d \in Requested, NEW r \in Delivery, r.owner = None,
           r.build = deliveries[d].build, r.publication = deliveries[d].publication,
           deliveries' = [deliveries EXCEPT ![d] = r],
           ticking' \in [Processes -> DeliveryTick], \A p \in Processes : TickStays(p),
           UNCHANGED <<receipts, artifacts, calls, registry>>
    PROVE  NativeInv'
  <1>1. LinksSet(d, r)
    BY DEF LinksSet
  <1>2. DeliveryTypes' /\ LinksOK' /\ CopiesOK' /\ LinksKept
    BY <1>1, SameJobs, StoredUnowned
  <1> QED
    BY <1>2, InPlaceKeeps

\* Stopping a delivery.
LEMMA StopKeeps ==
    ASSUME NativeInv, NativeAssumption, NEW d \in Requested, NEW status \in Over,
           stopNativeDelivery(d, status),
           ticking' \in [Processes -> DeliveryTick], \A p \in Processes : TickStays(p),
           UNCHANGED <<receipts, artifacts, calls, registry>>
    PROVE  NativeInv'
  <1> DEFINE r == [deliveries[d] EXCEPT !.status = status, !.owner = None, !.leased = FALSE]
  <1>1. ProtocolStep /\ Jobs' = Jobs
    BY StopStays DEF NativeInv
  <1>2. deliveries[d] \in Delivery /\ deliveries \in [Requested -> Delivery]
    BY DEF NativeInv, DeliveryTypes
  <1>3. /\ r \in Delivery /\ r.owner = None
        /\ r.build = deliveries[d].build /\ r.publication = deliveries[d].publication
    BY <1>2 DEF Delivery
  <1>4. deliveries' = [deliveries EXCEPT ![d] = r]
    BY DEF stopNativeDelivery, Stopped
  <1> HIDE DEF r
  <1> QED
    BY <1>1, <1>3, <1>4, StoreKeeps

LEMMA CancelDeliveryKeeps ==
    ASSUME NativeInv, NativeAssumption, NEW d \in Requested, cancel_native_delivery(d)
    PROVE  NativeInv'
  <1>1. /\ stopNativeDelivery(d, "CANCELLED")
        /\ UNCHANGED <<receipts, artifacts, calls, registry, ticking>>
    BY DEF cancel_native_delivery, callVars, tickVars
  <1>2. ticking' \in [Processes -> DeliveryTick] /\ \A p \in Processes : TickStays(p)
    BY <1>1 DEF NativeInv, DeliveryTypes, TickStays
  <1>3. "CANCELLED" \in Over
    BY DEF Over
  <1> QED
    BY <1>1, <1>2, <1>3, StopKeeps

LEMMA CancelManagedKeeps ==
    ASSUME NativeInv, NativeAssumption, NEW j \in Jobs, cancel_managed_job(j)
    PROVE  NativeInv'
  <1>1. /\ Managed(j) /\ stopNativeDelivery(Owner(j), "CANCELLED")
        /\ UNCHANGED <<receipts, artifacts, calls, registry, ticking>>
    BY DEF cancel_managed_job, callVars, tickVars
  <1>2. ticking' \in [Processes -> DeliveryTick] /\ \A p \in Processes : TickStays(p)
    BY <1>1 DEF NativeInv, DeliveryTypes, TickStays
  <1>3. "CANCELLED" \in Over /\ Owner(j) \in Requested
    BY <1>1 DEF Over, NativeInv, LinksOK
  <1> QED
    BY <1>1, <1>2, <1>3, StopKeeps

-----------------------------------------------------------------------------
(***************************************************************************)
(* The steps of a Tick                                                     *)
(***************************************************************************)

LEMMA TakeDeliveryKeeps ==
    ASSUME NativeInv, NEW s \in Processes, NEW d \in Requested, TakeDelivery(s, d)
    PROVE  NativeInv'
  <1> DEFINE r == [deliveries[d] EXCEPT !.status = "RUNNING", !.owner = s, !.leased = TRUE]
             t == [stage |-> "TAKEN", delivery |-> d, copy |-> r]
  <1>1. /\ UNCHANGED protocolVars /\ UNCHANGED <<receipts, artifacts, calls, registry>>
        /\ deliveries' = [deliveries EXCEPT ![d].status = "RUNNING", ![d].owner = s,
                                            ![d].leased = TRUE]
        /\ ticking' = [ticking EXCEPT ![s] = [stage |-> "TAKEN", delivery |-> d,
                                              copy |-> deliveries'[d]]]
    BY DEF TakeDelivery, callVars
  <1>2. /\ deliveries[d] \in Delivery /\ deliveries \in [Requested -> Delivery]
        /\ d \in Deliveries /\ ticking \in [Processes -> DeliveryTick]
    BY DEF NativeInv, DeliveryTypes
  <1>3. /\ r \in Delivery /\ r.owner = s
        /\ r.build = deliveries[d].build /\ r.publication = deliveries[d].publication
    BY <1>2 DEF Delivery
  <1>4. deliveries' = [deliveries EXCEPT ![d] = r]
    BY <1>1
  <1> HIDE DEF r
  <1>5. ticking' = [ticking EXCEPT ![s] = t]
    BY <1>1, <1>2, <1>4
  <1>6. t \in DeliveryTick /\ t.delivery = d /\ t.copy = r
    BY <1>2, <1>3 DEF DeliveryTick
  <1> HIDE DEF t
  <1>7. ticking' \in [Processes -> DeliveryTick]
    BY <1>2, <1>5, <1>6
  <1>8. \A p \in Processes : ticking'[p] = IF p = s THEN t ELSE ticking[p]
    BY <1>2, <1>5
  <1>9. ASSUME NEW p \in Processes
        PROVE  TickAfterStore(p, d, r)
    <2>1. CASE p = s
      BY <1>3, <1>6, <1>8, <2>1 DEF TickAfterStore
    <2>2. CASE p # s
      BY <1>3, <1>8, <2>2 DEF TickStays, TickAfterStore
    <2> QED
      BY <2>1, <2>2
  <1>10. ProtocolStep /\ Jobs' = Jobs
    BY <1>1, NoProtocolStep
  <1>11. LinksSet(d, r)
    BY <1>3 DEF LinksSet
  <1>12. DeliveryTypes' /\ LinksOK' /\ CopiesOK' /\ LinksKept
    BY <1>3, <1>4, <1>7, <1>9, <1>10, <1>11, SameJobs, DeliveryStored
  <1> QED
    BY <1>1, <1>10, <1>12, InPlaceKeeps

LEMMA IntendKeepsDelivery ==
    ASSUME NativeInv, NEW s \in Processes, IntendProposal(s)
    PROVE  NativeInv'
  <1> DEFINE d == ticking[s].delivery
             r == [ticking[s].copy EXCEPT !.phase = "APPLY_UNCERTAIN",
                                          !.leased = deliveries[d].leased]
             t == [stage |-> "PROPOSE", delivery |-> d, copy |-> r]
  <1>1. /\ UNCHANGED protocolVars /\ UNCHANGED <<receipts, artifacts, calls, registry>>
        /\ ticking[s].stage = "TAKEN" /\ OwnerKept(s)
        /\ deliveries' = [deliveries EXCEPT ![d] = r]
        /\ ticking' = [ticking EXCEPT ![s] = [stage |-> "PROPOSE", delivery |-> d,
                                              copy |-> deliveries'[d]]]
    BY DEF IntendProposal, callVars
  <1>2. ticking[s] # NotTicking
    BY <1>1, StageIs
  <1>3. /\ d \in Requested /\ deliveries[d] \in Delivery
        /\ ticking[s].copy \in Delivery /\ ticking[s].copy.owner = s
        /\ ticking[s].copy.build = deliveries[d].build
        /\ ticking[s].copy.publication = deliveries[d].publication
    BY <1>1, <1>2, CopyIs
  <1>4. /\ deliveries \in [Requested -> Delivery]
        /\ d \in Deliveries /\ ticking \in [Processes -> DeliveryTick]
    BY <1>3 DEF NativeInv, DeliveryTypes
  <1>5. /\ r \in Delivery /\ r.owner = s
        /\ r.build = deliveries[d].build /\ r.publication = deliveries[d].publication
    BY <1>3 DEF Delivery, Phases
  <1> HIDE DEF r
  <1>6. ticking' = [ticking EXCEPT ![s] = t]
    BY <1>1, <1>3, <1>4
  <1>7. t \in DeliveryTick /\ t.delivery = d /\ t.copy = r
    BY <1>4, <1>5 DEF DeliveryTick
  <1> HIDE DEF t
  <1>8. ticking' \in [Processes -> DeliveryTick]
    BY <1>4, <1>6, <1>7
  <1>9. \A p \in Processes : ticking'[p] = IF p = s THEN t ELSE ticking[p]
    BY <1>4, <1>6
  <1>10. ASSUME NEW p \in Processes
         PROVE  TickAfterStore(p, d, r)
    <2>1. CASE p = s
      BY <1>5, <1>7, <1>9, <2>1 DEF TickAfterStore
    <2>2. CASE p # s
      BY <1>5, <1>9, <2>2 DEF TickStays, TickAfterStore
    <2> QED
      BY <2>1, <2>2
  <1>11. ProtocolStep /\ Jobs' = Jobs
    BY <1>1, NoProtocolStep
  <1>12. LinksSet(d, r)
    BY <1>5 DEF LinksSet
  <1>13. DeliveryTypes' /\ LinksOK' /\ CopiesOK' /\ LinksKept
    <2> HIDE DEF d
    <2> QED
      BY <1>1, <1>3, <1>5, <1>8, <1>10, <1>11, <1>12, SameJobs, DeliveryStored
  <1> QED
    BY <1>1, <1>11, <1>13, InPlaceKeeps

\* The steps that store the copy and end the Tick.
LEMMA CopyStored ==
    ASSUME NativeInv, NativeAssumption, NEW s \in Processes, ticking[s] # NotTicking,
           OwnerKept(s), NEW status \in {"PENDING", "RUNNING"} \union Over, NEW phase \in Phases,
           deliveries' = [deliveries EXCEPT ![ticking[s].delivery] =
              [ticking[s].copy EXCEPT !.status = status, !.phase = phase, !.owner = None,
                                      !.leased = FALSE]],
           EndTick(s), UNCHANGED protocolVars, UNCHANGED <<receipts, artifacts, calls, registry>>
    PROVE  NativeInv'
  <1> DEFINE d == ticking[s].delivery
             r == [ticking[s].copy EXCEPT !.status = status, !.phase = phase, !.owner = None,
                                          !.leased = FALSE]
  <1>1. /\ d \in Requested /\ ticking[s].copy \in Delivery
        /\ ticking[s].copy.build = deliveries[d].build
        /\ ticking[s].copy.publication = deliveries[d].publication
    BY CopyIs
  <1>2. /\ r \in Delivery /\ r.owner = None
        /\ r.build = deliveries[d].build /\ r.publication = deliveries[d].publication
    BY <1>1 DEF Delivery
  <1>3. deliveries' = [deliveries EXCEPT ![d] = r]
    OBVIOUS
  <1> HIDE DEF d, r
  <1>4. ticking' \in [Processes -> DeliveryTick] /\ \A p \in Processes : TickStays(p)
    BY TickEnds
  <1>5. ProtocolStep /\ Jobs' = Jobs
    BY NoProtocolStep
  <1> QED
    BY <1>1, <1>2, <1>3, <1>4, <1>5, StoreKeeps

LEMMA BlockKeeps ==
    ASSUME NativeInv, NativeAssumption, NEW s \in Processes, Block(s)
    PROVE  NativeInv'
  <1> DEFINE copy == ticking[s].copy
  <1>1. /\ ticking[s].stage = "TAKEN" /\ OwnerKept(s) /\ EndTick(s)
        /\ deliveries' = [deliveries EXCEPT ![ticking[s].delivery] =
              [copy EXCEPT !.status = "FAILED", !.owner = None, !.leased = FALSE]]
        /\ UNCHANGED protocolVars /\ UNCHANGED <<receipts, artifacts, calls, registry>>
    BY DEF Block, callVars
  <1>2. ticking[s] # NotTicking
    BY <1>1, StageIs
  <1>3. copy \in Delivery
    BY <1>2, CopyIs
  <1>4. [copy EXCEPT !.status = "FAILED", !.owner = None, !.leased = FALSE]
          = [copy EXCEPT !.status = "FAILED", !.phase = copy.phase, !.owner = None,
                         !.leased = FALSE]
    BY <1>3 DEF Delivery
  <1>5. "FAILED" \in {"PENDING", "RUNNING"} \union Over /\ copy.phase \in Phases
    BY <1>3 DEF Delivery, Over
  <1>6. deliveries' = [deliveries EXCEPT ![ticking[s].delivery] =
              [copy EXCEPT !.status = "FAILED", !.phase = copy.phase, !.owner = None,
                           !.leased = FALSE]]
    BY <1>1, <1>4
  <1> QED
    BY <1>1, <1>2, <1>5, <1>6, CopyStored

LEMMA SaveKeeps ==
    ASSUME NativeInv, NativeAssumption, NEW s \in Processes, NEW phase \in Phases,
           ticking[s].stage = "TAKEN", Save(s, phase)
    PROVE  NativeInv'
  <1> DEFINE copy == ticking[s].copy
  <1>1. /\ OwnerKept(s) /\ EndTick(s)
        /\ deliveries' = [deliveries EXCEPT ![ticking[s].delivery] =
              [copy EXCEPT !.phase = phase, !.owner = None, !.leased = FALSE]]
        /\ UNCHANGED protocolVars /\ UNCHANGED <<receipts, artifacts, calls, registry>>
    BY DEF Save, callVars
  <1>2. ticking[s] # NotTicking
    BY StageIs
  <1>3. copy \in Delivery
    BY <1>2, CopyIs
  <1>4. [copy EXCEPT !.phase = phase, !.owner = None, !.leased = FALSE]
          = [copy EXCEPT !.status = copy.status, !.phase = phase, !.owner = None,
                         !.leased = FALSE]
    BY <1>3 DEF Delivery
  <1>5. copy.status \in {"PENDING", "RUNNING"} \union Over
    BY <1>3 DEF Delivery
  <1>6. deliveries' = [deliveries EXCEPT ![ticking[s].delivery] =
              [copy EXCEPT !.status = copy.status, !.phase = phase, !.owner = None,
                           !.leased = FALSE]]
    BY <1>1, <1>4
  <1> QED
    BY <1>1, <1>2, <1>5, <1>6, CopyStored

LEMMA AdvanceKeeps ==
    ASSUME NativeInv, NativeAssumption, NEW s \in Processes, Advance(s)
    PROVE  NativeInv'
  <1>1. "NATIVE_BUILD" \in Phases /\ "APPLY" \in Phases
    BY DEF Phases
  <1> QED
    BY <1>1, SaveKeeps DEF Advance

LEMMA ConcludeKeeps ==
    ASSUME NativeInv, NativeAssumption, NEW s \in Processes, Conclude(s)
    PROVE  NativeInv'
  <1> DEFINE copy == ticking[s].copy
  <1>1. /\ ticking[s].stage = "PROPOSED" /\ OwnerKept(s) /\ EndTick(s)
        /\ UNCHANGED protocolVars /\ UNCHANGED <<receipts, artifacts, calls, registry>>
    BY DEF Conclude, callVars
  <1>2. PICK status \in {"RUNNING"} \union Over :
          deliveries' = [deliveries EXCEPT ![ticking[s].delivery] =
              [copy EXCEPT !.status = status, !.owner = None, !.leased = FALSE]]
    BY DEF Conclude
  <1>3. ticking[s] # NotTicking
    BY <1>1, StageIs
  <1>4. copy \in Delivery
    BY <1>3, CopyIs
  <1>5. [copy EXCEPT !.status = status, !.owner = None, !.leased = FALSE]
          = [copy EXCEPT !.status = status, !.phase = copy.phase, !.owner = None,
                         !.leased = FALSE]
    BY <1>4 DEF Delivery
  <1>6. status \in {"PENDING", "RUNNING"} \union Over /\ copy.phase \in Phases
    BY <1>4 DEF Delivery
  <1>7. deliveries' = [deliveries EXCEPT ![ticking[s].delivery] =
              [copy EXCEPT !.status = status, !.phase = copy.phase, !.owner = None,
                           !.leased = FALSE]]
    BY <1>2, <1>5
  <1> QED
    BY <1>1, <1>3, <1>6, <1>7, CopyStored

LEMMA ProposeKeeps ==
    ASSUME NativeInv, NEW s \in Processes, Propose(s)
    PROVE  NativeInv'
  <1> DEFINE t == [ticking[s] EXCEPT !.stage = "PROPOSED"]
  <1>1. /\ ticking[s].stage = "PROPOSE" /\ ticking' = [ticking EXCEPT ![s].stage = "PROPOSED"]
        /\ UNCHANGED protocolVars
        /\ UNCHANGED <<deliveries, receipts, artifacts, calls, registry>>
    BY DEF Propose, callVars
  <1>2. ticking \in [Processes -> DeliveryTick] /\ ticking[s] # NotTicking
    BY <1>1, StageIs DEF NativeInv, DeliveryTypes
  <1>3. /\ t \in DeliveryTick /\ t.stage = "PROPOSED"
        /\ t.delivery = ticking[s].delivery /\ t.copy = ticking[s].copy
    BY <1>2 DEF DeliveryTick
  <1>4. ticking' = [ticking EXCEPT ![s] = t]
    BY <1>1
  <1> HIDE DEF t
  <1>5. t # NotTicking
    BY <1>3 DEF NotTicking
  <1>6. ticking' \in [Processes -> DeliveryTick]
    BY <1>2, <1>3, <1>4
  <1>7. \A p \in Processes : ticking'[p] = IF p = s THEN t ELSE ticking[p]
    BY <1>2, <1>4
  <1>8. \A p \in Processes : TickStays(p)
    BY <1>2, <1>3, <1>5, <1>7 DEF TickStays
  <1>9. ProtocolStep /\ Jobs' = Jobs
    BY <1>1, NoProtocolStep
  <1>10. DeliveryTypes' /\ LinksOK' /\ CopiesOK' /\ LinksKept
    BY <1>1, <1>6, <1>8, <1>9, SameJobs, DeliveriesAlone
  <1> QED
    BY <1>1, <1>9, <1>10, InPlaceKeeps

\* A Tick that ends and stores nothing.
LEMMA TickOverKeeps ==
    ASSUME NativeInv, NEW s \in Processes, EndTick(s), UNCHANGED protocolVars,
           UNCHANGED <<deliveries, receipts, artifacts, calls, registry>>
    PROVE  NativeInv'
  <1>1. ticking' \in [Processes -> DeliveryTick] /\ \A p \in Processes : TickStays(p)
    BY TickEnds
  <1>2. ProtocolStep /\ Jobs' = Jobs
    BY NoProtocolStep
  <1>3. DeliveryTypes' /\ LinksOK' /\ CopiesOK' /\ LinksKept
    BY <1>1, <1>2, SameJobs, DeliveriesAlone
  <1> QED
    BY <1>2, <1>3, InPlaceKeeps

\* What the steps in NATIVE_BUILD have in common.
LEMMA BuildTick ==
    ASSUME NativeInv, NEW s \in Processes, InNativeBuild(s)
    PROVE  /\ ticking[s].delivery \in Requested
           /\ deliveries[ticking[s].delivery] \in Delivery
           /\ ticking' \in [Processes -> DeliveryTick] /\ \A p \in Processes : TickStays(p)
           /\ UNCHANGED <<calls, registry, artifacts>>
  <1>1. ticking[s].stage = "TAKEN" /\ EndTick(s) /\ UNCHANGED <<calls, registry, artifacts>>
    BY DEF InNativeBuild, callVars
  <1>2. ticking[s] # NotTicking
    BY <1>1, StageIs
  <1> QED
    BY <1>1, <1>2, CopyIs, TickEnds

LEMMA StopTickKeeps ==
    ASSUME NativeInv, NativeAssumption, NEW s \in Processes, StopTick(s)
    PROVE  NativeInv'
  <1>1. /\ InNativeBuild(s) /\ stopNativeDelivery(ticking[s].delivery, "FAILED")
        /\ receipts' = receipts
    BY DEF StopTick
  <1>2. "FAILED" \in Over
    BY DEF Over
  <1> QED
    BY <1>1, <1>2, BuildTick, StopKeeps

\* A released delivery, with a link set.
LEMMA ReleasedIs ==
    ASSUME NativeInv, NEW d \in Requested
    PROVE  /\ LeaseGiven(d) \in Delivery /\ LeaseGiven(d).owner = None
           /\ LeaseGiven(d).build = deliveries[d].build
           /\ LeaseGiven(d).publication = deliveries[d].publication
  <1>1. deliveries[d] \in Delivery
    BY DEF NativeInv, DeliveryTypes
  <1> QED
    BY <1>1 DEF LeaseGiven, Delivery

\* A delivery's job is queued and linked.
LEMMA LinkedJobKeeps ==
    ASSUME NativeInv, NativeAssumption, NEW d \in Requested, NEW job \in StoredJob,
           job.status = "QUEUED", job.key[1] = d, NEW receipt \in Nat, NEW r \in Delivery,
           r.owner = None,
           \/ /\ deliveries[d].build = 0 /\ r.build = Len(workerJobs) + 1
              /\ r.publication = deliveries[d].publication
           \/ /\ deliveries[d].publication = 0 /\ r.publication = Len(workerJobs) + 1
              /\ r.build = deliveries[d].build /\ job.capability = Publish,
           workerJobs' = Append(workerJobs, job), UNCHANGED <<workerAttempts, clock>>,
           receipts' = Append(receipts, receipt),
           deliveries' = [deliveries EXCEPT ![d] = r],
           ticking' \in [Processes -> DeliveryTick], \A p \in Processes : TickStays(p),
           UNCHANGED <<artifacts, calls, registry>>
    PROVE  NativeInv'
  <1>1. /\ ProtocolStep
        /\ Jobs' = Jobs \union {Len(workerJobs) + 1}
        /\ workerJobs'[Len(workerJobs) + 1] = job
    BY AppendStays DEF NativeInv
  <1>2. Requested' = Requested
    BY DEF NativeInv, DeliveryTypes, Requested
  <1>3. OwnersRequested
    BY <1>1, <1>2 DEF OwnersRequested, Owner
  <1>4. LinksSet(d, r)
    BY <1>1 DEF LinksSet
  <1>5. DeliveryTypes' /\ LinksOK' /\ CopiesOK' /\ LinksKept
    BY <1>1, <1>3, <1>4, StoredUnowned
  <1> QED
    BY <1>5, QueuedKeeps

LEMMA QueueBuildTickKeeps ==
    ASSUME NativeInv, NativeAssumption, NEW s \in Processes, QueueBuild(s)
    PROVE  NativeInv'
  <1> DEFINE d == ticking[s].delivery
             job == NewJob(<<d, Build>>, Build, deliveries[d].deadline, 1)
             r == [LeaseGiven(d) EXCEPT !.build = Len(workerJobs) + 1]
  <1>1. /\ InNativeBuild(s) /\ deliveries[d].build = 0
        /\ AppendJob(<<d, Build>>, Build, deliveries[d].deadline, 0)
        /\ deliveries' = [deliveries EXCEPT ![d] = r]
    BY DEF QueueBuild
  <1>2. /\ d \in Requested /\ deliveries[d] \in Delivery /\ d \in Deliveries
        /\ ticking' \in [Processes -> DeliveryTick] /\ \A p \in Processes : TickStays(p)
        /\ UNCHANGED <<calls, registry, artifacts>>
    BY <1>1, BuildTick DEF NativeInv, DeliveryTypes
  <1>3. /\ workerJobs' = Append(workerJobs, job) /\ UNCHANGED <<workerAttempts, clock>>
        /\ receipts' = Append(receipts, 0)
    BY <1>1 DEF AppendJob
  <1>4. deliveries[d].deadline \in Nat /\ Build \in Capabilities
    BY <1>2 DEF Delivery, NativeAssumption
  <1>5. job \in StoredJob /\ job.status = "QUEUED" /\ job.key[1] = d
    <2> HIDE DEF d
    <2> QED
      BY <1>2, <1>4, NewJobType
  <1>6. /\ LeaseGiven(d) \in Delivery /\ LeaseGiven(d).owner = None
        /\ LeaseGiven(d).publication = deliveries[d].publication
    BY <1>2, ReleasedIs
  <1>7. PICK b \in Nat : b = Len(workerJobs) + 1
    BY DEF NativeInv, JobTypes
  <1>8. /\ r \in Delivery /\ r.owner = None /\ r.build = Len(workerJobs) + 1
        /\ r.publication = deliveries[d].publication
    BY <1>6, <1>7 DEF Delivery
  <1> HIDE DEF d, r, job
  <1>9. PICK receipt \in Nat : receipts' = Append(receipts, receipt)
    BY <1>3
  <1> QED
    BY <1>1, <1>2, <1>3, <1>5, <1>8, <1>9, LinkedJobKeeps

LEMMA QueuePublicationTickKeeps ==
    ASSUME NativeInv, NativeAssumption, NEW s \in Processes, QueuePublication(s)
    PROVE  NativeInv'
  <1> DEFINE d == ticking[s].delivery
             job == NewJob(<<d, Publish>>, Publish, deliveries[d].deadline, 1)
             r == [LeaseGiven(d) EXCEPT !.publication = Len(workerJobs) + 1]
  <1>1. /\ InNativeBuild(s) /\ deliveries[d].publication = 0
        /\ deliveries' = [deliveries EXCEPT ![d] = r]
    BY DEF QueuePublication
  <1>2. PICK i \in Accepted(deliveries[d].build) :
           AppendJob(<<d, Publish>>, Publish, deliveries[d].deadline, i)
    BY DEF QueuePublication
  <1>3. /\ d \in Requested /\ deliveries[d] \in Delivery /\ d \in Deliveries
        /\ ticking' \in [Processes -> DeliveryTick] /\ \A p \in Processes : TickStays(p)
        /\ UNCHANGED <<calls, registry, artifacts>>
    BY <1>1, BuildTick DEF NativeInv, DeliveryTypes
  <1>4. /\ workerJobs' = Append(workerJobs, job) /\ UNCHANGED <<workerAttempts, clock>>
        /\ receipts' = Append(receipts, i)
    BY <1>2 DEF AppendJob
  <1>5. i \in Nat
    BY Elements DEF Accepted, currentWorkerAttempt, NativeInv
  <1>6. deliveries[d].deadline \in Nat /\ Publish \in Capabilities
    BY <1>3 DEF Delivery, NativeAssumption
  <1>7. /\ job \in StoredJob /\ job.status = "QUEUED" /\ job.key[1] = d
        /\ job.capability = Publish
    <2> HIDE DEF d
    <2> QED
      BY <1>3, <1>6, NewJobType
  <1>8. /\ LeaseGiven(d) \in Delivery /\ LeaseGiven(d).owner = None
        /\ LeaseGiven(d).build = deliveries[d].build
    BY <1>3, ReleasedIs
  <1>9. PICK b \in Nat : b = Len(workerJobs) + 1
    BY DEF NativeInv, JobTypes
  <1>10. /\ r \in Delivery /\ r.owner = None /\ r.publication = Len(workerJobs) + 1
         /\ r.build = deliveries[d].build
    BY <1>8, <1>9 DEF Delivery
  <1> HIDE DEF d, r, job
  <1> QED
    BY <1>1, <1>3, <1>4, <1>5, <1>7, <1>10, LinkedJobKeeps

\* The job a delivery follows exists; what it makes of a publication that has
\* succeeded is the artifact that was admitted for it.
LEMMA FollowedIs ==
    ASSUME NativeInv, NEW d \in Requested, deliveries[d].build # 0
    PROVE  /\ Followed(d) \in Jobs
           /\ StatusAfterRecovery(Followed(d)) = "SUCCEEDED"
              /\ Followed(d) = deliveries[d].publication =>
                 (CHOOSE n \in ArtifactsOf(Followed(d)) : TRUE) \in Nat
  <1> DEFINE j == Followed(d)
  <1>1. j \in Jobs
    BY DEF Followed, NativeInv, LinksOK
  <1>2. ASSUME StatusAfterRecovery(j) = "SUCCEEDED", j = deliveries[d].publication
        PROVE  (CHOOSE n \in ArtifactsOf(j) : TRUE) \in Nat
    <2>1. workerJobs[j] \in StoredJob /\ j # 0
      BY <1>1, Elements DEF NativeInv
    <2>2. workerJobs[j].status = "SUCCEEDED"
      BY <1>2, <2>1, StatusBehindRecovery
    <2>3. workerJobs[j].capability = Publish
      BY <1>2, <2>1 DEF NativeInv, LinksOK
    <2>4. OneArtifact(j)
      BY <1>1 DEF NativeInv, AdmissionsOK
    <2> HIDE DEF j
    <2>5. PICK n : ArtifactsOf(j) = {n}
      BY <2>2, <2>3, <2>4 DEF OneArtifact
    <2>6. (CHOOSE m \in ArtifactsOf(j) : TRUE) \in ArtifactsOf(j)
      BY <2>5
    <2>7. ArtifactsOf(j) \subseteq DOMAIN artifacts
      BY DEF ArtifactsOf
    <2>8. DOMAIN artifacts \subseteq Nat
      BY DEF NativeInv, StoreTypes
    <2> QED
      BY <2>6, <2>7, <2>8
  <1> QED
    BY <1>1, <1>2

LEMMA FollowKeeps ==
    ASSUME NativeInv, NativeAssumption, NEW s \in Processes, Follow(s)
    PROVE  NativeInv'
  <1> DEFINE d == ticking[s].delivery
             j == Followed(d)
             status == StatusAfterRecovery(j)
             n == CHOOSE m \in ArtifactsOf(j) : TRUE
             r == IF status = "SUCCEEDED" /\ j = deliveries[d].publication
                  THEN [LeaseGiven(d) EXCEPT !.phase = "INSPECT", !.artifact = n]
                  ELSE IF status \in Terminal \ {"SUCCEEDED"}
                  THEN [LeaseGiven(d) EXCEPT !.status = "FAILED"] ELSE LeaseGiven(d)
  <1>1. /\ InNativeBuild(s) /\ deliveries[d].build # 0
        /\ IF Due(j) THEN recoverWorker(j) ELSE UNCHANGED protocolVars
        /\ deliveries' = [deliveries EXCEPT ![d] = r]
        /\ receipts' = receipts
    BY DEF Follow
  <1>2. /\ d \in Requested
        /\ ticking' \in [Processes -> DeliveryTick] /\ \A p \in Processes : TickStays(p)
        /\ UNCHANGED <<calls, registry, artifacts>>
    BY <1>1, BuildTick
  <1>3. /\ j \in Jobs
        /\ status = "SUCCEEDED" /\ j = deliveries[d].publication => n \in Nat
    BY <1>1, <1>2, FollowedIs
  <1>4. /\ LeaseGiven(d) \in Delivery /\ LeaseGiven(d).owner = None
        /\ LeaseGiven(d).build = deliveries[d].build
        /\ LeaseGiven(d).publication = deliveries[d].publication
    BY <1>2, ReleasedIs
  <1>5. ProtocolStep /\ Jobs' = Jobs
    <2>1. CASE Due(j)
      BY <1>1, <1>3, <2>1, RecoverStays DEF NativeInv
    <2>2. CASE ~Due(j)
      BY <1>1, <2>2, NoProtocolStep
    <2> QED
      BY <2>1, <2>2
  <1>6. /\ r \in Delivery /\ r.owner = None
        /\ r.build = deliveries[d].build /\ r.publication = deliveries[d].publication
    <2> HIDE DEF d, j, status, n
    <2>1. CASE status = "SUCCEEDED" /\ j = deliveries[d].publication
      BY <1>3, <1>4, <2>1 DEF Delivery, Phases
    <2>2. CASE /\ ~(status = "SUCCEEDED" /\ j = deliveries[d].publication)
               /\ status \in Terminal \ {"SUCCEEDED"}
      BY <1>4, <2>2 DEF Delivery, Over
    <2>3. CASE /\ ~(status = "SUCCEEDED" /\ j = deliveries[d].publication)
               /\ status \notin Terminal \ {"SUCCEEDED"}
      BY <1>4, <2>3
    <2> QED
      BY <2>1, <2>2, <2>3
  <1> HIDE DEF d, r
  <1> QED
    BY <1>1, <1>2, <1>5, <1>6, StoreKeeps

LEMMA TickStepKeeps ==
    ASSUME NativeInv, NativeAssumption, NEW s \in Processes, TickStep(s)
    PROVE  NativeInv'
  <1>1. ASSUME NEW d \in Requested, TakeDelivery(s, d) PROVE NativeInv'
    BY <1>1, TakeDeliveryKeeps
  <1>2. CASE OwnershipLost(s)
    BY <1>2, TickOverKeeps DEF OwnershipLost, callVars
  <1>3. CASE tickNativeDelivery(s)
    BY <1>3, StopTickKeeps, QueueBuildTickKeeps, QueuePublicationTickKeeps, FollowKeeps
       DEF tickNativeDelivery
  <1> QED
    BY <1>1, <1>2, <1>3, BlockKeeps, AdvanceKeeps, IntendKeepsDelivery, ProposeKeeps,
       ConcludeKeeps DEF TickStep

\* The lease of a delivery ends; its owner is compared, not its lease.
LEMMA DeliveryLeaseKeeps ==
    ASSUME NativeInv, NEW d \in Requested, LeaseEnds(d)
    PROVE  NativeInv'
  <1> DEFINE r == [deliveries[d] EXCEPT !.leased = FALSE]
  <1>1. /\ deliveries' = [deliveries EXCEPT ![d].leased = FALSE]
        /\ UNCHANGED protocolVars
        /\ UNCHANGED <<receipts, artifacts, calls, registry, ticking>>
    BY DEF LeaseEnds, callVars
  <1>2. deliveries[d] \in Delivery
    BY DEF NativeInv, DeliveryTypes
  <1>3. /\ r \in Delivery /\ r.owner = deliveries[d].owner
        /\ r.build = deliveries[d].build /\ r.publication = deliveries[d].publication
    BY <1>2 DEF Delivery
  <1>4. deliveries' = [deliveries EXCEPT ![d] = r]
    BY <1>1
  <1> HIDE DEF r
  <1>5. ticking' \in [Processes -> DeliveryTick] /\ \A p \in Processes : TickStays(p)
    BY <1>1 DEF NativeInv, DeliveryTypes, TickStays
  <1>6. LinksSet(d, r) /\ \A p \in Processes : TickAfterStore(p, d, r)
    BY <1>3, <1>5 DEF LinksSet, TickAfterStore
  <1>7. ProtocolStep /\ Jobs' = Jobs
    BY <1>1, NoProtocolStep
  <1>8. DeliveryTypes' /\ LinksOK' /\ CopiesOK' /\ LinksKept
    BY <1>3, <1>4, <1>5, <1>6, <1>7, SameJobs, DeliveryStored
  <1> QED
    BY <1>1, <1>7, <1>8, InPlaceKeeps

-----------------------------------------------------------------------------
(***************************************************************************)
(* The invariant and the theorem                                           *)
(***************************************************************************)

LEMMA NativeInvInit == NativeInit => NativeInv
  <1> SUFFICES ASSUME NativeInit PROVE NativeInv
    OBVIOUS
  <1>1. /\ workerJobs = <<>> /\ workerAttempts = <<>> /\ clock = 0
        /\ deliveries = <<>> /\ receipts = <<>> /\ artifacts = <<>> /\ calls = {}
        /\ ticking = [s \in Processes |-> NotTicking]
    BY DEF NativeInit, Init
  <1>2. Jobs = {} /\ Attempts = {} /\ Requested = {} /\ DOMAIN artifacts = {}
    BY <1>1 DEF Jobs, Attempts, Requested
  <1>3. JobTypes /\ StoreTypes
    BY <1>1, <1>2 DEF JobTypes, StoreTypes
  <1>4. DeliveryTypes
    BY <1>1, <1>2 DEF DeliveryTypes, DeliveryTick
  <1>5. LinksOK /\ CopiesOK /\ CallsOK /\ AdmissionsOK
    BY <1>1, <1>2 DEF LinksOK, CopiesOK, CopyOK, CallsOK, AdmissionsOK
  <1> QED
    BY <1>3, <1>4, <1>5 DEF NativeInv

LEMMA NativeInvStep ==
    ASSUME WorkerAssumption, NativeAssumption
    PROVE  NativeInv /\ [NativeNext]_nativeVars => NativeInv'
  <1> SUFFICES ASSUME NativeInv, [NativeNext]_nativeVars PROVE NativeInv'
    OBVIOUS
  <1>1. ASSUME NEW d \in Deliveries, deploy_integration(d) PROVE NativeInv'
    BY <1>1, DeployKeeps
  <1>2. ASSUME NEW r \in Requests, queue_build(r) \/ queue_worker_publication(r)
        PROVE  NativeInv'
    BY <1>2, QueueBuildKeeps, QueuePublicationKeeps
  <1>3. CASE WorkerStep
    <2>1. UNCHANGED ownVars
      BY <1>3 DEF WorkerStep
    <2> QED
      BY <1>3, <2>1, WorkerStepStays, ProtocolStepKeeps DEF NativeInv
  <1>4. CASE ClockTicks
    BY <1>4, ClockStays, ProtocolStepKeeps DEF ClockTicks, NativeInv
  <1>5. CASE RestoreNative
    BY <1>5, RestoreNativeKeeps
  <1>6. ASSUME NEW j \in Jobs, Push(j) PROVE NativeInv'
    BY <1>6, PushKeeps
  <1>7. ASSUME NEW i \in Attempts, ReportAsked(i) \/ ReconcileAsked(i) PROVE NativeInv'
    BY <1>7, ReportAskedKeeps, ReconcileAskedKeeps
  <1>8. ASSUME NEW call \in calls, ReadRegistry(call) \/ Admit(call) \/ CallEnds(call)
        PROVE  NativeInv'
    BY <1>8, ReadKeepsCalls, AdmitKeeps, CallEndKeeps
  <1>9. ASSUME NEW d \in Requested, cancel_native_delivery(d) PROVE NativeInv'
    BY <1>9, CancelDeliveryKeeps
  <1>10. ASSUME NEW j \in Jobs, cancel_managed_job(j) PROVE NativeInv'
    BY <1>10, CancelManagedKeeps
  <1>11. ASSUME NEW s \in Processes, TickStep(s) PROVE NativeInv'
    BY <1>11, TickStepKeeps
  <1>12. ASSUME NEW s \in Processes, ProcessDies(s) PROVE NativeInv'
    BY <1>12, TickOverKeeps DEF ProcessDies, callVars
  <1>13. ASSUME NEW d \in Requested, LeaseEnds(d) PROVE NativeInv'
    BY <1>13, DeliveryLeaseKeeps
  <1>14. CASE UNCHANGED nativeVars
    BY <1>14, NoProtocolStep, ProtocolStepKeeps DEF nativeVars
  <1> QED
    BY <1>1, <1>2, <1>3, <1>4, <1>5, <1>6, <1>7, <1>8, <1>9, <1>10, <1>11, <1>12, <1>13,
       <1>14 DEF NativeNext

LEMMA ArtifactsAreValid ==
    ASSUME NativeInv
    PROVE  ArtifactStaysValid
  <1>1. ASSUME NEW j \in Jobs, workerJobs[j].capability = Publish
        PROVE  Cardinality(ArtifactsOf(j)) =
                 IF workerJobs[j].status = "SUCCEEDED" THEN 1 ELSE 0
    <2>1. OneArtifact(j)
      BY DEF NativeInv, AdmissionsOK
    <2>2. CASE workerJobs[j].status = "SUCCEEDED"
      <3>1. PICK n : ArtifactsOf(j) = {n}
        BY <1>1, <2>1, <2>2 DEF OneArtifact
      <3> QED
        BY <2>2, <3>1, FS_Singleton
    <2>3. CASE workerJobs[j].status # "SUCCEEDED"
      BY <1>1, <2>1, <2>3, FS_EmptySet DEF OneArtifact
    <2> QED
      BY <2>2, <2>3
  <1>2. ASSUME NEW n \in DOMAIN artifacts
        PROVE  /\ artifacts[n].digest \in registry
               /\ ~quarantined => /\ validatedExistingArtifact(n)
                                  /\ historicalPublicationEligible(artifacts[n].job)
    <2>1. ArtifactOK(n)
      BY DEF NativeInv, AdmissionsOK
    <2>2. workerJobs[artifacts[n].job].capability = Publish /\ nativeWorkerOrigin(artifacts[n].job)
      BY <2>1 DEF ArtifactOK, publicationEvidence
    <2> QED
      BY <2>1, <2>2 DEF ArtifactOK, validatedExistingArtifact, historicalPublicationEligible
  <1> QED
    BY <1>1, <1>2 DEF ArtifactStaysValid

\* The invariant of part 3 holds in every reachable state: whatever workers, Ticks,
\* admissions, cancellations and restores do, links name existing jobs, a copy that
\* may still be stored links what is stored, and a publication has one artifact
\* exactly if it succeeded, with its evidence and that of its build in place, of a
\* quarantined product too (native_delivery.go, native_publication.go).
THEOREM NativeInvariantHolds == NativeSpec => []NativeInv
  <1>1. NativeInv /\ [NativeNext]_nativeVars => NativeInv'
    BY NativeInvStep, WorkerAssumption, NativeAssumption
  <1> QED
    BY <1>1, NativeInvInit, PTL DEF NativeSpec

\* Whatever interleaves with an admission, a publication has succeeded exactly if
\* one artifact was admitted for it, and as long as its product is not quarantined
\* that artifact passes validatedExistingArtifact and historicalPublicationEligible,
\* which a deployment of it starts with (existing_artifact.go, native_publication.go),
\* for every set of deliveries, requests and processes, and any number of deaths.
THEOREM ArtifactsStayValid == NativeSpec => []ArtifactStaysValid
  <1>1. NativeInv => ArtifactStaysValid
    BY ArtifactsAreValid
  <1> QED
    BY <1>1, NativeInvariantHolds, PTL

===============================================================================
