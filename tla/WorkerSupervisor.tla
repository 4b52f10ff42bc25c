--------------------------- MODULE WorkerSupervisor ---------------------------
(***************************************************************************)
(* The worker host (internal/workerrunner): a supervisor process that runs *)
(* one job, a watchdog process per job, the operator's cleanup command and *)
(* the Docker daemon, around one durable journal per job.                  *)
(*                                                                         *)
(* A job is named by its owner nonce.  Its containers have fixed names     *)
(* under that nonce and are created at most once, so <<owner, name>> also  *)
(* stands for the container ID.  updateJournal is a read-modify-write      *)
(* under a file lock and one step; a docker command is another step.       *)
(* A docker create that the supervisor gave up on may still take effect.   *)
(***************************************************************************)
EXTENDS Naturals, FiniteSets

CONSTANTS
    Owners,         \* the nonces of the jobs this host will run
    Names,          \* the resources of a job: "check" and, for images, "buildkit"
    MaxFaults,      \* how often a cleanup may fail half-way
    MaxStarted,     \* bound: jobs that go past their start call
    NoOwner

ASSUME SupervisorAssumption ==
    /\ Names \in {{"check"}, {"check", "buildkit"}}
    /\ MaxFaults \in Nat
    /\ MaxStarted \in Nat
    /\ NoOwner \notin Owners

VARIABLES
    journal,     \* the journal files
    sup,         \* the supervisor process, if one holds the state directory
    dog,         \* the watchdog process of every job
    clean,       \* the cleanups under way, by the process that runs them
    pending,     \* creates the daemon has accepted and not finished
    containers,  \* containers that exist
    made,        \* every container the daemon ever made
    faults       \* cleanups that failed half-way so far

vars == <<journal, sup, dog, clean, pending, containers, made, faults>>

Supervisor == "supervisor"
Cleaners == Owners \union {Supervisor}   \* an owner stands for its watchdog

NoResource == [state |-> "NONE", id |-> FALSE, presence |-> FALSE]
NoJournal == [exists |-> FALSE, done |-> FALSE, closure |-> FALSE,
              leaseOver |-> FALSE, deadlineOver |-> FALSE,
              resources |-> [n \in Names |-> NoResource], report |-> "NONE"]
Off == [step |-> "OFF", owner |-> NoOwner, visit |-> {}, name |-> "check",
        cancelled |-> FALSE, result |-> "FAILED"]
Idle == [step |-> "IDLE", file |-> NoOwner, resources |-> NoJournal.resources,
         todo |-> {}, proof |-> FALSE]

\* In a journal the check precedes the build.
First(names) == IF "check" \in names THEN "check" ELSE "buildkit"

SetResource(o, n, r) ==
    journal' = [journal EXCEPT ![o].resources[n] = r]

-----------------------------------------------------------------------------
(***************************************************************************)
(* cleanupWith, run by process c on the journal of o.  It works from the   *)
(* snapshot it read first; every journal update re-reads the journal.      *)
(***************************************************************************)
EndedForGood(c, ok) ==
    /\ clean' = [clean EXCEPT ![c] = Idle]
    /\ IF c = Supervisor
       THEN /\ dog' = dog
            /\ sup' = IF sup.step = "RECOVER" /\ ok
                      THEN [sup EXCEPT !.visit = @ \ {clean[c].file}] ELSE Off
       ELSE /\ sup' = sup
            /\ dog' = [dog EXCEPT ![c] = "GONE"]

\* How a cleanup that ends affects the process that ran it: a failure stops a
\* recovery, and a watchdog tries again at its next tick.
Ended(c, ok) ==
    /\ clean' = [clean EXCEPT ![c] = Idle]
    /\ IF c = Supervisor
       THEN /\ dog' = dog
            /\ sup' = IF sup.step = "RECOVER" /\ ok
                      THEN [sup EXCEPT !.visit = @ \ {clean[c].file}] ELSE Off
       ELSE /\ sup' = sup
            /\ dog' = [dog EXCEPT ![c] = IF ok THEN "GONE" ELSE "ARMED"]

OpenedBy(o) ==
    [step |-> "MARK", file |-> o, resources |-> journal[o].resources,
     todo |-> {n \in Names : journal[o].resources[n].state \notin {"NONE", "REMOVED"}},
     proof |-> FALSE]

At(step, c) == [clean[c] EXCEPT !.step = step]

Current(c) == First(clean[c].todo)

\* On to the next resource.
Passed(c) == [clean[c] EXCEPT !.step = "MARK", !.todo = @ \ {Current(c)}]

AtStep(c, step) == clean[c].step = step /\ clean[c].todo # {}

\* The journal update of a cleanup: the current resource becomes r.  A closed
\* journal carries the hash of what was closed, so saveJournal refuses to change it.
Writable(o, n, r) == journal[o].closure => r = journal[o].resources[n]

Change(c, r, next) ==
    LET o == clean[c].file
        n == Current(c) IN
    /\ \/ /\ Writable(o, n, r)
          /\ SetResource(o, n, r)
          /\ clean' = [clean EXCEPT ![c] = next]
          /\ UNCHANGED <<sup, dog>>
       \/ /\ ~Writable(o, n, r)
          /\ journal' = journal
          /\ Ended(c, FALSE)
    /\ UNCHANGED <<pending, containers, made, faults>>

Entry(c) == journal[clean[c].file].resources[Current(c)]
Snapshot(c) == clean[c].resources[Current(c)]
Container(c) == <<clean[c].file, Current(c)>>

\* A create whose outcome nobody recorded becomes uncertain.
Mark(c) ==
    /\ AtStep(c, "MARK")
    /\ Change(c, IF Snapshot(c).state = "CREATING" /\ Entry(c).state = "CREATING"
                 THEN [Entry(c) EXCEPT !.state = "CREATE_UNCERTAIN"] ELSE Entry(c),
              At(IF Snapshot(c).id THEN "PROBE" ELSE "FIND", c))

Find(c) ==
    /\ AtStep(c, "FIND")
    /\ clean' = [clean EXCEPT ![c] = IF Container(c) \in containers
                                     THEN At("NOTE_ID", c) ELSE Passed(c)]
    /\ UNCHANGED <<journal, sup, dog, pending, containers, made, faults>>

NoteId(c) ==
    /\ AtStep(c, "NOTE_ID")
    /\ Change(c, [Entry(c) EXCEPT !.id = TRUE], At("PROBE", c))

\* The container is looked up by its ID and, if it is there, its presence on
\* this daemon may be attested.
Probe(c, attested) ==
    /\ AtStep(c, "PROBE")
    /\ clean' = [clean EXCEPT ![c] =
         IF Container(c) \notin containers THEN At("RECORD", c)
         ELSE IF Snapshot(c).presence THEN At("REMOVE", c)
         ELSE [At("NOTE_PRESENCE", c) EXCEPT !.proof = attested]]
    /\ UNCHANGED <<journal, sup, dog, pending, containers, made, faults>>

NotePresence(c) ==
    /\ AtStep(c, "NOTE_PRESENCE")
    /\ Change(c, [Entry(c) EXCEPT !.presence = @ \/ (clean[c].proof /\ Entry(c).id)],
              [At("REMOVE", c) EXCEPT !.proof = FALSE])

Remove(c) ==
    /\ AtStep(c, "REMOVE")
    /\ containers' = containers \ {Container(c)}
    /\ clean' = [clean EXCEPT ![c] = At("RECORD", c)]
    /\ UNCHANGED <<journal, sup, dog, pending, made, faults>>

\* Only a create that is known to have succeeded is recorded as removed.
Record(c) ==
    /\ AtStep(c, "RECORD")
    /\ Change(c, [Entry(c) EXCEPT !.state = IF @ = "CREATED" THEN "REMOVED" ELSE @],
              Passed(c))

\* The last update looks at the journal as it is now, not at the snapshot.
Finish(c) ==
    LET o == clean[c].file
        ok == \A n \in Names : journal[o].resources[n].state \in {"NONE", "REMOVED"} IN
    /\ clean[c].step = "MARK" /\ clean[c].todo = {}
    /\ journal' = IF ok THEN [journal EXCEPT ![o].done = TRUE] ELSE journal
    /\ Ended(c, ok)
    /\ UNCHANGED <<pending, containers, made, faults>>

\* A docker command fails or times out, ownership is not proven, or another
\* process holds the journal's lock.
Abort(c) ==
    /\ clean[c].step # "IDLE"
    /\ faults < MaxFaults
    /\ faults' = faults + 1
    /\ Ended(c, FALSE)
    /\ UNCHANGED <<journal, pending, containers, made>>

cleanupWith(c) ==
    \/ Mark(c) \/ Find(c) \/ NoteId(c) \/ (\E attested \in BOOLEAN : Probe(c, attested))
    \/ NotePresence(c) \/ Remove(c) \/ Record(c) \/ Finish(c)

-----------------------------------------------------------------------------
(***************************************************************************)
(* The supervisor: runOne                                                  *)
(***************************************************************************)
Existing == {o \in Owners : journal[o].exists}

\* A process takes the lock of the state directory and starts to recover.
RunOne ==
    /\ sup.step = "OFF"
    /\ sup' = [Off EXCEPT !.step = "RECOVER", !.visit = Existing]
    /\ UNCHANGED <<journal, dog, clean, pending, containers, made, faults>>

\* Recover: journals that are done are passed over, the others cleaned up.
Recover(o) ==
    /\ sup.step = "RECOVER" /\ clean[Supervisor].step = "IDLE"
    /\ o \in sup.visit
    /\ \/ /\ journal[o].done
          /\ sup' = [sup EXCEPT !.visit = @ \ {o}]
          /\ clean' = clean
       \/ /\ ~journal[o].done
          /\ clean' = [clean EXCEPT ![Supervisor] = OpenedBy(o)]
          /\ sup' = sup
    /\ UNCHANGED <<journal, dog, pending, containers, made, faults>>

\* With nothing left to recover: no job to claim, or a job and its journal.
ClaimNothing ==
    /\ sup.step = "RECOVER" /\ sup.visit = {}
    /\ sup' = Off
    /\ UNCHANGED <<journal, dog, clean, pending, containers, made, faults>>

Claim(o) ==
    /\ sup.step = "RECOVER" /\ sup.visit = {}
    /\ o \notin Existing
    /\ journal' = [journal EXCEPT ![o].exists = TRUE]
    /\ sup' = [sup EXCEPT !.step = "JOURNALLED", !.owner = o]
    /\ UNCHANGED <<dog, clean, pending, containers, made, faults>>

\* The process ends without a cleanup when the watchdog does not start.
startWatchdog ==
    /\ sup.step = "JOURNALLED" /\ Cardinality(Existing) <= MaxStarted
    /\ \/ /\ dog' = [dog EXCEPT ![sup.owner] = "ARMED"]
          /\ sup' = [sup EXCEPT !.step = "WATCHED"]
       \/ /\ dog' = dog
          /\ sup' = Off
    /\ UNCHANGED <<journal, clean, pending, containers, made, faults>>

\* The start call is accepted and its lease recorded, or the job is given up.
StartCall ==
    /\ sup.step = "WATCHED"
    /\ \/ /\ journal' = [journal EXCEPT ![sup.owner].leaseOver = FALSE]
          /\ sup' = [sup EXCEPT !.step = "READY"]
       \/ /\ journal' = journal
          /\ sup' = [sup EXCEPT !.step = "CLEANUP"]
    /\ UNCHANGED <<dog, clean, pending, containers, made, faults>>

Working == {"READY", "BEGUN", "CREATING", "EXEC"}

\* superviseWorkerHeartbeat: the renewed lease reaches the journal, possibly
\* after the lease it renews has run out; any failure cancels the execution.
Heartbeat ==
    /\ sup.step \in Working /\ ~sup.cancelled
    /\ \/ /\ journal' = [journal EXCEPT ![sup.owner].leaseOver = FALSE]
          /\ sup' = sup
       \/ /\ journal' = journal
          /\ sup' = [sup EXCEPT !.cancelled = TRUE]
    /\ UNCHANGED <<dog, clean, pending, containers, made, faults>>

Failed == [sup EXCEPT !.step = "REPORT", !.result = "FAILED"]

\* The intent is journalled before the create, never twice for one name and
\* never after the end of the job.
beginResource ==
    LET o == sup.owner
        n == sup.name
        allowed == /\ ~journal[o].done
                   /\ ~journal[o].deadlineOver /\ ~journal[o].leaseOver
                   /\ journal[o].resources[n].state = "NONE" IN
    /\ sup.step = "READY"
    /\ \/ /\ allowed
          /\ SetResource(o, n, [NoResource EXCEPT !.state = "CREATING"])
          /\ sup' = [sup EXCEPT !.step = "BEGUN"]
       \/ /\ journal' = journal
          /\ sup' = Failed
    /\ UNCHANGED <<dog, clean, pending, containers, made, faults>>

createResource ==
    /\ sup.step = "BEGUN"
    /\ pending' = pending \union {<<sup.owner, sup.name>>}
    /\ sup' = [sup EXCEPT !.step = "CREATING"]
    /\ UNCHANGED <<journal, dog, clean, containers, made, faults>>

\* completeCreate: the create returned the ID, or an error that proves nothing;
\* in either case the journal update itself may fail.
ReturnedId ==
    /\ sup.step = "CREATING" /\ <<sup.owner, sup.name>> \in made
    /\ SetResource(sup.owner, sup.name,
                   [journal[sup.owner].resources[sup.name]
                      EXCEPT !.state = "CREATED", !.id = TRUE])
    /\ sup' = [sup EXCEPT !.step = "EXEC"]

ErrorMeansNoContainer ==
    LET r == journal[sup.owner].resources[sup.name] IN
    \/ ReturnedId /\ UNCHANGED <<dog, clean, pending, containers, made, faults>>
    \/ /\ sup.step \in {"BEGUN", "CREATING"}
       /\ \/ SetResource(sup.owner, sup.name, [r EXCEPT !.state = "REMOVED", !.id = TRUE])
          \/ journal' = journal
       /\ sup' = Failed
       /\ UNCHANGED <<dog, clean, pending, containers, made, faults>>

completeCreate ==
    LET r == journal[sup.owner].resources[sup.name] IN
    \/ ReturnedId /\ UNCHANGED <<dog, clean, pending, containers, made, faults>>
    \/ /\ sup.step \in {"BEGUN", "CREATING"}
       /\ \/ SetResource(sup.owner, sup.name, [r EXCEPT !.state = "CREATE_UNCERTAIN"])
          \/ journal' = journal
       /\ sup' = Failed
       /\ UNCHANGED <<dog, clean, pending, containers, made, faults>>

\* The work inside the container fails, or succeeds and is followed by the next
\* resource or by the report.
execute ==
    /\ sup.step = "EXEC"
    /\ \/ sup' = Failed
       \/ /\ <<sup.owner, sup.name>> \in containers
          /\ \/ sup' = [sup EXCEPT !.step = "REPORT", !.result = "PASSED"]
             \/ /\ sup.name = "check" /\ "buildkit" \in Names
                /\ sup' = [sup EXCEPT !.step = "READY", !.name = "buildkit"]
    /\ UNCHANGED <<journal, dog, clean, pending, containers, made, faults>>

\* The heartbeat is joined, a known loss of the lease overrides the result, and
\* the report is made durable before it is sent.
PrepareReport ==
    LET o == sup.owner
        result == IF sup.cancelled \/ journal[o].deadlineOver THEN "FAILED"
                  ELSE sup.result IN
    /\ sup.step = "REPORT"
    /\ \/ journal' = [journal EXCEPT ![o].report = result]
       \/ journal' = journal
    /\ sup' = [sup EXCEPT !.step = "CLEANUP"]
    /\ UNCHANGED <<dog, clean, pending, containers, made, faults>>

DeferredCleanup ==
    /\ sup.step = "CLEANUP" /\ clean[Supervisor].step = "IDLE"
    /\ clean' = [clean EXCEPT ![Supervisor] = OpenedBy(sup.owner)]
    /\ UNCHANGED <<journal, sup, dog, pending, containers, made, faults>>

\* The supervisor is killed at any point.
SupervisorDies ==
    /\ sup.step # "OFF"
    /\ sup' = Off
    /\ clean' = [clean EXCEPT ![Supervisor] = Idle]
    /\ UNCHANGED <<journal, dog, pending, containers, made, faults>>

-----------------------------------------------------------------------------
(***************************************************************************)
(* The watchdog, the operator, the daemon and time                         *)
(***************************************************************************)
parentDead(o) == sup.owner # o

WatchdogTick(o) ==
    /\ dog[o] = "ARMED"
    /\ \/ /\ journal[o].done
          /\ dog' = [dog EXCEPT ![o] = "GONE"]
          /\ clean' = clean
       \/ /\ ~journal[o].done
          /\ parentDead(o) \/ journal[o].leaseOver \/ journal[o].deadlineOver
          /\ dog' = [dog EXCEPT ![o] = "CLEANING"]
          /\ clean' = [clean EXCEPT ![o] = OpenedBy(o)]
    /\ UNCHANGED <<journal, sup, pending, containers, made, faults>>

WatchdogDies(o) ==
    /\ dog[o] \in {"ARMED", "CLEANING"}
    /\ dog' = [dog EXCEPT ![o] = "KILLED"]
    /\ clean' = [clean EXCEPT ![o] = Idle]
    /\ UNCHANGED <<journal, sup, pending, containers, made, faults>>

\* inspectLocal: what the operator's command requires of the journal.
Used(o) == {n \in Names : journal[o].resources[n].state # "NONE"}

EligibleWithoutProof(o) ==
    /\ journal[o].exists /\ ~journal[o].done
    /\ parentDead(o) /\ journal[o].leaseOver /\ journal[o].deadlineOver
    /\ Used(o) # {}

Eligible(o) ==
    /\ journal[o].exists /\ ~journal[o].done
    /\ parentDead(o) /\ journal[o].leaseOver /\ journal[o].deadlineOver
    /\ Used(o) # {}
    /\ \A n \in Used(o) : journal[o].resources[n].id /\ journal[o].resources[n].presence

\* reconcileLocalCleanup holds the directory's and the journal's lock from the
\* first read to the commit.
ReconcileLocalCleanup(o) ==
    /\ sup.step = "OFF"
    /\ Eligible(o)
    /\ \A n \in Used(o) : <<o, n>> \notin containers
    /\ journal' = [journal EXCEPT ![o].closure = TRUE, ![o].done = TRUE]
    /\ UNCHANGED <<sup, dog, clean, pending, containers, made, faults>>

\* The daemon makes a container or gives the create up.
DaemonCreates(p) ==
    /\ p \in pending
    /\ pending' = pending \ {p}
    /\ \/ containers' = containers \union {p} /\ made' = made \union {p}
       \/ UNCHANGED <<containers, made>>
    /\ UNCHANGED <<journal, sup, dog, clean, faults>>

\* The lease of a done journal is never looked at again.
LeaseRunsOut(o) ==
    /\ journal[o].exists /\ ~journal[o].done /\ ~journal[o].leaseOver
    /\ journal' = [journal EXCEPT ![o].leaseOver = TRUE]
    /\ UNCHANGED <<sup, dog, clean, pending, containers, made, faults>>

DeadlinePasses(o) ==
    /\ journal[o].exists /\ ~journal[o].deadlineOver
    /\ journal' = [journal EXCEPT ![o].deadlineOver = TRUE]
    /\ UNCHANGED <<sup, dog, clean, pending, containers, made, faults>>

-----------------------------------------------------------------------------
Init ==
    /\ journal = [o \in Owners |-> NoJournal]
    /\ sup = Off
    /\ dog = [o \in Owners |-> "NONE"]
    /\ clean = [c \in Cleaners |-> Idle]
    /\ pending = {} /\ containers = {} /\ made = {}
    /\ faults = 0

Next ==
    \/ \E c \in Cleaners : cleanupWith(c)
    \/ \E c \in Cleaners : Abort(c)
    \/ RunOne
    \/ \E o \in Owners : Recover(o)
    \/ ClaimNothing
    \/ \E o \in Owners : Claim(o)
    \/ startWatchdog \/ StartCall \/ Heartbeat
    \/ beginResource \/ createResource \/ completeCreate \/ execute
    \/ PrepareReport \/ DeferredCleanup \/ SupervisorDies
    \/ \E o \in Owners : WatchdogTick(o)
    \/ \E o \in Owners : WatchdogDies(o)
    \/ \E o \in Owners : ReconcileLocalCleanup(o)
    \/ \E p \in pending : DaemonCreates(p)
    \/ \E o \in Owners : LeaseRunsOut(o)
    \/ \E o \in Owners : DeadlinePasses(o)

Spec == Init /\ [][Next]_vars

\* Watchdogs keep running and the daemon finishes what it accepted; nothing is
\* assumed of the supervisor.
FairSpec ==
    /\ Spec
    /\ \A o \in Owners : WF_vars(WatchdogTick(o)) /\ WF_vars(cleanupWith(o))
    /\ WF_vars(\E p \in pending : DaemonCreates(p))

-----------------------------------------------------------------------------
(***************************************************************************)
(* Properties                                                              *)
(***************************************************************************)

\* No manufactured Done: a journal that is done, by a cleanup or by an
\* operator's closure, has no container left, no create that may still take
\* effect and no supervisor about to issue one.
DoneMeansGone ==
    \A o \in Owners : journal[o].done =>
        /\ \A n \in Names : <<o, n>> \notin containers \union pending
        /\ ~(sup.owner = o /\ sup.step = "BEGUN")

\* While a supervisor holds a job, nothing of another job runs on the host or
\* may still appear there, whoever died and whatever came late.
AloneOnHost ==
    \A p \in containers \union pending : sup.owner \in {NoOwner, p[1]}

\* Past its deadline no job keeps a container: the watchdog removes what is
\* there and what appears late, even if the supervisor was killed, unless the
\* watchdog is killed too.
DeadlineReaps ==
    \A o \in Owners :
        journal[o].deadlineOver /\ dog[o] # "NONE"
          ~> \/ dog[o] = "KILLED"
             \/ \A n \in Names : <<o, n>> \notin containers \union pending

=============================================================================
