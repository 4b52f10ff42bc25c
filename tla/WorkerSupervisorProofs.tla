------------------------ MODULE WorkerSupervisorProofs ------------------------
(***************************************************************************)
(* Proofs about WorkerSupervisor, for every set of jobs a host runs and    *)
(* any number of cleanups that fail half-way.                              *)
(***************************************************************************)
EXTENDS WorkerSupervisor, TLAPS

-----------------------------------------------------------------------------
(***************************************************************************)
(* Types                                                                   *)
(***************************************************************************)

Resources ==
    [state : {"NONE", "CREATING", "CREATE_UNCERTAIN", "CREATED", "REMOVED"},
     id : BOOLEAN, presence : BOOLEAN]

Journals ==
    [exists : BOOLEAN, done : BOOLEAN, closure : BOOLEAN,
     leaseOver : BOOLEAN, deadlineOver : BOOLEAN,
     resources : [Names -> Resources], report : {"NONE", "PASSED", "FAILED"}]

Supervisors ==
    [step : {"OFF", "RECOVER", "JOURNALLED", "WATCHED", "READY", "BEGUN", "CREATING",
             "EXEC", "REPORT", "CLEANUP"},
     owner : Owners \union {NoOwner}, visit : SUBSET Owners, name : Names,
     cancelled : BOOLEAN, result : {"PASSED", "FAILED"}]

Cleanups ==
    [step : {"IDLE", "MARK", "FIND", "NOTE_ID", "PROBE", "NOTE_PRESENCE", "REMOVE", "RECORD"},
     file : Owners \union {NoOwner}, resources : [Names -> Resources],
     todo : SUBSET Names, proof : BOOLEAN]

DogSteps == {"NONE", "ARMED", "CLEANING", "GONE", "KILLED"}

TypeOK ==
    /\ journal \in [Owners -> Journals]
    /\ sup \in Supervisors
    /\ dog \in [Owners -> DogSteps]
    /\ clean \in [Cleaners -> Cleanups]
    /\ pending \subseteq Owners \X Names
    /\ containers \subseteq Owners \X Names
    /\ made \subseteq Owners \X Names
    /\ faults \in Nat

-----------------------------------------------------------------------------
(***************************************************************************)
(* The inductive invariant                                                 *)
(***************************************************************************)

\* A container is made by one create, and what exists was made.
DaemonOK == containers \subseteq made /\ made \intersect pending = {}

\* What a journal says of container p, created by the owner of the journal.
ResourceOK(r, p) ==
    /\ r.id => p \in made
    /\ r.state = "NONE" => p \notin made \union pending
    /\ r.state = "CREATED" => p \in made
    /\ r.state = "REMOVED" => p \in made \ containers

JournalOK(o, j) ==
    \A n \in Names :
       /\ ResourceOK(j.resources[n], <<o, n>>)
       /\ j.resources[n].state # "NONE" => j.exists

\* A supervisor that recovers has a journal before it, or the journal is done;
\* an intent it is about to act on was never acted on.
SupervisorOK(s) ==
    /\ s.step \in {"OFF", "RECOVER"} <=> s.owner = NoOwner
    /\ s.owner # NoOwner => journal[s.owner].exists
    /\ s.step = "BEGUN" =>
         /\ journal[s.owner].resources[s.name].state \in {"CREATING", "CREATE_UNCERTAIN"}
         /\ <<s.owner, s.name>> \notin made \union pending
    /\ s.step = "RECOVER" =>
         \A o \in Owners : journal[o].exists => o \in s.visit \/ journal[o].done

\* A cleanup goes past the search only for a container that was made, and
\* records only what is no longer there.
Target(k) == <<k.file, First(k.todo)>>

CleanupOK(k) ==
    k.step # "IDLE" =>
      /\ k.file \in Owners
      /\ \A n \in Names : k.resources[n].id => <<k.file, n>> \in made
      /\ k.todo # {} =>
           /\ k.step \notin {"MARK", "FIND"} =>
                Target(k) \in made
           /\ k.step = "RECORD" => Target(k) \notin containers

Inv ==
    /\ TypeOK
    /\ DaemonOK
    /\ \A o \in Owners : JournalOK(o, journal[o])
    /\ SupervisorOK(sup)
    /\ \A c \in Cleaners : CleanupOK(clean[c])
    /\ DoneMeansGone
    /\ AloneOnHost

-----------------------------------------------------------------------------
(***************************************************************************)
(* The parts of a state                                                    *)
(***************************************************************************)

LEMMA FirstIsMember ==
    ASSUME NEW names \in SUBSET Names, names # {}
    PROVE  First(names) \in names /\ First(names) \in Names
  BY SupervisorAssumption DEF First

LEMMA CheckIsName == "check" \in Names
  BY SupervisorAssumption

LEMMA NobodyIsNoOwner ==
    ASSUME NEW o \in Owners
    PROVE  o # NoOwner
  BY SupervisorAssumption

LEMMA IdleOK == Idle \in Cleanups /\ CleanupOK(Idle)
  <1>1. NoResource \in Resources
    BY DEF NoResource, Resources
  <1>2. NoJournal.resources \in [Names -> Resources]
    BY <1>1 DEF NoJournal
  <1>3. Idle \in Cleanups
    BY <1>2 DEF Idle, Cleanups
  <1> QED
    BY <1>3 DEF Idle, CleanupOK

LEMMA OffOK == Off \in Supervisors /\ SupervisorOK(Off)
  BY CheckIsName DEF Off, Supervisors, SupervisorOK

LEMMA JournalIs ==
    ASSUME Inv, NEW o \in Owners
    PROVE  /\ journal[o] \in Journals /\ JournalOK(o, journal[o])
           /\ \A n \in Names : /\ journal[o].resources[n] \in Resources
                               /\ ResourceOK(journal[o].resources[n], <<o, n>>)
  <1>1. journal[o] \in Journals /\ JournalOK(o, journal[o])
    BY DEF Inv, TypeOK
  <1>2. journal[o].resources \in [Names -> Resources]
    BY <1>1 DEF Journals
  <1> QED
    BY <1>1, <1>2 DEF JournalOK

LEMMA CleanupIs ==
    ASSUME Inv, NEW c \in Cleaners
    PROVE  clean[c] \in Cleanups /\ CleanupOK(clean[c])
  BY DEF Inv, TypeOK

\* The resource a cleanup works on, in the journal and in its snapshot.
LEMMA EntryIs ==
    ASSUME Inv, NEW c \in Cleaners, clean[c].step # "IDLE", clean[c].todo # {}
    PROVE  /\ clean[c].file \in Owners /\ Current(c) \in Names /\ Current(c) \in clean[c].todo
           /\ Entry(c) \in Resources /\ ResourceOK(Entry(c), Container(c))
           /\ Snapshot(c) \in Resources /\ (Snapshot(c).id => Container(c) \in made)
           /\ Target(clean[c]) = Container(c)
  <1>1. clean[c] \in Cleanups /\ CleanupOK(clean[c])
    BY CleanupIs
  <1>2. clean[c].file \in Owners /\ Current(c) \in Names /\ Current(c) \in clean[c].todo
    BY <1>1, FirstIsMember DEF Current, CleanupOK, Cleanups
  <1>3. Entry(c) \in Resources /\ ResourceOK(Entry(c), Container(c))
    BY <1>2, JournalIs DEF Entry, Container
  <1>4. Snapshot(c) \in Resources /\ (Snapshot(c).id => Container(c) \in made)
    BY <1>1, <1>2 DEF Snapshot, Cleanups, CleanupOK, Container
  <1>5. Target(clean[c]) = Container(c)
    BY DEF Target, Container, Current
  <1> QED
    BY <1>2, <1>3, <1>4, <1>5

\* What a cleanup starts with is true.
LEMMA OpenedOK ==
    ASSUME Inv, NEW o \in Owners
    PROVE  OpenedBy(o) \in Cleanups /\ CleanupOK(OpenedBy(o))
  <1>1. journal[o].resources \in [Names -> Resources]
    BY JournalIs DEF Journals
  <1>2. OpenedBy(o) \in Cleanups
    BY <1>1 DEF OpenedBy, Cleanups
  <1>3. CleanupOK(OpenedBy(o))
    BY JournalIs DEF OpenedBy, CleanupOK, ResourceOK
  <1> QED
    BY <1>2, <1>3

\* A container that exists or may still appear is in a journal that is not done.
LEMMA ThereIsAJournal ==
    ASSUME Inv, NEW o \in Owners, NEW n \in Names, <<o, n>> \in containers \union pending
    PROVE  journal[o].exists /\ ~journal[o].done
  <1>1. <<o, n>> \in made \union pending
    BY DEF Inv, DaemonOK
  <1>2. journal[o].resources[n].state # "NONE"
    BY <1>1, JournalIs DEF ResourceOK
  <1>3. journal[o].exists
    BY <1>2, JournalIs DEF JournalOK
  <1>4. ~journal[o].done
    BY DEF Inv, DoneMeansGone
  <1> QED
    BY <1>3, <1>4

-----------------------------------------------------------------------------
(***************************************************************************)
(* Steps that leave the daemon and what the journals say of it alone       *)
(***************************************************************************)

SameMeaning(j, i) == j.exists = i.exists /\ j.done = i.done /\ j.resources = i.resources

LEMMA QuietStep ==
    ASSUME Inv,
           NEW s \in Supervisors, SupervisorOK(s), sup' = s,
           s.owner \in {NoOwner, sup.owner},
           s.step = "BEGUN" => sup.step = "BEGUN" /\ s.owner = sup.owner,
           journal' \in [Owners -> Journals],
           \A o \in Owners : SameMeaning(journal'[o], journal[o]),
           dog' \in [Owners -> DogSteps],
           clean' \in [Cleaners -> Cleanups],
           \A c \in Cleaners : CleanupOK(clean'[c]),
           faults' \in Nat,
           UNCHANGED <<pending, containers, made>>
    PROVE  Inv'
  <1>1. TypeOK'
    BY DEF Inv, TypeOK
  <1>2. DaemonOK'
    BY DEF Inv, DaemonOK
  <1>3. (\A o \in Owners : JournalOK(o, journal[o]))'
    <2>1. ASSUME NEW o \in Owners PROVE JournalOK(o, journal'[o])
      BY <2>1 DEF Inv, JournalOK, SameMeaning
    <2> QED
      BY <2>1 DEF JournalOK, ResourceOK
  <1>4. SupervisorOK(sup)'
    <2>1. SupervisorOK(s)
      OBVIOUS
    <2>2. s.owner # NoOwner => s.owner \in Owners
      BY DEF Supervisors
    <2> QED
      BY <2>1, <2>2 DEF SupervisorOK, SameMeaning
  <1>5. (\A c \in Cleaners : CleanupOK(clean[c]))'
    BY DEF CleanupOK, Target
  <1>6. DoneMeansGone'
    BY DEF Inv, DoneMeansGone, SameMeaning
  <1>7. AloneOnHost'
    BY DEF Inv, AloneOnHost
  <1> QED
    BY <1>1, <1>2, <1>3, <1>4, <1>5, <1>6, <1>7 DEF Inv

\* The variables of a step that is only a cleanup's or only a supervisor's.
LEMMA CleanupStep ==
    ASSUME Inv, NEW c \in Cleaners, NEW k \in Cleanups, CleanupOK(k),
           clean' = [clean EXCEPT ![c] = k],
           UNCHANGED <<journal, sup, pending, containers, made>>,
           dog' \in [Owners -> DogSteps], faults' \in Nat
    PROVE  Inv'
  <1>1. clean' \in [Cleaners -> Cleanups]
    BY DEF Inv, TypeOK
  <1>2. ASSUME NEW d \in Cleaners PROVE CleanupOK(clean'[d])
    <2>1. CASE d = c
      BY <2>1 DEF Inv, TypeOK
    <2>2. CASE d # c
      BY <2>2, CleanupIs DEF Inv, TypeOK
    <2> QED
      BY <2>1, <2>2
  <1>3. sup \in Supervisors /\ SupervisorOK(sup) /\ journal \in [Owners -> Journals]
    BY DEF Inv, TypeOK
  <1> QED
    BY <1>1, <1>2, <1>3, QuietStep DEF SameMeaning

LEMMA SupervisorStep ==
    ASSUME Inv, NEW s \in Supervisors, SupervisorOK(s), sup' = s,
           s.owner \in {NoOwner, sup.owner},
           s.step = "BEGUN" => sup.step = "BEGUN" /\ s.owner = sup.owner,
           journal' \in [Owners -> Journals],
           \A o \in Owners : SameMeaning(journal'[o], journal[o]),
           dog' \in [Owners -> DogSteps],
           UNCHANGED <<clean, pending, containers, made, faults>>
    PROVE  Inv'
  <1>1. clean' \in [Cleaners -> Cleanups] /\ faults' \in Nat
    BY DEF Inv, TypeOK
  <1>2. \A c \in Cleaners : CleanupOK(clean'[c])
    BY CleanupIs
  <1> QED
    BY <1>1, <1>2, QuietStep

\* One field of a journal that says nothing of its containers changes.
LEMMA NoteInJournal ==
    ASSUME Inv, NEW o \in Owners, NEW j \in Journals, SameMeaning(j, journal[o]),
           journal' = [journal EXCEPT ![o] = j]
    PROVE  /\ journal' \in [Owners -> Journals]
           /\ \A p \in Owners : SameMeaning(journal'[p], journal[p])
  BY DEF Inv, TypeOK, SameMeaning

\* A cleanup that fails.
LEMMA FailedCleanup ==
    ASSUME Inv, NEW c \in Cleaners, Ended(c, FALSE), clean[c].step # "IDLE",
           UNCHANGED <<journal, pending, containers, made>>, faults' \in Nat
    PROVE  Inv'
  <1>1. CASE c = Supervisor
    <2>1. sup' = Off /\ dog' = dog /\ clean' = [clean EXCEPT ![c] = Idle]
      BY <1>1 DEF Ended
    <2>2. clean' \in [Cleaners -> Cleanups] /\ \A d \in Cleaners : CleanupOK(clean'[d])
      BY <2>1, IdleOK, CleanupIs DEF Inv, TypeOK
    <2>3. Off.owner = NoOwner /\ Off.step # "BEGUN"
      BY DEF Off
    <2>4. journal' \in [Owners -> Journals] /\ dog' \in [Owners -> DogSteps]
      BY <2>1 DEF Inv, TypeOK
    <2> QED
      BY <2>1, <2>2, <2>3, <2>4, OffOK, QuietStep DEF SameMeaning
  <1>2. CASE c # Supervisor
    <2>1. sup' = sup /\ dog' = [dog EXCEPT ![c] = "ARMED"] /\ clean' = [clean EXCEPT ![c] = Idle]
      BY <1>2 DEF Ended
    <2>2. dog' \in [Owners -> DogSteps]
      BY <2>1 DEF Inv, TypeOK, DogSteps
    <2> QED
      BY <2>1, <2>2, IdleOK, CleanupStep
  <1> QED
    BY <1>1, <1>2

-----------------------------------------------------------------------------
(***************************************************************************)
(* A journal records something of a container                              *)
(***************************************************************************)

\* An entry e that may take the place of r without losing or inventing anything.
Replaces(e, r, p) ==
    /\ ResourceOK(e, p)
    /\ r.state \in {"CREATING", "CREATE_UNCERTAIN"}
         => e.state \in {"CREATING", "CREATE_UNCERTAIN"} \/ p \in made

LEMMA EntryStep ==
    ASSUME Inv, NEW o \in Owners, NEW n \in Names, NEW e \in Resources,
           Replaces(e, journal[o].resources[n], <<o, n>>), e.state # "NONE" => journal[o].exists,
           SetResource(o, n, e),
           NEW s \in Supervisors, sup' = s,
           s.owner = sup.owner, s.visit = sup.visit,
           s.step \in {"OFF", "RECOVER"} <=> sup.step \in {"OFF", "RECOVER"},
           s.step = "RECOVER" => sup.step = "RECOVER",
           s.step = "BEGUN" => s = sup,
           clean' \in [Cleaners -> Cleanups],
           \A c \in Cleaners : CleanupOK(clean'[c]),
           UNCHANGED <<dog, pending, containers, made, faults>>
    PROVE  Inv'
  <1>1. PICK j \in Journals : j = journal'[o]
    <2>1. [journal[o].resources EXCEPT ![n] = e] \in [Names -> Resources]
      BY JournalIs DEF Journals
    <2>2. [journal[o] EXCEPT !.resources[n] = e] \in Journals
      BY <2>1, JournalIs DEF Journals
    <2> QED
      BY <2>2 DEF SetResource, Inv, TypeOK
  <1>2. journal' = [journal EXCEPT ![o] = j]
    BY <1>1 DEF SetResource, Inv, TypeOK
  <1>3. /\ j.exists = journal[o].exists /\ j.done = journal[o].done
        /\ j.resources[n] = e
        /\ \A m \in Names \ {n} : j.resources[m] = journal[o].resources[m]
    <2>1. j = [journal[o] EXCEPT !.resources[n] = e]
      BY <1>1 DEF SetResource, Inv, TypeOK
    <2>2. journal[o].resources \in [Names -> Resources]
      BY JournalIs DEF Journals
    <2> QED
      BY <2>1, <2>2, JournalIs DEF Journals
  <1>4. \A p \in Owners : p # o => journal'[p] = journal[p]
    BY <1>2 DEF Inv, TypeOK
  <1>5. \A p \in Owners : journal'[p].exists = journal[p].exists /\ journal'[p].done = journal[p].done
    BY <1>1, <1>3, <1>4
  <1>6. TypeOK'
    BY <1>2 DEF Inv, TypeOK
  <1>7. DaemonOK'
    BY DEF Inv, DaemonOK
  <1>8. JournalOK(o, j)
    <2>1. e.state # "NONE" => j.exists
      BY <1>3
    <2> QED
      BY <1>3, <2>1, JournalIs DEF JournalOK, Replaces
  <1>9. (\A p \in Owners : JournalOK(p, journal[p]))'
    <2>1. ASSUME NEW p \in Owners PROVE JournalOK(p, journal'[p])
      BY <1>1, <1>4, <1>8, JournalIs
    <2> QED
      BY <2>1 DEF JournalOK, ResourceOK
  <1>10. SupervisorOK(sup)'
    <2>1. s.step \in {"OFF", "RECOVER"} <=> s.owner = NoOwner
      BY DEF Inv, SupervisorOK
    <2>2. s.owner # NoOwner => journal'[s.owner].exists
      BY <1>5 DEF Inv, SupervisorOK, Supervisors
    <2>3. ASSUME s.step = "BEGUN"
          PROVE  /\ journal'[s.owner].resources[s.name].state \in {"CREATING", "CREATE_UNCERTAIN"}
                 /\ <<s.owner, s.name>> \notin made \union pending
      <3>1. /\ s.owner \in Owners /\ s.name \in Names
            /\ journal[s.owner].resources[s.name].state \in {"CREATING", "CREATE_UNCERTAIN"}
            /\ <<s.owner, s.name>> \notin made \union pending
        BY <2>3 DEF Inv, SupervisorOK, Supervisors
      <3>2. CASE s.owner = o /\ s.name = n
        BY <3>1, <3>2, <1>1, <1>3 DEF Replaces
      <3>3. CASE s.owner # o \/ s.name # n
        BY <3>1, <3>3, <1>1, <1>3, <1>4
      <3> QED
        BY <3>1, <3>2, <3>3
    <2>4. s.step = "RECOVER" => \A p \in Owners : journal'[p].exists => p \in s.visit \/ journal'[p].done
      BY <1>5 DEF Inv, SupervisorOK
    <2> QED
      BY <2>1, <2>2, <2>3, <2>4 DEF SupervisorOK
  <1>11. (\A c \in Cleaners : CleanupOK(clean[c]))'
    BY DEF CleanupOK, Target
  <1>12. DoneMeansGone'
    BY <1>5 DEF Inv, DoneMeansGone
  <1>13. AloneOnHost'
    BY DEF Inv, AloneOnHost
  <1> QED
    BY <1>6, <1>7, <1>9, <1>10, <1>11, <1>12, <1>13 DEF Inv

-----------------------------------------------------------------------------
(***************************************************************************)
(* A cleanup                                                               *)
(***************************************************************************)

\* A cleanup updates the journal, or cannot and fails.
LEMMA ChangeStep ==
    ASSUME Inv, NEW c \in Cleaners, clean[c].step # "IDLE", clean[c].todo # {},
           NEW e \in Resources, NEW k \in Cleanups, CleanupOK(k), Change(c, e, k),
           Replaces(e, Entry(c), Container(c)),
           e.state # "NONE" => Entry(c).state # "NONE"
    PROVE  Inv'
  <1>1. UNCHANGED <<pending, containers, made, faults>>
    BY DEF Change
  <1>2. PICK o \in Owners, n \in Names : o = clean[c].file /\ n = Current(c)
    BY EntryIs
  <1>3. CASE /\ SetResource(o, n, e)
             /\ clean' = [clean EXCEPT ![c] = k]
             /\ UNCHANGED <<sup, dog>>
    <2>1. clean' \in [Cleaners -> Cleanups] /\ \A d \in Cleaners : CleanupOK(clean'[d])
      BY <1>3, CleanupIs DEF Inv, TypeOK
    <2>2. journal[o].resources[n] = Entry(c) /\ Container(c) = <<o, n>>
      BY <1>2 DEF Entry, Container
    <2>3. e.state # "NONE" => journal[o].exists
      BY <2>2, JournalIs DEF JournalOK
    <2>4. sup \in Supervisors
      BY DEF Inv, TypeOK
    <2> QED
      BY <1>1, <1>3, <2>1, <2>2, <2>3, <2>4, EntryStep
  <1>4. CASE journal' = journal /\ Ended(c, FALSE)
    <2>1. faults' \in Nat
      BY <1>1 DEF Inv, TypeOK
    <2> QED
      BY <1>1, <1>4, <2>1, FailedCleanup
  <1> QED
    BY <1>2, <1>3, <1>4 DEF Change

\* What the next step of a cleanup is.
LEMMA NextStepIs ==
    ASSUME Inv, NEW c \in Cleaners, clean[c].step # "IDLE"
    PROVE  /\ \A step \in {"MARK", "FIND", "NOTE_ID", "PROBE", "NOTE_PRESENCE", "REMOVE", "RECORD"} :
                 At(step, c) \in Cleanups
           /\ CleanupOK(At("MARK", c)) /\ CleanupOK(At("FIND", c))
           /\ clean[c].todo # {} => Passed(c) \in Cleanups /\ CleanupOK(Passed(c))
           /\ clean[c].todo # {} /\ Container(c) \in made =>
                 /\ \A step \in {"NOTE_ID", "PROBE", "NOTE_PRESENCE", "REMOVE"} :
                       CleanupOK(At(step, c))
                 /\ Container(c) \notin containers => CleanupOK(At("RECORD", c))
  <1>1. PICK k \in Cleanups : k = clean[c]
    BY CleanupIs
  <1>2. k.file \in Owners /\ (\A n \in Names : k.resources[n].id => <<k.file, n>> \in made)
    BY <1>1, CleanupIs DEF CleanupOK
  <1>3. ASSUME NEW step \in {"MARK", "FIND", "NOTE_ID", "PROBE", "NOTE_PRESENCE", "REMOVE", "RECORD"}
        PROVE  /\ At(step, c) \in Cleanups
               /\ At(step, c).step = step /\ At(step, c).file = k.file
               /\ At(step, c).resources = k.resources /\ At(step, c).todo = k.todo
    <2>1. At(step, c) = [k EXCEPT !.step = step]
      BY <1>1 DEF At
    <2> QED
      BY <2>1 DEF Cleanups
  <1>4. CleanupOK(At("MARK", c)) /\ CleanupOK(At("FIND", c))
    BY <1>2, <1>3 DEF CleanupOK
  <1>5. ASSUME k.todo # {}
        PROVE  Passed(c) \in Cleanups /\ CleanupOK(Passed(c))
    <2>1. Passed(c) = [k EXCEPT !.step = "MARK", !.todo = @ \ {Current(c)}]
      BY <1>1 DEF Passed
    <2>2. /\ Passed(c) \in Cleanups /\ Passed(c).step = "MARK"
          /\ Passed(c).file = k.file /\ Passed(c).resources = k.resources
      BY <2>1 DEF Cleanups
    <2> QED
      BY <1>2, <2>2 DEF CleanupOK
  <1>6. ASSUME k.todo # {}, Container(c) \in made,
               NEW step \in {"NOTE_ID", "PROBE", "NOTE_PRESENCE", "REMOVE", "RECORD"},
               step = "RECORD" => Container(c) \notin containers
        PROVE  CleanupOK(At(step, c))
    <2>1. Target(At(step, c)) = Container(c)
      BY <1>1, <1>3, <1>6 DEF Target, Container, Current
    <2> QED
      BY <1>2, <1>3, <1>6, <2>1 DEF CleanupOK
  <1> QED
    BY <1>1, <1>3, <1>4, <1>5, <1>6

LEMMA MarkStep ==
    ASSUME Inv, NEW c \in Cleaners, Mark(c)
    PROVE  Inv'
  <1>1. clean[c].step # "IDLE" /\ clean[c].todo # {}
    BY DEF Mark, AtStep
  <1>2. PICK r \in Resources : r = Entry(c) /\ ResourceOK(r, Container(c))
    BY <1>1, EntryIs
  <1>3. PICK e : e = IF Snapshot(c).state = "CREATING" /\ Entry(c).state = "CREATING"
                     THEN [Entry(c) EXCEPT !.state = "CREATE_UNCERTAIN"] ELSE Entry(c)
    OBVIOUS
  <1>4. e \in Resources /\ Replaces(e, Entry(c), Container(c)) /\ (e.state # "NONE" => r.state # "NONE")
    <2>1. CASE e = [r EXCEPT !.state = "CREATE_UNCERTAIN"] /\ r.state = "CREATING"
      <3>1. e \in Resources /\ e.id = r.id /\ e.state = "CREATE_UNCERTAIN"
        BY <2>1 DEF Resources
      <3> QED
        BY <1>2, <2>1, <3>1 DEF Replaces, ResourceOK
    <2>2. CASE e = r
      BY <1>2, <2>2 DEF Replaces, ResourceOK
    <2> QED
      BY <1>2, <1>3, <2>1, <2>2
  <1>5. PICK k : k = At(IF Snapshot(c).id THEN "PROBE" ELSE "FIND", c)
    OBVIOUS
  <1>6. k \in Cleanups /\ CleanupOK(k)
    <2>1. CASE Snapshot(c).id
      <3>1. k = At("PROBE", c) /\ Container(c) \in made
        BY <1>1, <1>5, <2>1, EntryIs
      <3>2. At("PROBE", c) \in Cleanups /\ CleanupOK(At("PROBE", c))
        BY <1>1, <3>1, NextStepIs
      <3> QED
        BY <3>1, <3>2
    <2>2. CASE ~Snapshot(c).id
      BY <1>1, <1>5, <2>2, NextStepIs
    <2> QED
      BY <2>1, <2>2
  <1>7. Change(c, e, k)
    BY <1>3, <1>5 DEF Mark
  <1> QED
    BY <1>1, <1>2, <1>4, <1>6, <1>7, ChangeStep

LEMMA FindStep ==
    ASSUME Inv, NEW c \in Cleaners, Find(c)
    PROVE  Inv'
  <1>1. clean[c].step # "IDLE" /\ clean[c].todo # {}
    BY DEF Find, AtStep
  <1>2. dog' \in [Owners -> DogSteps] /\ faults' \in Nat
    BY DEF Find, Inv, TypeOK
  <1>3. CASE Container(c) \in containers
    <2>1. Container(c) \in made
      BY <1>3 DEF Inv, DaemonOK
    <2>2. At("NOTE_ID", c) \in Cleanups /\ CleanupOK(At("NOTE_ID", c))
      BY <1>1, <2>1, NextStepIs
    <2>3. clean' = [clean EXCEPT ![c] = At("NOTE_ID", c)]
      BY <1>3 DEF Find
    <2> QED
      BY <1>2, <2>2, <2>3, CleanupStep DEF Find
  <1>4. CASE Container(c) \notin containers
    <2>1. Passed(c) \in Cleanups /\ CleanupOK(Passed(c))
      BY <1>1, NextStepIs
    <2>2. clean' = [clean EXCEPT ![c] = Passed(c)]
      BY <1>4 DEF Find
    <2> QED
      BY <1>2, <2>1, <2>2, CleanupStep DEF Find
  <1> QED
    BY <1>3, <1>4

\* Past the search a cleanup works on a container that was made.
LEMMA WorksOnMade ==
    ASSUME Inv, NEW c \in Cleaners, clean[c].step \notin {"IDLE", "MARK", "FIND"}, clean[c].todo # {}
    PROVE  /\ Container(c) \in made
           /\ clean[c].step = "RECORD" => Container(c) \notin containers
           /\ Entry(c).state # "NONE"
  <1>1. CleanupOK(clean[c]) /\ Target(clean[c]) = Container(c)
    BY CleanupIs, EntryIs
  <1>2. Container(c) \in made
    BY <1>1 DEF CleanupOK
  <1>3. ResourceOK(Entry(c), Container(c))
    BY EntryIs
  <1> QED
    BY <1>1, <1>2, <1>3 DEF CleanupOK, ResourceOK

LEMMA NoteIdStep ==
    ASSUME Inv, NEW c \in Cleaners, NoteId(c)
    PROVE  Inv'
  <1>1. clean[c].step = "NOTE_ID" /\ clean[c].todo # {}
    BY DEF NoteId, AtStep
  <1>2. PICK r \in Resources : r = Entry(c) /\ ResourceOK(r, Container(c))
    BY <1>1, EntryIs
  <1>3. PICK e : e = [r EXCEPT !.id = TRUE]
    OBVIOUS
  <1>4. e \in Resources /\ e.id /\ e.state = r.state
    BY <1>3 DEF Resources
  <1>5. Replaces(e, Entry(c), Container(c)) /\ (e.state # "NONE" => Entry(c).state # "NONE")
    BY <1>1, <1>2, <1>4, WorksOnMade DEF Replaces, ResourceOK
  <1>6. At("PROBE", c) \in Cleanups /\ CleanupOK(At("PROBE", c))
    BY <1>1, WorksOnMade, NextStepIs
  <1>7. Change(c, e, At("PROBE", c))
    BY <1>2, <1>3 DEF NoteId
  <1> QED
    BY <1>1, <1>4, <1>5, <1>6, <1>7, ChangeStep

LEMMA ProbeStep ==
    ASSUME Inv, NEW c \in Cleaners, NEW attested \in BOOLEAN, Probe(c, attested)
    PROVE  Inv'
  <1>1. clean[c].step = "PROBE" /\ clean[c].todo # {}
    BY DEF Probe, AtStep
  <1>2. dog' \in [Owners -> DogSteps] /\ faults' \in Nat
    BY DEF Probe, Inv, TypeOK
  <1>3. Container(c) \in made
    BY <1>1, WorksOnMade
  <1>4. PICK k : /\ clean' = [clean EXCEPT ![c] = k]
                 /\ k = IF Container(c) \notin containers THEN At("RECORD", c)
                        ELSE IF Snapshot(c).presence THEN At("REMOVE", c)
                        ELSE [At("NOTE_PRESENCE", c) EXCEPT !.proof = attested]
    BY DEF Probe
  <1>5. k \in Cleanups /\ CleanupOK(k)
    <2>1. CASE Container(c) \notin containers
      BY <1>1, <1>3, <1>4, <2>1, NextStepIs
    <2>2. CASE k = At("REMOVE", c)
      BY <1>1, <1>3, <2>2, NextStepIs
    <2>3. CASE k = [At("NOTE_PRESENCE", c) EXCEPT !.proof = attested]
      <3>1. PICK h \in Cleanups : h = At("NOTE_PRESENCE", c) /\ CleanupOK(h)
        BY <1>1, <1>3, NextStepIs
      <3>2. /\ k \in Cleanups /\ k.step = h.step /\ k.file = h.file
            /\ k.resources = h.resources /\ k.todo = h.todo
        BY <2>3, <3>1 DEF Cleanups
      <3> QED
        BY <3>1, <3>2 DEF CleanupOK, Target
    <2> QED
      BY <1>4, <2>1, <2>2, <2>3
  <1> QED
    BY <1>2, <1>4, <1>5, CleanupStep DEF Probe

LEMMA NotePresenceStep ==
    ASSUME Inv, NEW c \in Cleaners, NotePresence(c)
    PROVE  Inv'
  <1>1. clean[c].step = "NOTE_PRESENCE" /\ clean[c].todo # {}
    BY DEF NotePresence, AtStep
  <1>2. PICK r \in Resources : r = Entry(c) /\ ResourceOK(r, Container(c))
    BY <1>1, EntryIs
  <1>3. PICK b \in BOOLEAN : b = (r.presence \/ (clean[c].proof /\ r.id))
    OBVIOUS
  <1>4. PICK e : e = [r EXCEPT !.presence = @ \/ (clean[c].proof /\ r.id)]
    OBVIOUS
  <1>5. e \in Resources /\ e.id = r.id /\ e.state = r.state
    BY <1>4 DEF Resources
  <1>6. Replaces(e, Entry(c), Container(c)) /\ (e.state # "NONE" => Entry(c).state # "NONE")
    BY <1>1, <1>2, <1>5, WorksOnMade DEF Replaces, ResourceOK
  <1>7. PICK h \in Cleanups : h = At("REMOVE", c) /\ CleanupOK(h)
    BY <1>1, WorksOnMade, NextStepIs
  <1>8. PICK k : k = [h EXCEPT !.proof = FALSE]
    OBVIOUS
  <1>9. /\ k \in Cleanups /\ k.step = h.step /\ k.file = h.file
        /\ k.resources = h.resources /\ k.todo = h.todo
    BY <1>7, <1>8 DEF Cleanups
  <1>10. CleanupOK(k)
    BY <1>7, <1>9 DEF CleanupOK, Target
  <1>11. Change(c, e, k)
    BY <1>2, <1>4, <1>7, <1>8 DEF NotePresence
  <1> QED
    BY <1>1, <1>5, <1>6, <1>9, <1>10, <1>11, ChangeStep

LEMMA RecordStep ==
    ASSUME Inv, NEW c \in Cleaners, Record(c)
    PROVE  Inv'
  <1>1. clean[c].step = "RECORD" /\ clean[c].todo # {}
    BY DEF Record, AtStep
  <1>2. PICK r \in Resources : r = Entry(c) /\ ResourceOK(r, Container(c))
    BY <1>1, EntryIs
  <1>3. PICK e : e = [r EXCEPT !.state = IF @ = "CREATED" THEN "REMOVED" ELSE @]
    OBVIOUS
  <1>4. /\ e \in Resources /\ e.id = r.id
        /\ e.state = IF r.state = "CREATED" THEN "REMOVED" ELSE r.state
    BY <1>3 DEF Resources
  <1>5. Replaces(e, Entry(c), Container(c)) /\ (e.state # "NONE" => Entry(c).state # "NONE")
    BY <1>1, <1>2, <1>4, WorksOnMade DEF Replaces, ResourceOK
  <1>6. Passed(c) \in Cleanups /\ CleanupOK(Passed(c))
    BY <1>1, NextStepIs
  <1>7. Change(c, e, Passed(c))
    BY <1>2, <1>3 DEF Record
  <1> QED
    BY <1>1, <1>4, <1>5, <1>6, <1>7, ChangeStep

\* What a cleanup may be depends on the daemon only.
LEMMA RemoveStep ==
    ASSUME Inv, NEW c \in Cleaners, Remove(c)
    PROVE  Inv'
  <1>1. clean[c].step = "REMOVE" /\ clean[c].todo # {}
    BY DEF Remove, AtStep
  <1>2. PICK p \in Owners \X Names : p = Container(c) /\ p \in made
    BY <1>1, WorksOnMade, EntryIs DEF Container
  <1>3. PICK k \in Cleanups : k = At("RECORD", c)
    BY <1>1, NextStepIs
  <1>4. /\ clean' = [clean EXCEPT ![c] = k] /\ containers' = containers \ {p}
        /\ UNCHANGED <<journal, sup, dog, pending, made, faults>>
    BY <1>2, <1>3 DEF Remove
  <1>5. TypeOK'
    BY <1>4 DEF Inv, TypeOK
  <1>6. DaemonOK'
    BY <1>4 DEF Inv, DaemonOK
  <1>7. (\A o \in Owners : JournalOK(o, journal[o]))'
    BY <1>4 DEF Inv, JournalOK, ResourceOK
  <1>8. SupervisorOK(sup)'
    BY <1>4 DEF Inv, SupervisorOK
  <1>9. (\A d \in Cleaners : CleanupOK(clean[d]))'
    <2>1. CleanupOK(k)'
      <3>1. k = [clean[c] EXCEPT !.step = "RECORD"]
        BY <1>3 DEF At
      <3>2. /\ k.step = "RECORD" /\ k.file = clean[c].file
            /\ k.resources = clean[c].resources /\ k.todo = clean[c].todo
        BY <3>1, CleanupIs DEF Cleanups
      <3>3. Target(k) = p
        BY <1>2, <3>2 DEF Target, Container, Current
      <3>4. k.file \in Owners /\ \A n \in Names : k.resources[n].id => <<k.file, n>> \in made
        BY <1>1, <3>2, CleanupIs DEF CleanupOK
      <3> QED
        BY <1>2, <1>4, <3>2, <3>3, <3>4 DEF CleanupOK, Target
    <2>2. ASSUME NEW d \in Cleaners, d # c PROVE CleanupOK(clean[d])'
      BY <1>4, <2>2, CleanupIs DEF Inv, TypeOK, CleanupOK, Target
    <2>3. clean'[c] = k
      BY <1>4 DEF Inv, TypeOK
    <2> QED
      BY <2>1, <2>2, <2>3
  <1>10. DoneMeansGone'
    BY <1>4 DEF Inv, DoneMeansGone
  <1>11. AloneOnHost'
    BY <1>4 DEF Inv, AloneOnHost
  <1> QED
    BY <1>5, <1>6, <1>7, <1>8, <1>9, <1>10, <1>11 DEF Inv

\* A journal all of whose resources are removed or were never asked for is
\* the journal of a job of which nothing is left.
LEMMA RemovedIsGone ==
    ASSUME Inv, NEW o \in Owners,
           \A n \in Names : journal[o].resources[n].state \in {"NONE", "REMOVED"}
    PROVE  /\ \A n \in Names : <<o, n>> \notin containers \union pending
           /\ ~(sup.owner = o /\ sup.step = "BEGUN")
  <1>1. ASSUME NEW n \in Names PROVE <<o, n>> \notin containers \union pending
    BY JournalIs DEF ResourceOK, Inv, DaemonOK
  <1>2. ASSUME sup.owner = o, sup.step = "BEGUN" PROVE FALSE
    <2>1. sup.name \in Names
      BY DEF Inv, TypeOK, Supervisors
    <2> QED
      BY <1>2, <2>1 DEF Inv, SupervisorOK
  <1> QED
    BY <1>1, <1>2

\* A journal becomes done, and with it the cleanup that found nothing left.
LEMMA DoneStep ==
    ASSUME Inv, NEW o \in Owners, NEW j \in Journals,
           journal' = [journal EXCEPT ![o] = j],
           j.exists = journal[o].exists, j.resources = journal[o].resources, j.done,
           \A n \in Names : <<o, n>> \notin containers \union pending,
           NEW s \in Supervisors, sup' = s,
           s = Off \/ (s.step = sup.step /\ s.owner = sup.owner /\ s.name = sup.name
                       /\ sup.visit \subseteq s.visit \union {o}),
           ~(s.owner = o /\ s.step = "BEGUN"),
           dog' \in [Owners -> DogSteps], clean' \in [Cleaners -> Cleanups],
           \A c \in Cleaners : CleanupOK(clean'[c]),
           UNCHANGED <<pending, containers, made, faults>>
    PROVE  Inv'
  <1>1. /\ \A p \in Owners : /\ journal'[p].exists = journal[p].exists
                             /\ journal'[p].resources = journal[p].resources
                             /\ journal[p].done => journal'[p].done
        /\ \A p \in Owners \ {o} : journal'[p].done = journal[p].done
        /\ journal'[o].done
    BY DEF Inv, TypeOK
  <1>2. TypeOK'
    BY DEF Inv, TypeOK
  <1>3. DaemonOK'
    BY DEF Inv, DaemonOK
  <1>4. (\A p \in Owners : JournalOK(p, journal[p]))'
    <2>1. ASSUME NEW p \in Owners PROVE JournalOK(p, journal'[p])
      BY <1>1, <2>1 DEF Inv, JournalOK
    <2> QED
      BY <2>1 DEF JournalOK, ResourceOK
  <1>5. SupervisorOK(sup)'
    <2>1. CASE s = Off
      BY <2>1 DEF Off, SupervisorOK
    <2>2. CASE /\ s.step = sup.step /\ s.owner = sup.owner /\ s.name = sup.name
               /\ sup.visit \subseteq s.visit \union {o}
      <3>1. SupervisorOK(sup) /\ (sup.owner # NoOwner => sup.owner \in Owners)
        BY DEF Inv, TypeOK, Supervisors
      <3> QED
        BY <1>1, <2>2, <3>1 DEF SupervisorOK
    <2> QED
      BY <2>1, <2>2
  <1>6. (\A c \in Cleaners : CleanupOK(clean[c]))'
    BY DEF CleanupOK, Target
  <1>7. DoneMeansGone'
    <2>1. ASSUME NEW p \in Owners, journal'[p].done
          PROVE  /\ \A n \in Names : <<p, n>> \notin containers \union pending
                 /\ ~(s.owner = p /\ s.step = "BEGUN")
      <3>1. CASE p = o
        BY <3>1
      <3>2. CASE p # o
        BY <1>1, <2>1, <3>2 DEF Inv, DoneMeansGone, Off
      <3> QED
        BY <3>1, <3>2
    <2> QED
      BY <2>1 DEF DoneMeansGone
  <1>8. AloneOnHost'
    BY DEF Inv, AloneOnHost, Off
  <1> QED
    BY <1>2, <1>3, <1>4, <1>5, <1>6, <1>7, <1>8 DEF Inv

LEMMA FinishStep ==
    ASSUME Inv, NEW c \in Cleaners, Finish(c)
    PROVE  Inv'
  <1>1. PICK o \in Owners : o = clean[c].file
    BY CleanupIs DEF Finish, CleanupOK
  <1>2. clean[c].step # "IDLE" /\ UNCHANGED <<pending, containers, made, faults>> /\ faults' \in Nat
    BY DEF Finish, Inv, TypeOK
  <1>3. PICK ok \in BOOLEAN :
           ok = \A n \in Names : journal[o].resources[n].state \in {"NONE", "REMOVED"}
    OBVIOUS
  <1>4. /\ journal' = IF ok THEN [journal EXCEPT ![o].done = TRUE] ELSE journal
        /\ Ended(c, ok)
    BY <1>1, <1>3 DEF Finish
  <1>5. CASE ~ok
    BY <1>2, <1>4, <1>5, FailedCleanup
  <1>6. CASE ok
    <2>1. PICK j : j = [journal[o] EXCEPT !.done = TRUE]
      OBVIOUS
    <2>2. /\ j \in Journals /\ j.exists = journal[o].exists
          /\ j.resources = journal[o].resources /\ j.done
      BY <2>1, JournalIs DEF Journals
    <2>3. journal' = [journal EXCEPT ![o] = j]
      BY <1>4, <1>6, <2>1
    <2>4. /\ \A n \in Names : <<o, n>> \notin containers \union pending
          /\ ~(sup.owner = o /\ sup.step = "BEGUN")
      BY <1>3, <1>6, RemovedIsGone
    <2>5. clean' \in [Cleaners -> Cleanups] /\ \A d \in Cleaners : CleanupOK(clean'[d])
      BY <1>4, IdleOK, CleanupIs DEF Ended, Inv, TypeOK
    <2>6. dog' \in [Owners -> DogSteps]
      BY <1>4 DEF Ended, Inv, TypeOK, DogSteps
    <2>7. PICK s \in Supervisors :
             /\ sup' = s
             /\ \/ s = Off
                \/ /\ s.step = sup.step /\ s.owner = sup.owner /\ s.name = sup.name
                   /\ sup.visit \subseteq s.visit \union {o}
      <3>1. sup \in Supervisors
        BY DEF Inv, TypeOK
      <3>2. CASE sup' = [sup EXCEPT !.visit = @ \ {o}]
        <4>1. PICK s : s = [sup EXCEPT !.visit = @ \ {o}]
          OBVIOUS
        <4>2. /\ s \in Supervisors /\ s.step = sup.step /\ s.owner = sup.owner
              /\ s.name = sup.name /\ s.visit = sup.visit \ {o}
          BY <3>1, <4>1 DEF Supervisors
        <4> QED
          BY <3>2, <4>1, <4>2
      <3>3. CASE sup' = sup \/ sup' = Off
        BY <3>1, <3>3, OffOK
      <3> QED
        BY <1>1, <1>4, <1>6, <3>2, <3>3 DEF Ended
    <2>8. ~(s.owner = o /\ s.step = "BEGUN")
      BY <2>4, <2>7 DEF Off
    <2> QED
      BY <1>2, <2>2, <2>3, <2>4, <2>5, <2>6, <2>7, <2>8, DoneStep
  <1> QED
    BY <1>5, <1>6

LEMMA AbortStep ==
    ASSUME Inv, NEW c \in Cleaners, Abort(c)
    PROVE  Inv'
  <1>1. faults' \in Nat
    BY DEF Abort, Inv, TypeOK
  <1> QED
    BY <1>1, FailedCleanup DEF Abort

LEMMA CleanupPreserves ==
    ASSUME Inv, NEW c \in Cleaners, cleanupWith(c)
    PROVE  Inv'
  BY MarkStep, FindStep, NoteIdStep, ProbeStep, NotePresenceStep, RemoveStep,
     RecordStep, FinishStep DEF cleanupWith

-----------------------------------------------------------------------------
(***************************************************************************)
(* The supervisor                                                          *)
(***************************************************************************)

LEMMA SupervisorIs ==
    ASSUME Inv
    PROVE  /\ sup \in Supervisors /\ SupervisorOK(sup)
           /\ journal \in [Owners -> Journals] /\ dog \in [Owners -> DogSteps]
           /\ clean \in [Cleaners -> Cleanups] /\ faults \in Nat
           /\ sup.step \notin {"OFF", "RECOVER"} => sup.owner \in Owners /\ journal[sup.owner].exists
  BY DEF Inv, TypeOK, Supervisors, SupervisorOK

\* A supervisor that goes on with its job.
LEMMA JobStep ==
    ASSUME Inv, sup.step \notin {"OFF", "RECOVER"}, NEW s \in Supervisors, sup' = s,
           s.owner = sup.owner, s.step \notin {"OFF", "RECOVER", "BEGUN"},
           journal' \in [Owners -> Journals],
           \A o \in Owners : SameMeaning(journal'[o], journal[o]),
           dog' \in [Owners -> DogSteps],
           UNCHANGED <<clean, pending, containers, made, faults>>
    PROVE  Inv'
  <1>1. SupervisorOK(s)
    BY SupervisorIs DEF SupervisorOK
  <1> QED
    BY <1>1, SupervisorStep

LEMMA NothingNoted ==
    ASSUME Inv, journal' = journal
    PROVE  /\ journal' \in [Owners -> Journals]
           /\ \A o \in Owners : SameMeaning(journal'[o], journal[o])
  BY SupervisorIs DEF SameMeaning

\* The lease of a job is noted as running, and its report as made.
LEMMA LeaseNoted ==
    ASSUME Inv, NEW o \in Owners, NEW over \in BOOLEAN,
           journal' = [journal EXCEPT ![o].leaseOver = over]
    PROVE  /\ journal' \in [Owners -> Journals]
           /\ \A p \in Owners : SameMeaning(journal'[p], journal[p])
  <1>1. PICK j : j = [journal[o] EXCEPT !.leaseOver = over]
    OBVIOUS
  <1>2. j \in Journals /\ SameMeaning(j, journal[o])
    BY <1>1, JournalIs DEF Journals, SameMeaning
  <1> QED
    BY <1>1, <1>2, NoteInJournal

LEMMA RunOneStep ==
    ASSUME Inv, RunOne
    PROVE  Inv'
  <1>1. PICK s : s = [Off EXCEPT !.step = "RECOVER", !.visit = Existing]
    OBVIOUS
  <1>2. /\ s \in Supervisors /\ s.step = "RECOVER" /\ s.owner = NoOwner /\ s.visit = Existing
    BY <1>1, CheckIsName DEF Off, Supervisors, Existing
  <1>3. SupervisorOK(s)
    BY <1>2 DEF SupervisorOK, Existing
  <1>4. sup' = s /\ UNCHANGED <<journal, dog, clean, pending, containers, made, faults>>
    BY <1>1 DEF RunOne
  <1>5. dog' \in [Owners -> DogSteps]
    BY <1>4, SupervisorIs
  <1> QED
    BY <1>2, <1>3, <1>4, <1>5, NothingNoted, SupervisorStep

LEMMA RecoverStep ==
    ASSUME Inv, NEW o \in Owners, Recover(o)
    PROVE  Inv'
  <1>1. sup.step = "RECOVER" /\ UNCHANGED <<journal, dog, pending, containers, made, faults>>
    BY DEF Recover
  <1>2. dog' \in [Owners -> DogSteps] /\ faults' \in Nat
    BY <1>1, SupervisorIs
  <1>3. CASE journal[o].done /\ sup' = [sup EXCEPT !.visit = @ \ {o}] /\ clean' = clean
    <2>1. PICK s : s = [sup EXCEPT !.visit = @ \ {o}]
      OBVIOUS
    <2>2. /\ s \in Supervisors /\ s.step = "RECOVER" /\ s.owner = sup.owner
          /\ s.visit = sup.visit \ {o}
      BY <1>1, <2>1, SupervisorIs DEF Supervisors
    <2>3. SupervisorOK(s)
      BY <1>1, <1>3, <2>2, SupervisorIs DEF SupervisorOK
    <2> QED
      BY <1>1, <1>2, <1>3, <2>1, <2>2, <2>3, NothingNoted, SupervisorStep
  <1>4. CASE clean' = [clean EXCEPT ![Supervisor] = OpenedBy(o)] /\ sup' = sup
    <2>1. Supervisor \in Cleaners
      BY DEF Cleaners
    <2> QED
      BY <1>1, <1>2, <1>4, <2>1, OpenedOK, CleanupStep
  <1> QED
    BY <1>3, <1>4 DEF Recover

LEMMA GivesUp ==
    ASSUME Inv, sup' = Off, journal' = journal, dog' = dog,
           UNCHANGED <<clean, pending, containers, made, faults>>
    PROVE  Inv'
  <1>1. Off.owner = NoOwner /\ Off.step = "OFF"
    BY DEF Off
  <1>2. dog' \in [Owners -> DogSteps]
    BY SupervisorIs
  <1> QED
    BY <1>1, <1>2, OffOK, NothingNoted, SupervisorStep

\* Every journal there is was cleaned up: nothing is left on the host, and the
\* new job is alone.
LEMMA ClaimStep ==
    ASSUME Inv, NEW o \in Owners, Claim(o)
    PROVE  Inv'
  <1>1. /\ sup.step = "RECOVER" /\ sup.visit = {} /\ ~journal[o].exists
        /\ UNCHANGED <<dog, clean, pending, containers, made, faults>>
    BY DEF Claim, Existing
  <1>2. \A p \in Owners : journal[p].exists => journal[p].done
    BY <1>1, SupervisorIs DEF SupervisorOK
  <1>3. containers \union pending = {}
    <2>1. ASSUME NEW p \in containers \union pending PROVE FALSE
      <3>1. PICK q \in Owners, n \in Names : p = <<q, n>>
        BY <2>1 DEF Inv, TypeOK
      <3> QED
        BY <1>2, <2>1, <3>1, ThereIsAJournal
    <2> QED
      BY <2>1
  <1>4. PICK s : s = [sup EXCEPT !.step = "JOURNALLED", !.owner = o]
    OBVIOUS
  <1>5. s \in Supervisors /\ s.step = "JOURNALLED" /\ s.owner = o
    BY <1>4, SupervisorIs DEF Supervisors
  <1>6. PICK j : j = [journal[o] EXCEPT !.exists = TRUE]
    OBVIOUS
  <1>7. /\ j \in Journals /\ j.exists /\ j.done = journal[o].done
        /\ j.resources = journal[o].resources
    BY <1>6, JournalIs DEF Journals
  <1>8. sup' = s /\ journal' = [journal EXCEPT ![o] = j]
    BY <1>4, <1>6 DEF Claim
  <1>9. /\ journal'[o] = j
        /\ \A p \in Owners : /\ journal'[p].done = journal[p].done
                             /\ journal'[p].resources = journal[p].resources
                             /\ journal[p].exists => journal'[p].exists
    BY <1>7, <1>8, SupervisorIs
  <1>10. TypeOK'
    BY <1>1, <1>5, <1>7, <1>8 DEF Inv, TypeOK
  <1>11. DaemonOK'
    BY <1>1 DEF Inv, DaemonOK
  <1>12. (\A p \in Owners : JournalOK(p, journal[p]))'
    <2>1. ASSUME NEW p \in Owners PROVE JournalOK(p, journal'[p])
      BY <1>9, <2>1 DEF Inv, JournalOK
    <2> QED
      BY <1>1, <2>1 DEF JournalOK, ResourceOK
  <1>13. SupervisorOK(sup)'
    BY <1>5, <1>7, <1>8, <1>9, NobodyIsNoOwner DEF SupervisorOK
  <1>14. (\A c \in Cleaners : CleanupOK(clean[c]))'
    BY <1>1 DEF Inv, CleanupOK, Target
  <1>15. DoneMeansGone'
    BY <1>1, <1>3, <1>5, <1>8 DEF DoneMeansGone
  <1>16. AloneOnHost'
    BY <1>1, <1>3 DEF AloneOnHost
  <1> QED
    BY <1>10, <1>11, <1>12, <1>13, <1>14, <1>15, <1>16 DEF Inv

LEMMA StartWatchdogStep ==
    ASSUME Inv, startWatchdog
    PROVE  Inv'
  <1>1. sup.step = "JOURNALLED" /\ UNCHANGED <<journal, clean, pending, containers, made, faults>>
    BY DEF startWatchdog
  <1>2. CASE dog' = [dog EXCEPT ![sup.owner] = "ARMED"] /\ sup' = [sup EXCEPT !.step = "WATCHED"]
    <2>1. PICK s : s = [sup EXCEPT !.step = "WATCHED"]
      OBVIOUS
    <2>2. s \in Supervisors /\ s.step = "WATCHED" /\ s.owner = sup.owner
      BY <2>1, SupervisorIs DEF Supervisors
    <2>3. dog' \in [Owners -> DogSteps]
      BY <1>2, SupervisorIs DEF DogSteps
    <2> QED
      BY <1>1, <1>2, <2>1, <2>2, <2>3, NothingNoted, JobStep
  <1>3. CASE dog' = dog /\ sup' = Off
    BY <1>1, <1>3, GivesUp
  <1> QED
    BY <1>2, <1>3 DEF startWatchdog

LEMMA StartCallStep ==
    ASSUME Inv, StartCall
    PROVE  Inv'
  <1>1. /\ sup.step = "WATCHED" /\ UNCHANGED <<dog, clean, pending, containers, made, faults>>
        /\ sup.owner \in Owners /\ dog' \in [Owners -> DogSteps]
    BY SupervisorIs DEF StartCall
  <1>2. PICK s : /\ sup' = s
                 /\ s = [sup EXCEPT !.step = "READY"] \/ s = [sup EXCEPT !.step = "CLEANUP"]
    BY DEF StartCall
  <1>3. s \in Supervisors /\ s.step \in {"READY", "CLEANUP"} /\ s.owner = sup.owner
    BY <1>2, SupervisorIs DEF Supervisors
  <1>4. /\ journal' \in [Owners -> Journals]
        /\ \A p \in Owners : SameMeaning(journal'[p], journal[p])
    BY <1>1, LeaseNoted, NothingNoted DEF StartCall
  <1> QED
    BY <1>1, <1>2, <1>3, <1>4, JobStep

LEMMA HeartbeatStep ==
    ASSUME Inv, Heartbeat
    PROVE  Inv'
  <1>1. /\ sup.step \in Working /\ UNCHANGED <<dog, clean, pending, containers, made, faults>>
        /\ dog' \in [Owners -> DogSteps]
    BY SupervisorIs DEF Heartbeat
  <1>2. sup.owner \in Owners
    BY <1>1, SupervisorIs DEF Working
  <1>3. PICK s : /\ sup' = s
                 /\ s = sup \/ s = [sup EXCEPT !.cancelled = TRUE]
    BY DEF Heartbeat
  <1>4. /\ s \in Supervisors /\ s.step = sup.step /\ s.owner = sup.owner
        /\ s.name = sup.name /\ s.visit = sup.visit
    BY <1>3, SupervisorIs DEF Supervisors
  <1>5. SupervisorOK(s)
    BY <1>4, SupervisorIs DEF SupervisorOK
  <1>6. /\ journal' \in [Owners -> Journals]
        /\ \A p \in Owners : SameMeaning(journal'[p], journal[p])
    BY <1>2, LeaseNoted, NothingNoted DEF Heartbeat
  <1> QED
    BY <1>1, <1>3, <1>4, <1>5, <1>6, SupervisorStep

\* The execution has failed, and the job goes on to its report.
LEMMA FailedIs ==
    ASSUME Inv
    PROVE  /\ Failed \in Supervisors /\ Failed.step = "REPORT"
           /\ Failed.owner = sup.owner /\ Failed.visit = sup.visit
  BY SupervisorIs DEF Failed, Supervisors

LEMMA FailureStep ==
    ASSUME Inv, sup.step \notin {"OFF", "RECOVER"}, sup' = Failed, journal' = journal,
           UNCHANGED <<dog, clean, pending, containers, made, faults>>
    PROVE  Inv'
  <1>1. PICK s : s = Failed
    OBVIOUS
  <1>2. s \in Supervisors /\ s.step = "REPORT" /\ s.owner = sup.owner
    BY <1>1, FailedIs
  <1>3. dog' \in [Owners -> DogSteps]
    BY SupervisorIs
  <1> QED
    BY <1>1, <1>2, <1>3, NothingNoted, JobStep

\* Nothing of this name was ever asked for, and nothing is yet.
LEMMA BeginStep ==
    ASSUME Inv, beginResource
    PROVE  Inv'
  <1>1. sup.step = "READY" /\ UNCHANGED <<dog, clean, pending, containers, made, faults>>
    BY DEF beginResource
  <1>2. PICK o \in Owners, n \in Names : o = sup.owner /\ n = sup.name /\ journal[o].exists
    BY <1>1, SupervisorIs DEF Supervisors
  <1>3. CASE /\ ~journal[o].done /\ journal[o].resources[n].state = "NONE"
             /\ SetResource(o, n, [NoResource EXCEPT !.state = "CREATING"])
             /\ sup' = [sup EXCEPT !.step = "BEGUN"]
    <2>1. PICK e : e = [NoResource EXCEPT !.state = "CREATING"]
      OBVIOUS
    <2>2. e \in Resources /\ e.state = "CREATING" /\ ~e.id
      BY <2>1 DEF NoResource, Resources
    <2>3. <<o, n>> \notin made \union pending
      BY <1>3, JournalIs DEF ResourceOK
    <2>4. PICK s : s = [sup EXCEPT !.step = "BEGUN"]
      OBVIOUS
    <2>5. s \in Supervisors /\ s.step = "BEGUN" /\ s.owner = o /\ s.name = n
      BY <1>2, <2>4, SupervisorIs DEF Supervisors
    <2>6. PICK r \in [Names -> Resources] : r = [journal[o].resources EXCEPT ![n] = e]
      BY <2>2, JournalIs DEF Journals
    <2>7. PICK j : j = [journal[o] EXCEPT !.resources = r]
      OBVIOUS
    <2>8. j \in Journals /\ j.exists /\ ~j.done /\ j.resources = r
      BY <1>2, <1>3, <2>7, JournalIs DEF Journals
    <2>9. /\ r[n] = e
          /\ \A m \in Names \ {n} : r[m] = journal[o].resources[m]
      BY <2>6, JournalIs DEF Journals
    <2>10. journal' = [journal EXCEPT ![o] = j]
      BY <1>3, <2>1, <2>6, <2>7, SupervisorIs DEF SetResource
    <2>11. journal'[o] = j /\ \A p \in Owners \ {o} : journal'[p] = journal[p]
      BY <2>10, SupervisorIs
    <2>12. sup' = s
      BY <1>3, <2>4
    <2>13. TypeOK'
      BY <1>1, <2>5, <2>8, <2>10, <2>12 DEF Inv, TypeOK
    <2>14. DaemonOK'
      BY <1>1 DEF Inv, DaemonOK
    <2>15. (\A p \in Owners : JournalOK(p, journal[p]))'
      <3>1. JournalOK(o, j)
        BY <2>2, <2>3, <2>8, <2>9, JournalIs DEF JournalOK, ResourceOK
      <3>2. ASSUME NEW p \in Owners PROVE JournalOK(p, journal'[p])
        BY <2>11, <3>1, JournalIs
      <3> QED
        BY <1>1, <3>2 DEF JournalOK, ResourceOK
    <2>16. SupervisorOK(sup)'
      BY <1>1, <2>2, <2>3, <2>5, <2>8, <2>9, <2>11, <2>12, NobodyIsNoOwner DEF SupervisorOK
    <2>17. (\A c \in Cleaners : CleanupOK(clean[c]))'
      BY <1>1 DEF Inv, CleanupOK, Target
    <2>18. DoneMeansGone'
      <3>1. ASSUME NEW p \in Owners, journal'[p].done
            PROVE  /\ \A m \in Names : <<p, m>> \notin containers \union pending
                   /\ ~(s.owner = p /\ s.step = "BEGUN")
        <4>1. p # o /\ journal[p].done
          BY <2>8, <2>11, <3>1
        <4> QED
          BY <2>5, <4>1 DEF Inv, DoneMeansGone
      <3> QED
        BY <1>1, <2>12, <3>1 DEF DoneMeansGone
    <2>19. AloneOnHost'
      BY <1>1, <1>2, <2>5, <2>12 DEF Inv, AloneOnHost
    <2> QED
      BY <2>13, <2>14, <2>15, <2>16, <2>17, <2>18, <2>19 DEF Inv
  <1>4. CASE journal' = journal /\ sup' = Failed
    BY <1>1, <1>4, FailureStep
  <1> QED
    BY <1>2, <1>3, <1>4 DEF beginResource

\* The one create of this name.
LEMMA CreateStep ==
    ASSUME Inv, createResource
    PROVE  Inv'
  <1>1. sup.step = "BEGUN" /\ UNCHANGED <<journal, dog, clean, containers, made, faults>>
    BY DEF createResource
  <1>2. PICK o \in Owners, n \in Names : o = sup.owner /\ n = sup.name /\ journal[o].exists
    BY <1>1, SupervisorIs DEF Supervisors
  <1>3. PICK p \in Owners \X Names : p = <<o, n>>
    OBVIOUS
  <1>4. /\ pending' = pending \union {p} /\ p \notin made \union pending
        /\ journal[o].resources[n].state \in {"CREATING", "CREATE_UNCERTAIN"}
    BY <1>1, <1>2, <1>3, SupervisorIs DEF createResource, SupervisorOK
  <1>5. PICK s : s = [sup EXCEPT !.step = "CREATING"]
    OBVIOUS
  <1>6. s \in Supervisors /\ s.step = "CREATING" /\ s.owner = o
    BY <1>2, <1>5, SupervisorIs DEF Supervisors
  <1>7. sup' = s
    BY <1>5 DEF createResource
  <1>8. TypeOK'
    BY <1>1, <1>4, <1>6, <1>7 DEF Inv, TypeOK
  <1>9. DaemonOK'
    BY <1>1, <1>4 DEF Inv, DaemonOK
  <1>10. (\A q \in Owners : JournalOK(q, journal[q]))'
    <2>1. ASSUME NEW q \in Owners, NEW m \in Names
          PROVE  ResourceOK(journal[q].resources[m], <<q, m>>)'
      <3>1. CASE <<q, m>> = p
        BY <1>1, <1>3, <1>4, <3>1, JournalIs DEF ResourceOK
      <3>2. CASE <<q, m>> # p
        BY <1>1, <1>4, <3>2, JournalIs DEF ResourceOK
      <3> QED
        BY <3>1, <3>2
    <2> QED
      BY <1>1, <2>1 DEF Inv, JournalOK
  <1>11. SupervisorOK(sup)'
    BY <1>1, <1>2, <1>6, <1>7, NobodyIsNoOwner DEF SupervisorOK
  <1>12. (\A c \in Cleaners : CleanupOK(clean[c]))'
    BY <1>1 DEF Inv, CleanupOK, Target
  <1>13. DoneMeansGone'
    <2>1. ASSUME NEW q \in Owners, journal[q].done
          PROVE  /\ \A m \in Names : <<q, m>> \notin containers \union pending'
                 /\ ~(s.owner = q /\ s.step = "BEGUN")
      <3>1. q # o
        BY <1>1, <1>2, <2>1 DEF Inv, DoneMeansGone
      <3> QED
        BY <1>3, <1>4, <1>6, <2>1, <3>1 DEF Inv, DoneMeansGone
    <2> QED
      BY <1>1, <1>7, <2>1 DEF DoneMeansGone
  <1>14. AloneOnHost'
    BY <1>1, <1>2, <1>3, <1>4, <1>6, <1>7 DEF Inv, AloneOnHost
  <1> QED
    BY <1>8, <1>9, <1>10, <1>11, <1>12, <1>13, <1>14 DEF Inv

\* The outcome of the create is noted, whatever the watchdog noted before.
LEMMA OutcomeStep ==
    ASSUME Inv, sup.step \in {"BEGUN", "CREATING"}, NEW e \in Resources,
           SetResource(sup.owner, sup.name, e),
           ResourceOK(e, <<sup.owner, sup.name>>),
           e.state \in {"CREATE_UNCERTAIN", "CREATED"},
           NEW s \in Supervisors, sup' = s, s.step \in {"REPORT", "EXEC"},
           s.owner = sup.owner, s.visit = sup.visit,
           UNCHANGED <<dog, clean, pending, containers, made, faults>>
    PROVE  Inv'
  <1>1. PICK o \in Owners, n \in Names : o = sup.owner /\ n = sup.name /\ journal[o].exists
    BY SupervisorIs DEF Supervisors
  <1>2. Replaces(e, journal[o].resources[n], <<o, n>>) /\ SetResource(o, n, e)
    BY <1>1 DEF Replaces, ResourceOK
  <1>3. clean' \in [Cleaners -> Cleanups] /\ \A c \in Cleaners : CleanupOK(clean'[c])
    BY SupervisorIs, CleanupIs
  <1> QED
    BY <1>1, <1>2, <1>3, EntryStep

LEMMA CompleteStep ==
    ASSUME Inv, completeCreate
    PROVE  Inv'
  <1>1. /\ sup.step \in {"BEGUN", "CREATING"}
        /\ UNCHANGED <<dog, clean, pending, containers, made, faults>>
    BY DEF completeCreate, ReturnedId
  <1>2. PICK o \in Owners, n \in Names : o = sup.owner /\ n = sup.name /\ journal[o].exists
    BY <1>1, SupervisorIs DEF Supervisors
  <1>3. PICK r \in Resources : r = journal[o].resources[n] /\ ResourceOK(r, <<o, n>>)
    BY JournalIs
  <1>4. CASE ReturnedId
    <2>1. PICK e : e = [r EXCEPT !.state = "CREATED", !.id = TRUE]
      OBVIOUS
    <2>2. e \in Resources /\ e.state = "CREATED"
      BY <2>1 DEF Resources
    <2>3. <<o, n>> \in made
      BY <1>2, <1>4 DEF ReturnedId
    <2>4. ResourceOK(e, <<o, n>>)
      BY <2>2, <2>3 DEF ResourceOK
    <2>5. PICK s : s = [sup EXCEPT !.step = "EXEC"]
      OBVIOUS
    <2>6. s \in Supervisors /\ s.step = "EXEC" /\ s.owner = sup.owner /\ s.visit = sup.visit
      BY <2>5, SupervisorIs DEF Supervisors
    <2>7. SetResource(sup.owner, sup.name, e) /\ sup' = s
      BY <1>2, <1>3, <1>4, <2>1, <2>5 DEF ReturnedId
    <2> QED
      BY <1>1, <1>2, <2>2, <2>4, <2>6, <2>7, OutcomeStep
  <1>5. CASE SetResource(o, n, [r EXCEPT !.state = "CREATE_UNCERTAIN"]) /\ sup' = Failed
    <2>1. PICK e : e = [r EXCEPT !.state = "CREATE_UNCERTAIN"]
      OBVIOUS
    <2>2. e \in Resources /\ e.state = "CREATE_UNCERTAIN" /\ e.id = r.id
      BY <2>1 DEF Resources
    <2>3. ResourceOK(e, <<o, n>>)
      BY <1>3, <2>2 DEF ResourceOK
    <2>4. PICK s : s = Failed
      OBVIOUS
    <2>5. s \in Supervisors /\ s.step = "REPORT" /\ s.owner = sup.owner /\ s.visit = sup.visit
      BY <2>4, FailedIs
    <2>6. SetResource(sup.owner, sup.name, e) /\ sup' = s
      BY <1>2, <1>5, <2>1, <2>4
    <2> QED
      BY <1>1, <1>2, <2>2, <2>3, <2>5, <2>6, OutcomeStep
  <1>6. CASE journal' = journal /\ sup' = Failed
    BY <1>1, <1>6, FailureStep
  <1> QED
    BY <1>2, <1>3, <1>4, <1>5, <1>6 DEF completeCreate

LEMMA ExecuteStep ==
    ASSUME Inv, execute
    PROVE  Inv'
  <1>1. sup.step = "EXEC" /\ UNCHANGED <<journal, dog, clean, pending, containers, made, faults>>
    BY DEF execute
  <1>2. dog' \in [Owners -> DogSteps]
    BY <1>1, SupervisorIs
  <1>3. PICK s : /\ sup' = s
                 /\ \/ s = Failed
                    \/ s = [sup EXCEPT !.step = "REPORT", !.result = "PASSED"]
                    \/ /\ "buildkit" \in Names
                       /\ s = [sup EXCEPT !.step = "READY", !.name = "buildkit"]
    BY DEF execute
  <1>4. s \in Supervisors /\ s.step \in {"REPORT", "READY"} /\ s.owner = sup.owner
    <2>1. CASE s = Failed
      BY <2>1, FailedIs
    <2>2. CASE s = [sup EXCEPT !.step = "REPORT", !.result = "PASSED"]
      BY <2>2, SupervisorIs DEF Supervisors
    <2>3. CASE "buildkit" \in Names /\ s = [sup EXCEPT !.step = "READY", !.name = "buildkit"]
      BY <2>3, SupervisorIs DEF Supervisors
    <2> QED
      BY <1>3, <2>1, <2>2, <2>3
  <1> QED
    BY <1>1, <1>2, <1>3, <1>4, NothingNoted, JobStep

LEMMA PrepareReportStep ==
    ASSUME Inv, PrepareReport
    PROVE  Inv'
  <1>1. sup.step = "REPORT" /\ UNCHANGED <<dog, clean, pending, containers, made, faults>>
    BY DEF PrepareReport
  <1>2. dog' \in [Owners -> DogSteps] /\ sup.owner \in Owners
    BY <1>1, SupervisorIs
  <1>3. PICK result : /\ result = IF sup.cancelled \/ journal[sup.owner].deadlineOver THEN "FAILED"
                                  ELSE sup.result
                      /\ \/ journal' = [journal EXCEPT ![sup.owner].report = result]
                         \/ journal' = journal
    BY DEF PrepareReport
  <1>4. /\ journal' \in [Owners -> Journals]
        /\ \A p \in Owners : SameMeaning(journal'[p], journal[p])
    <2>1. CASE journal' = [journal EXCEPT ![sup.owner].report = result]
      <3>1. result \in {"PASSED", "FAILED"}
        BY <1>3, SupervisorIs DEF Supervisors
      <3>2. PICK j : j = [journal[sup.owner] EXCEPT !.report = result]
        OBVIOUS
      <3>3. j \in Journals /\ SameMeaning(j, journal[sup.owner])
        BY <1>2, <3>1, <3>2, JournalIs DEF Journals, SameMeaning
      <3> QED
        BY <1>2, <2>1, <3>2, <3>3, NoteInJournal
    <2>2. CASE journal' = journal
      BY <2>2, NothingNoted
    <2> QED
      BY <1>3, <2>1, <2>2
  <1>5. PICK s : s = [sup EXCEPT !.step = "CLEANUP"]
    OBVIOUS
  <1>6. s \in Supervisors /\ s.step = "CLEANUP" /\ s.owner = sup.owner /\ sup' = s
    BY <1>5, SupervisorIs DEF Supervisors, PrepareReport
  <1> QED
    BY <1>1, <1>2, <1>4, <1>6, JobStep

LEMMA DeferredCleanupStep ==
    ASSUME Inv, DeferredCleanup
    PROVE  Inv'
  <1>1. /\ sup.owner \in Owners /\ Supervisor \in Cleaners
        /\ dog' \in [Owners -> DogSteps] /\ faults' \in Nat
    BY SupervisorIs DEF DeferredCleanup, Cleaners
  <1> QED
    BY <1>1, OpenedOK, CleanupStep DEF DeferredCleanup

LEMMA SupervisorDiesStep ==
    ASSUME Inv, SupervisorDies
    PROVE  Inv'
  <1>1. /\ sup' = Off /\ clean' = [clean EXCEPT ![Supervisor] = Idle]
        /\ UNCHANGED <<journal, dog, pending, containers, made, faults>>
    BY DEF SupervisorDies
  <1>2. clean' \in [Cleaners -> Cleanups] /\ \A c \in Cleaners : CleanupOK(clean'[c])
    BY <1>1, IdleOK, CleanupIs, SupervisorIs
  <1>3. dog' \in [Owners -> DogSteps] /\ faults' \in Nat
    BY <1>1, SupervisorIs
  <1>4. Off.owner = NoOwner /\ Off.step = "OFF"
    BY DEF Off
  <1> QED
    BY <1>1, <1>2, <1>3, <1>4, OffOK, NothingNoted, QuietStep

-----------------------------------------------------------------------------
(***************************************************************************)
(* The watchdog, the operator, the daemon and time                         *)
(***************************************************************************)

LEMMA WatchdogTickStep ==
    ASSUME Inv, NEW o \in Owners, WatchdogTick(o)
    PROVE  Inv'
  <1>1. UNCHANGED <<journal, sup, pending, containers, made, faults>> /\ o \in Cleaners
    BY DEF WatchdogTick, Cleaners
  <1>2. dog' \in [Owners -> DogSteps] /\ faults' \in Nat
    BY SupervisorIs DEF WatchdogTick, DogSteps
  <1>3. PICK k \in Cleanups : CleanupOK(k) /\ clean' = [clean EXCEPT ![o] = k]
    <2>1. CASE clean' = clean
      BY <1>1, <2>1, CleanupIs, SupervisorIs
    <2>2. CASE clean' = [clean EXCEPT ![o] = OpenedBy(o)]
      BY <2>2, OpenedOK
    <2> QED
      BY <2>1, <2>2 DEF WatchdogTick
  <1> QED
    BY <1>1, <1>2, <1>3, CleanupStep

LEMMA WatchdogDiesStep ==
    ASSUME Inv, NEW o \in Owners, WatchdogDies(o)
    PROVE  Inv'
  <1>1. dog' \in [Owners -> DogSteps] /\ faults' \in Nat /\ o \in Cleaners
    BY SupervisorIs DEF WatchdogDies, DogSteps, Cleaners
  <1> QED
    BY <1>1, IdleOK, CleanupStep DEF WatchdogDies

\* The operator closes a journal whose containers were all made and are gone.
LEMMA ReconcileStep ==
    ASSUME Inv, NEW o \in Owners, ReconcileLocalCleanup(o)
    PROVE  Inv'
  <1>1. /\ sup.step = "OFF" /\ Eligible(o) /\ \A n \in Used(o) : <<o, n>> \notin containers
        /\ UNCHANGED <<sup, dog, clean, pending, containers, made, faults>>
    BY DEF ReconcileLocalCleanup
  <1>2. ASSUME NEW n \in Names PROVE <<o, n>> \notin containers \union pending
    <2>1. CASE n \in Used(o)
      <3>1. <<o, n>> \in made /\ <<o, n>> \notin containers
        BY <1>1, <2>1, JournalIs DEF Eligible, ResourceOK
      <3> QED
        BY <3>1 DEF Inv, DaemonOK
    <2>2. CASE n \notin Used(o)
      <3>1. <<o, n>> \notin made \union pending
        BY <2>2, JournalIs DEF Used, ResourceOK
      <3> QED
        BY <3>1 DEF Inv, DaemonOK
    <2> QED
      BY <2>1, <2>2
  <1>3. PICK j : j = [journal[o] EXCEPT !.closure = TRUE, !.done = TRUE]
    OBVIOUS
  <1>4. /\ j \in Journals /\ j.exists = journal[o].exists
        /\ j.resources = journal[o].resources /\ j.done
    BY <1>3, JournalIs DEF Journals
  <1>5. journal' = [journal EXCEPT ![o] = j]
    BY <1>3, SupervisorIs DEF ReconcileLocalCleanup
  <1>6. PICK s \in Supervisors : s = sup
    BY SupervisorIs
  <1>7. /\ dog' \in [Owners -> DogSteps] /\ clean' \in [Cleaners -> Cleanups]
        /\ \A c \in Cleaners : CleanupOK(clean'[c])
    BY <1>1, SupervisorIs, CleanupIs
  <1> QED
    BY <1>1, <1>2, <1>4, <1>5, <1>6, <1>7, DoneStep

LEMMA DaemonStep ==
    ASSUME Inv, NEW p \in pending, DaemonCreates(p)
    PROVE  Inv'
  <1>1. p \in Owners \X Names /\ p \notin made
    BY DEF Inv, TypeOK, DaemonOK
  <1>2. /\ pending' = pending \ {p}
        /\ \/ containers' = containers \union {p} /\ made' = made \union {p}
           \/ containers' = containers /\ made' = made
        /\ UNCHANGED <<journal, sup, dog, clean, faults>>
    BY DEF DaemonCreates
  <1>3. /\ containers' \union pending' \subseteq containers \union pending
        /\ made' \union pending' \subseteq made \union pending
        /\ made \subseteq made' /\ made \ containers \subseteq made' \ containers'
        /\ containers' \subseteq containers \union {p}
    BY <1>1, <1>2
  <1>4. TypeOK'
    BY <1>1, <1>2 DEF Inv, TypeOK
  <1>5. DaemonOK'
    BY <1>1, <1>2 DEF Inv, DaemonOK
  <1>6. (\A o \in Owners : JournalOK(o, journal[o]))'
    BY <1>2, <1>3 DEF Inv, JournalOK, ResourceOK
  <1>7. SupervisorOK(sup)'
    BY <1>2, <1>3 DEF Inv, SupervisorOK
  <1>8. (\A c \in Cleaners : CleanupOK(clean[c]))'
    <2>1. ASSUME NEW c \in Cleaners PROVE CleanupOK(clean[c])'
      BY <1>1, <1>2, <1>3, CleanupIs DEF CleanupOK, Target
    <2> QED
      BY <2>1
  <1>9. DoneMeansGone'
    BY <1>2, <1>3 DEF Inv, DoneMeansGone
  <1>10. AloneOnHost'
    BY <1>2, <1>3 DEF Inv, AloneOnHost
  <1> QED
    BY <1>4, <1>5, <1>6, <1>7, <1>8, <1>9, <1>10 DEF Inv

LEMMA TimeStep ==
    ASSUME Inv, NEW o \in Owners, LeaseRunsOut(o) \/ DeadlinePasses(o)
    PROVE  Inv'
  <1>1. UNCHANGED <<sup, dog, clean, pending, containers, made, faults>>
    BY DEF LeaseRunsOut, DeadlinePasses
  <1>2. PICK j : /\ journal' = [journal EXCEPT ![o] = j]
                 /\ \/ j = [journal[o] EXCEPT !.leaseOver = TRUE]
                    \/ j = [journal[o] EXCEPT !.deadlineOver = TRUE]
    BY DEF LeaseRunsOut, DeadlinePasses
  <1>3. j \in Journals /\ SameMeaning(j, journal[o])
    BY <1>2, JournalIs DEF Journals, SameMeaning
  <1>4. /\ journal' \in [Owners -> Journals]
        /\ \A p \in Owners : SameMeaning(journal'[p], journal[p])
    BY <1>2, <1>3, NoteInJournal
  <1>5. PICK s \in Supervisors : s = sup /\ SupervisorOK(s)
    BY SupervisorIs
  <1>6. dog' \in [Owners -> DogSteps]
    BY <1>1, SupervisorIs
  <1> QED
    BY <1>1, <1>4, <1>5, <1>6, SupervisorStep

-----------------------------------------------------------------------------
(***************************************************************************)
(* The invariant is inductive                                              *)
(***************************************************************************)

LEMMA InvInit == Init => Inv
  <1> SUFFICES ASSUME Init PROVE Inv
    OBVIOUS
  <1> USE DEF Init
  <1>1. NoResource \in Resources
    BY DEF NoResource, Resources
  <1>2. /\ NoJournal \in Journals /\ ~NoJournal.exists /\ ~NoJournal.done
        /\ \A n \in Names : NoJournal.resources[n] = NoResource
    BY <1>1 DEF NoJournal, Journals
  <1>3. TypeOK
    BY <1>2, OffOK, IdleOK DEF TypeOK, DogSteps
  <1>4. DaemonOK
    BY DEF DaemonOK
  <1>5. \A o \in Owners : JournalOK(o, journal[o])
    BY <1>2 DEF JournalOK, ResourceOK, NoResource
  <1>6. SupervisorOK(sup)
    BY OffOK
  <1>7. \A c \in Cleaners : CleanupOK(clean[c])
    BY IdleOK
  <1>8. DoneMeansGone
    BY <1>2 DEF DoneMeansGone
  <1>9. AloneOnHost
    BY DEF AloneOnHost
  <1> QED
    BY <1>3, <1>4, <1>5, <1>6, <1>7, <1>8, <1>9 DEF Inv

LEMMA InvNext == Inv /\ [Next]_vars => Inv'
  <1> SUFFICES ASSUME Inv, [Next]_vars PROVE Inv'
    OBVIOUS
  <1>1. ASSUME NEW c \in Cleaners, cleanupWith(c) PROVE Inv'
    BY <1>1, CleanupPreserves
  <1>2. ASSUME NEW c \in Cleaners, Abort(c) PROVE Inv'
    BY <1>2, AbortStep
  <1>3. CASE RunOne
    BY <1>3, RunOneStep
  <1>4. ASSUME NEW o \in Owners, Recover(o) PROVE Inv'
    BY <1>4, RecoverStep
  <1>5. CASE ClaimNothing
    BY <1>5, GivesUp DEF ClaimNothing
  <1>6. ASSUME NEW o \in Owners, Claim(o) PROVE Inv'
    BY <1>6, ClaimStep
  <1>7. CASE startWatchdog \/ StartCall \/ Heartbeat
    BY <1>7, StartWatchdogStep, StartCallStep, HeartbeatStep
  <1>8. CASE beginResource \/ createResource \/ completeCreate \/ execute
    BY <1>8, BeginStep, CreateStep, CompleteStep, ExecuteStep
  <1>9. CASE PrepareReport \/ DeferredCleanup \/ SupervisorDies
    BY <1>9, PrepareReportStep, DeferredCleanupStep, SupervisorDiesStep
  <1>10. ASSUME NEW o \in Owners, WatchdogTick(o) \/ WatchdogDies(o) PROVE Inv'
    BY <1>10, WatchdogTickStep, WatchdogDiesStep
  <1>11. ASSUME NEW o \in Owners, ReconcileLocalCleanup(o) PROVE Inv'
    BY <1>11, ReconcileStep
  <1>12. ASSUME NEW p \in pending, DaemonCreates(p) PROVE Inv'
    BY <1>12, DaemonStep
  <1>13. ASSUME NEW o \in Owners, LeaseRunsOut(o) \/ DeadlinePasses(o) PROVE Inv'
    BY <1>13, TimeStep
  <1>14. CASE UNCHANGED vars
    <2>1. /\ UNCHANGED <<journal, sup, dog, clean, pending, containers, made, faults>>
      BY <1>14 DEF vars
    <2>2. PICK s \in Supervisors : s = sup /\ SupervisorOK(s)
      BY SupervisorIs
    <2>3. dog' \in [Owners -> DogSteps]
      BY <2>1, SupervisorIs
    <2> QED
      BY <2>1, <2>2, <2>3, NothingNoted, SupervisorStep
  <1> QED
    BY <1>1, <1>2, <1>3, <1>4, <1>5, <1>6, <1>7, <1>8, <1>9, <1>10, <1>11, <1>12,
       <1>13, <1>14 DEF Next

LEMMA InvHolds == Spec => []Inv
  BY InvInit, InvNext, PTL DEF Spec

-----------------------------------------------------------------------------
(***************************************************************************)
(* Theorems                                                                *)
(***************************************************************************)

\* The journals, the supervisor, the watchdogs, the cleanups and the daemon's
\* containers keep their types, whoever dies and whatever comes late.
THEOREM TypeCorrect == Spec => []TypeOK
  <1>1. Inv => TypeOK
    BY DEF Inv
  <1> QED
    BY <1>1, InvHolds, PTL

\* A journal that is done, by a cleanup of the supervisor or of the watchdog
\* or by the operator's closure, leaves nothing on the host and nothing that
\* may still appear there (cleanupWith, reconcileLocalCleanup).
THEOREM NothingLeftBehind == Spec => []DoneMeansGone
  <1>1. Inv => DoneMeansGone
    BY DEF Inv
  <1> QED
    BY <1>1, InvHolds, PTL

\* While a supervisor holds a job, nothing of another job is on the host or may
\* still appear there: runOne claims only what recovery left empty.
THEOREM OneJobOnHost == Spec => []AloneOnHost
  <1>1. Inv => AloneOnHost
    BY DEF Inv
  <1> QED
    BY <1>1, InvHolds, PTL

\* What a journal holds of a container is true: a recorded ID is of a container
\* that was made, a resource recorded as removed was made and is gone, and one
\* never asked for does not exist and cannot appear (updateJournal).
JournalIsTrue ==
    \A o \in Owners, n \in Names :
       LET r == journal[o].resources[n] IN
       /\ r.id => <<o, n>> \in made
       /\ r.state = "REMOVED" => <<o, n>> \in made \ (containers \union pending)
       /\ r.state = "NONE" => <<o, n>> \notin made \union containers \union pending

THEOREM JournalsTellTruth == Spec => []JournalIsTrue
  <1>1. ASSUME Inv PROVE JournalIsTrue
    <2>1. ASSUME NEW o \in Owners, NEW n \in Names
          PROVE  ResourceOK(journal[o].resources[n], <<o, n>>)
      BY <1>1, JournalIs
    <2>2. containers \subseteq made /\ made \intersect pending = {}
      BY <1>1 DEF Inv, DaemonOK
    <2> QED
      BY <2>1, <2>2 DEF JournalIsTrue, ResourceOK
  <1> QED
    BY <1>1, InvHolds, PTL

===============================================================================
