-------------------------- MODULE RegistryObservation --------------------------
(***************************************************************************)
(* The read-only registry observer: jobs that freeze the roots to look at, *)
(* a process that reads a repository object by object while others push,   *)
(* delete and retag, its journal, the inventories the server admits, and   *)
(* what the retention report concludes from them.  One component, one      *)
(* repository, one observer.                                               *)
(*                                                                         *)
(* Objects are content-addressed: what an object is and names never        *)
(* changes, only whether it is there.  Every GET is a step.  Names of      *)
(* blockers lose their prefix "registry_".                                 *)
(***************************************************************************)
EXTENDS Integers, Sequences, FiniteSets

CONSTANTS Objects,       \* digests, numbered in their sorting order
          Kind,          \* digest -> "INDEX", "MANIFEST" or "BLOB"
          Content,       \* digest -> the digests an index or a manifest lists
          Subject,       \* digest -> the object it refers to, Absent
          Tags,          \* the tags people use
          Absent,        \* no value
          MaxDepth,      \* limit of the recipe on the depth of the graph
          Timeout,       \* limit of the recipe on the time of an observation
          Window,        \* age up to which evidence is fresh
          InitPresent,   \* the objects there at first
          InitKnown,     \* the images the product knows at first
          MaxTime,       \* bound on the clock
          MaxObservations,  \* bound on observations asked for
          MaxChanges     \* bound on changes of the repository and of what is known,
                         \* failed reads, lost answers, deaths, configurations

Manifests == {o \in Objects : Kind[o] # "BLOB"}

\* An object of another kind than its parent expects is refused with a blocker
\* (graph.go, node and edge), and a repository of such objects is left out.
ASSUME RegistryAssumption ==
    /\ Objects \subseteq Nat /\ IsFiniteSet(Objects)
    /\ Kind \in [Objects -> {"INDEX", "MANIFEST", "BLOB"}]
    /\ Content \in [Objects -> SUBSET Objects]
    /\ Subject \in [Objects -> Objects \union {Absent}]
    /\ Absent \notin Nat
    /\ InitPresent \subseteq Objects /\ InitKnown \subseteq Manifests
    /\ \A o \in Objects :
          CASE Kind[o] = "INDEX" -> Content[o] \subseteq Manifests
            [] Kind[o] = "MANIFEST" -> Content[o] \subseteq Objects \ Manifests
            [] Kind[o] = "BLOB" -> Content[o] = {} /\ Subject[o] = Absent
    /\ \A o \in Objects : Subject[o] \in Manifests \union {Absent}
    /\ {MaxDepth, Timeout, Window, MaxTime, MaxObservations, MaxChanges} \subseteq Nat

VARIABLES
    present,      \* registry: the objects that are there
    tags,         \* registry: tag -> object or Absent
    now,
    known,        \* the images of the retention report
    protected,    \* ... that it protects
    config,       \* revision of the worker configuration
    current,      \* the observer's grant is current
    quarantined,  \* the product was restored from a backup
    observations, \* the registry_observe jobs, in order of creation
    inventories,  \* the admitted reports
    journal,      \* the observer's file
    scan,         \* the observer's memory, Absent when no scan runs
    fixed,        \* history: objects and tags unchanged since the scan began its second look
    lastSeen,     \* history: object -> the last time it was there, Absent
    changes

registry == <<present, tags, lastSeen>>
knowledge == <<known, protected>>
authority == <<config, current, quarantined>>
registryVars == <<registry, now, knowledge, authority, observations, inventories, journal, scan, fixed, changes>>

Change == changes < MaxChanges /\ changes' = changes + 1

-----------------------------------------------------------------------------
(* The scanner's memory                                                     *)

Referrers(d) == {o \in present : Subject[o] = d}

With(f, x, v) == [y \in DOMAIN f \union {x} |-> IF y = x THEN v ELSE f[y]]

NoneYet == [x \in {} |-> 0]

(* What is left to do, in the order of the depth-first traversal: objects to
   be handled in the same way, in the order of their digests.                *)
Frame(op, S, depth, from) ==
    IF S = {} THEN <<>> ELSE <<[op |-> op, objs |-> S, depth |-> depth, from |-> from]>>

scanner(roots) ==
    [phase |-> "ROOTS", stack |-> Frame("visit", roots, 0, Absent), todo |-> {},
     nodes |-> [o \in roots |-> "UNKNOWN"], edges |-> {}, roots |-> roots, visited |-> {},
     subjects |-> {}, depths |-> NoneYet, refsets |-> NoneYet, aliases |-> {}, first |-> {},
     blockers |-> {}]

Has(s, o) == o \in DOMAIN s.nodes /\ s.nodes[o] = "PRESENT"

block(s, code) == [s EXCEPT !.blockers = @ \union {code}]

(* An object read once stays read.                                           *)
node(s, o, availability) ==
    IF Has(s, o) THEN s
    ELSE [s EXCEPT !.nodes = With(@, o, availability)]

edge(s, from, to) ==
    IF {from, to} \subseteq DOMAIN s.nodes THEN [s EXCEPT !.edges = @ \union {<<from, to>>}] ELSE s

Top(s) == Head(s.stack)

Pop(s, o) ==
    [s EXCEPT !.stack = Frame(Top(s).op, Top(s).objs \ {o}, Top(s).depth, Top(s).from) \o Tail(@)]

Push(s, frames) == [s EXCEPT !.stack = frames \o @]

(* The outcome of a GET for an object: read, missing or failed.              *)
Answer(o) == IF o \in present THEN "ok" ELSE "missing"

blob(s, o, from, answer) ==
    LET known1 == edge(node(s, o, "UNKNOWN"), from, o)
    IN IF Has(known1, o) THEN known1
       ELSE CASE answer = "ok" -> node(known1, o, "PRESENT")
              [] answer = "missing" -> block(node(known1, o, "MISSING"), "missing")
              [] OTHER -> block(known1, answer)

(* What an object that was read leads to: its content, its subject, and at
   last the question for its referrers.  At the depth limit it ends here.    *)
Expanded(s, o, depth) ==
    IF depth >= MaxDepth THEN block(node(s, o, "PRESENT"), "limit")
    ELSE Push([node(s, o, "PRESENT") EXCEPT !.subjects = @ \union {o}],
              Frame(IF Kind[o] = "INDEX" THEN "visit" ELSE "blob", Content[o], depth + 1, o)
              \o Frame("visit", {Subject[o]} \ {Absent}, depth + 1, o)
              \o Frame("referrers", {o}, depth, Absent))

visit(s, o, depth, answer) ==
    LET s1 == node(s, o, "UNKNOWN")
        s2 == [s1 EXCEPT !.visited = @ \union {o}, !.depths = With(@, o, depth)]
    IN IF o \in s.visited THEN s1
       ELSE IF answer = "ok" THEN Expanded(s2, o, depth)
       ELSE block(s2, answer)

(* A referrer counts once its own manifest confirmed its subject.            *)
linked(s, frame, o) ==
    IF frame.op = "referrer" /\ o \notin s.subjects THEN block(s, "descriptor_conflict")
    ELSE edge(s, frame.from, o)

-----------------------------------------------------------------------------
(* The scan                                                                 *)

Scanning == scan # Absent

(* The object whose turn it is.                                              *)
Turn(ops, o) ==
    /\ Scanning /\ scan.stack # <<>>
    /\ Top(scan).op \in ops
    /\ o \in Top(scan).objs /\ \A p \in Top(scan).objs : o <= p

(* A GET fails on the way; the scan goes on without the answer.  A registry
   without referrers answers 404 instead: a fallback tag may list some.      *)
Failed == Change /\ UNCHANGED <<registry, now, knowledge, authority, observations, inventories, journal, fixed>>
Read == UNCHANGED <<registry, now, knowledge, authority, observations, inventories, journal, changes>>

fetch(o, answer) ==
    \/ answer = Answer(o) /\ Read
    \/ answer = "request_failed" /\ Failed

(* What was read, or could not be, is not asked for again.                   *)
Asked(known1, o, answer) == IF known1 THEN answer = "ok" /\ Read ELSE fetch(o, answer)

VisitNext(o) ==
    /\ Turn({"visit", "referrer"}, o)
    /\ \E answer \in {"ok", "missing", "request_failed"} :
          /\ Asked(o \in scan.visited, o, answer)
          /\ scan' = linked(visit(Pop(scan, o), o, Top(scan).depth, answer), Top(scan), o)
    /\ UNCHANGED fixed

BlobNext(o) ==
    /\ Turn({"blob"}, o)
    /\ \E answer \in {"ok", "missing", "request_failed"} :
          /\ Asked(Has(scan, o), o, answer)
          /\ scan' = blob(Pop(scan, o), o, Top(scan).from, answer)
    /\ UNCHANGED fixed

(* Page by page in the code; a page that fails or repeats is a blocker.      *)
referrers(d, refs, code) ==
    \/ refs = Referrers(d) /\ code = "" /\ Read
    \/ refs \subseteq Referrers(d) /\ code = "referrers_unknown" /\ Failed
    \/ refs = {} /\ code = "request_failed" /\ Failed

Told(s, code) == IF code = "" THEN s ELSE block(s, code)

ReferrersNext(d) ==
    /\ Turn({"referrers"}, d)
    /\ \E refs \in SUBSET Referrers(d), code \in {"", "referrers_unknown", "request_failed"} :
          /\ referrers(d, refs, code)
          /\ scan' = Push([Told(Pop(scan, d), code) EXCEPT !.refsets = With(@, d, refs)],
                          Frame("referrer", refs, Top(scan).depth + 1, d))
    /\ UNCHANGED fixed

(* The tags are listed, ...                                                  *)
Listed == {t \in Tags : tags[t] # Absent}

tagsList ==
    /\ Scanning /\ scan.stack = <<>> /\ scan.todo = {} /\ scan.phase \in {"ROOTS", "TAGS"}
    /\ LET again == scan.phase = "TAGS"
           next(list) == [scan EXCEPT !.todo = list, !.aliases = {},
                                      !.first = scan.aliases,
                                      !.phase = IF again THEN "AGAIN" ELSE "TAGS"]
       IN \/ /\ Read
             /\ scan' = next(Listed)
             /\ fixed' = IF again THEN [objects |-> present, tags |-> Listed] ELSE fixed
          \/ /\ Failed
             /\ scan' = block(next({}), "request_failed")

(* ... and resolved one by one; a tag may have moved or gone meanwhile.      *)
resolveTags(t) ==
    /\ Scanning /\ scan.stack = <<>> /\ scan.phase \in {"TAGS", "AGAIN"} /\ t \in scan.todo
    /\ LET next == [scan EXCEPT !.todo = @ \ {t}]
           resolved == tags[t] # Absent /\ tags[t] \in present
       IN \/ /\ resolved /\ Read
             /\ scan' = [visit(next, tags[t], 0, "ok") EXCEPT
                            !.aliases = @ \union {<<t, tags[t]>>}, !.roots = @ \union {tags[t]}]
          \/ /\ ~resolved /\ Read
             /\ scan' = block([next EXCEPT !.aliases = @ \union {<<t, Absent>>}], "missing")
          \/ /\ Failed
             /\ scan' = block([next EXCEPT !.aliases = @ \union {<<t, Absent>>}], "request_failed")
    /\ UNCHANGED fixed

(* Mutant: the referrers are not read again.                                 *)
ComparedTagsOnly ==
    /\ Scanning /\ scan.stack = <<>> /\ scan.phase = "AGAIN" /\ scan.todo = {}
    /\ LET next == [scan EXCEPT !.phase = "REREAD"]
       IN scan' = IF scan.aliases = scan.first THEN next ELSE block(next, "discovery_changed")
    /\ Read /\ UNCHANGED fixed

(* Both looks at the tags must agree; what the second one found was visited. *)
Compared ==
    /\ Scanning /\ scan.stack = <<>> /\ scan.phase = "AGAIN" /\ scan.todo = {}
    /\ LET next == [scan EXCEPT !.phase = "REREAD", !.todo = DOMAIN scan.refsets]
       IN scan' = IF scan.aliases = scan.first THEN next ELSE block(next, "discovery_changed")
    /\ Read /\ UNCHANGED fixed

(* At last the referrers of everything read are read again.                  *)
Reread(d) ==
    /\ Scanning /\ scan.stack = <<>> /\ scan.phase = "REREAD"
    /\ d \in scan.todo /\ \A e \in scan.todo : d <= e
    /\ LET next == [scan EXCEPT !.todo = @ \ {d}]
       IN \E refs \in SUBSET Referrers(d), code \in {"", "referrers_unknown", "request_failed"} :
             /\ referrers(d, refs, code)
             /\ scan' = IF refs = scan.refsets[d] THEN Told(next, code)
                        ELSE Push(block(Told(next, code), "discovery_changed"),
                                  Frame("referrer", refs, scan.depths[d] + 1, d))
    /\ UNCHANGED fixed

-----------------------------------------------------------------------------
(* The graph                                                                *)

(* Reached from "from" along at most n edges.                                *)
Within(edges, from, n) ==
    LET step[i \in Nat] ==
            IF i = 0 THEN from
            ELSE LET prev == step[i - 1]
                 IN prev \union {e[2] : e \in {x \in edges : x[1] \in prev}}
    IN step[n]

Closed(edges, S) == \A e \in edges : e[1] \in S => e[2] \in S

(* Reached along any number: in every set that holds "from" and is closed.   *)
Reachable(edges, from) ==
    {o \in Objects : \A S \in SUBSET Objects : from \subseteq S /\ Closed(edges, S) => o \in S}

Complete(s) == s.blockers = {}

(* Everything an image needs to be pulled.                                   *)
PullEdges == {e \in Objects \X Objects : e[2] \in Content[e[1]]}
Pull(roots) == Reachable(PullEdges, roots)

(* A root's bytes are proven when nothing but metadata is in doubt.          *)
imageContentRoots(s, roots) ==
    {r \in roots : /\ s.blockers \subseteq {"referrers_unknown", "missing"}
                   /\ \A o \in Pull({r}) : Has(s, o)
                   /\ Within(PullEdges, {r}, MaxDepth) = Pull({r})}

(* A graph deeper below one of its roots than the limit is no report at all,
   even if every object was first met above the limit.                       *)
ValidateRegistryGraph(s, roots) ==
    /\ roots \subseteq s.roots
    /\ \A r \in s.roots :
          /\ Within(s.edges, {r}, MaxDepth) = Reachable(s.edges, {r})
          /\ Complete(s) => \A o \in Reachable(s.edges, {r}) : Has(s, o)

Report(s, job) ==
    [job |-> job, started |-> journal.started, finished |-> now, nodes |-> s.nodes,
     edges |-> s.edges, roots |-> s.roots, complete |-> Complete(s),
     content |-> imageContentRoots(s, observations[job].roots),
     fixed |-> [objects |-> fixed.objects, roots |-> {tags[t] : t \in fixed.tags}]]

-----------------------------------------------------------------------------
(* The observer process                                                     *)

Nothing == [objects |-> {}, tags |-> {}]

Empty == [state |-> "none", job |-> 0, config |-> 0, started |-> Absent, report |-> Absent]

Idle == scan = Absent /\ journal.config = config
Kept == UNCHANGED <<registry, now, knowledge, authority>>

registryWorkerAllowed(j) == observations[j].config = config /\ current /\ ~quarantined

(* Only with no work of its own left in the journal.  The answer is lost or
   the process dies before the journal has it.                               *)
Claim(j) ==
    /\ scan = Absent
    /\ journal.state = "none" \/ (journal.state = "done" /\ journal.config = config)
    /\ observations[j].status = "QUEUED" /\ registryWorkerAllowed(j)
    /\ observations' = [observations EXCEPT ![j].status = "CLAIMED"]
    /\ \/ /\ journal' = [Empty EXCEPT !.state = "claimed", !.job = j, !.config = config]
          /\ UNCHANGED changes
       \/ journal' = Empty /\ Change
    /\ UNCHANGED <<inventories, scan>> /\ Kept /\ UNCHANGED fixed

(* Starting is asked for again after a restart; the first time is kept.      *)
Start ==
    /\ Idle /\ journal.state \in {"claimed", "started"}
    /\ observations[journal.job].status \in {"CLAIMED", "RUNNING"} /\ registryWorkerAllowed(journal.job)
    /\ observations' = [observations EXCEPT ![journal.job].status = "RUNNING"]
    /\ \/ /\ journal' = [journal EXCEPT !.state = "started",
                                        !.started = IF @ = Absent THEN now ELSE @]
          /\ now - journal'.started <= Timeout
          /\ scan' = scanner(observations[journal.job].roots)
          /\ UNCHANGED changes
       \/ Change /\ UNCHANGED <<journal, scan>>
    /\ UNCHANGED inventories /\ Kept /\ UNCHANGED fixed

(* The scan ended in time: the report is made durable before it is sent.     *)
Observed ==
    /\ Scanning /\ scan.stack = <<>> /\ scan.phase = "REREAD" /\ scan.todo = {}
    /\ now - journal.started <= Timeout
    /\ scan' = Absent
    /\ journal' = IF ValidateRegistryGraph(scan, observations[journal.job].roots)
                  THEN [journal EXCEPT !.state = "report", !.report = Report(scan, journal.job)]
                  ELSE journal
    /\ UNCHANGED <<observations, inventories, changes>> /\ Kept /\ fixed' = Nothing

(* Its time is over, a heartbeat failed or the process died: nothing is said.*)
Interrupted ==
    /\ scan # Absent
    /\ scan' = Absent
    /\ \/ /\ now - journal.started > Timeout \/ ~registryWorkerAllowed(journal.job)
          /\ UNCHANGED changes
       \/ Change
    /\ UNCHANGED <<observations, inventories, journal>> /\ Kept /\ fixed' = Nothing

(* The server checks the report against the frozen job and its own clock.    *)
Admissible(g) ==
    /\ g.started <= g.finished /\ g.finished <= now
    /\ g.finished - g.started <= Timeout
    /\ observations[g.job].roots \subseteq g.roots

admitRegistryInventory(g) ==
    inventories \union {[received |-> now, config |-> observations[g.job].config, graph |-> g]}

(* The report is sent until it is answered.  The server admits it once, and
   knows it again when the answer was lost.                                  *)
Send ==
    /\ Idle /\ journal.state = "report"
    /\ registryWorkerAllowed(journal.job)
    /\ observations[journal.job].status \in {"RUNNING", "SUCCEEDED"}
    /\ Admissible(journal.report)
    /\ observations' = [observations EXCEPT ![journal.job].status = "SUCCEEDED"]
    /\ inventories' = IF observations[journal.job].status = "SUCCEEDED" THEN inventories
                      ELSE admitRegistryInventory(journal.report)
    /\ \/ journal' = [journal EXCEPT !.state = "done", !.report = Absent] /\ UNCHANGED changes
       \/ Change /\ UNCHANGED journal
    /\ UNCHANGED scan /\ Kept /\ UNCHANGED fixed

-----------------------------------------------------------------------------
(* The server                                                               *)

(* A person asks for an observation of all images known at this moment.      *)
refreshRegistryInventory ==
    /\ Len(observations) < MaxObservations
    /\ current /\ ~quarantined
    /\ observations' = Append(observations, [status |-> "QUEUED", roots |-> known, config |-> config, updated |-> now])
    /\ UNCHANGED <<inventories, journal, scan, changes>> /\ Kept /\ UNCHANGED fixed

(* Deadlines, and leases that only a running scan renews.  There is one
   attempt.                                                                  *)
recoverWorker(j) ==
    /\ observations[j].status \in {"QUEUED", "CLAIMED", "RUNNING"}
    /\ scan = Absent \/ journal.job # j
    /\ observations' = [observations EXCEPT ![j].status = CASE @ = "RUNNING" -> "RECONCILIATION_REQUIRED"
                                            [] @ = "CLAIMED" -> "FAILED"
                                            [] OTHER -> "DEADLINE_EXCEEDED",
                            ![j].updated = now]
    /\ Change
    /\ UNCHANGED <<inventories, journal, scan>> /\ Kept /\ UNCHANGED fixed

(* Mutant: only the time of admission counts.                                *)
FreshlyReceived(v) == IF now - v.received <= Window THEN "FRESH" ELSE "STALE"

RegistryInventoryFreshness(v) ==
    IF \A at \in {v.graph.started, v.graph.finished, v.received} : now - at <= Window
    THEN "FRESH" ELSE "STALE"

inventoryMatches(v) == v.config = config

registryLatest ==
    {v \in inventories : inventoryMatches(v) /\
        \A w \in inventories : inventoryMatches(w) => w.received <= v.received}

registryCovered(g, o) ==
    /\ g.complete /\ o \in Reachable(g.edges, g.roots)
    /\ Has(g, o) /\ o \in Manifests

(* A job that failed after the latest inventory leaves its outcome unknown.  *)
Unknown(received) ==
    \E j \in 1..Len(observations) :
       /\ observations[j].config = config
       /\ observations[j].status \in {"FAILED", "RECONCILIATION_REQUIRED", "DEADLINE_EXCEEDED"}
       /\ observations[j].updated > received

(* One verdict on the latest inventory; two of the same time decide nothing. *)
registrySummary ==
    IF quarantined THEN "QUARANTINED"
    ELSE IF ~current THEN "AUTHORITY_UNKNOWN"
    ELSE IF registryLatest = {} THEN IF Unknown(-1) THEN "UNKNOWN" ELSE "MISSING"
    ELSE IF Cardinality({v.graph : v \in registryLatest}) > 1 THEN "UNKNOWN"
    ELSE LET latest == CHOOSE v \in registryLatest : TRUE
         IN IF Unknown(latest.received) THEN "UNKNOWN"
            ELSE IF RegistryInventoryFreshness(latest) = "STALE" THEN "STALE"
            ELSE IF \E o \in known : ~registryCovered(latest.graph, o) THEN "PARTIAL"
            ELSE IF ~latest.graph.complete THEN "PARTIAL"
            ELSE "CURRENT"

(* Mutant: the edges of the latest inventories replace the older ones.       *)
LatestEdges ==
    UNION {v.graph.edges : v \in {w \in inventories :
        \A x \in inventories : x.received <= w.received}}

HistoricalEdges == UNION {v.graph.edges : v \in inventories}

(* Objects protected: what history ever found below a root protected now.    *)
registryRetention == Reachable(HistoricalEdges, protected)

-----------------------------------------------------------------------------
(* Everyone else                                                            *)

Elsewhere == UNCHANGED <<authority, observations, inventories, journal, scan>>

Seen == lastSeen' = [o \in Objects |-> IF o \in present \union present' THEN now ELSE lastSeen[o]]
Unfixed == fixed' = [objects |-> fixed.objects \intersect present',
                     tags |-> {t \in fixed.tags : tags'[t] = tags[t]}]

(* A registry accepts a manifest when its content is there, ...              *)
PushObject(o) ==
    /\ Change
    /\ o \notin present
    /\ present' = present \union {o} \union Content[o]
    /\ UNCHANGED <<tags, now, knowledge>>
    /\ Seen /\ Unfixed /\ Elsewhere

(* ... and forgets what people or its own collector delete.                  *)
DeleteObject(o) ==
    /\ Change
    /\ o \in present
    /\ present' = present \ {o}
    /\ tags' = [t \in Tags |-> IF tags[t] = o THEN Absent ELSE tags[t]]
    /\ UNCHANGED <<now, knowledge>>
    /\ Seen /\ Unfixed /\ Elsewhere

Retag(t, o) ==
    /\ Change
    /\ o # tags[t]
    /\ o = Absent \/ o \in present \intersect Manifests
    /\ tags' = [tags EXCEPT ![t] = o]
    /\ UNCHANGED <<present, lastSeen, now, knowledge>>
    /\ Unfixed /\ Elsewhere

(* An image is admitted, or a reason to keep one ends.                       *)
Know(o) ==
    /\ Change
    /\ o \in Manifests \ known
    /\ known' = known \union {o} /\ protected' = protected \union {o}
    /\ UNCHANGED <<registry, now, fixed>> /\ Elsewhere

Unprotect(o) ==
    /\ Change
    /\ o \in protected
    /\ protected' = protected \ {o}
    /\ UNCHANGED <<registry, now, known, fixed>> /\ Elsewhere

Tick ==
    /\ now < MaxTime
    /\ now' = now + 1
    /\ lastSeen' = [o \in Objects |-> IF o \in present THEN now + 1 ELSE lastSeen[o]]
    /\ UNCHANGED <<present, tags, knowledge, fixed, changes>> /\ Elsewhere

(* The operator changes the configuration, or the grant ends.                *)
Reconfigure ==
    /\ Change
    /\ \/ config' = config + 1 /\ UNCHANGED current
       \/ current' = ~current /\ UNCHANGED config
    /\ UNCHANGED <<registry, now, knowledge, quarantined, observations, inventories, journal, scan, fixed>>

RestoreBackup ==
    /\ Change
    /\ ~quarantined
    /\ quarantined' = TRUE
    /\ UNCHANGED <<registry, now, knowledge, config, current, observations, inventories, journal, scan, fixed>>

-----------------------------------------------------------------------------

RegistryInit ==
    /\ present = InitPresent
    /\ tags \in [Tags -> (InitPresent \intersect Manifests) \union {Absent}]
    /\ now = 0
    /\ known = InitKnown /\ protected = InitKnown
    /\ config = 1 /\ current = TRUE /\ quarantined = FALSE
    /\ observations = <<>> /\ inventories = {} /\ journal = Empty /\ scan = Absent
    /\ fixed = Nothing
    /\ lastSeen = [o \in Objects |-> IF o \in InitPresent THEN 0 ELSE Absent]
    /\ changes = 0

ScanNext ==
    \/ \E o \in Objects : VisitNext(o) \/ BlobNext(o) \/ ReferrersNext(o) \/ Reread(o)
    \/ tagsList \/ (\E t \in Tags : resolveTags(t)) \/ Compared

RegistryNext ==
    \/ ScanNext
    \/ \E j \in 1..Len(observations) : Claim(j) \/ recoverWorker(j)
    \/ Start \/ Observed \/ Interrupted \/ Send
    \/ refreshRegistryInventory
    \/ \E o \in Objects : PushObject(o) \/ DeleteObject(o) \/ Know(o) \/ Unprotect(o)
    \/ \E t \in Tags, o \in Objects \union {Absent} : Retag(t, o)
    \/ Tick \/ Reconfigure \/ RestoreBackup

RegistrySpec == RegistryInit /\ [][RegistryNext]_registryVars

-----------------------------------------------------------------------------
(* Properties                                                               *)

(* What a complete report cannot have missed: below the images known when it
   was asked for and below the tags that did not move since the scan began
   its second look, all content, subjects, and the referrers that were there
   all that time.                                                            *)
Inescapable(g) ==
    Reachable(PullEdges
              \union {<<o, Subject[o]>> : o \in {x \in Objects : Subject[x] # Absent}}
              \union {<<Subject[o], o>> : o \in {x \in g.fixed.objects : Subject[x] # Absent}},
              observations[g.job].roots \union g.fixed.roots)

(* A report that calls itself complete has read all of it, although objects
   and tags change between any two requests; one that proves an image's
   content has read every byte of it even if metadata is missing
   (graph.go, Observe; image_content.go, imageContentRoots).                 *)
CompleteIsTrue ==
    journal.report # Absent =>
       LET g == journal.report
           read == {o \in Objects : Has(g, o)}
       IN /\ g.complete => Inescapable(g) \subseteq read
          /\ Pull(g.content) \subseteq read

(* While the report says CURRENT, every image the product knows, and all that
   is needed to pull it, was in the registry within the window, whatever
   crashes and late answers the inventory has behind it; and what protected
   images need is protected (registry_retention.go, registrySummary).        *)
CurrentIsCurrent ==
    registrySummary = "CURRENT" =>
       /\ \A o \in Pull(known) : lastSeen[o] # Absent /\ now - lastSeen[o] <= Window
       /\ Pull(protected) \subseteq registryRetention

(* A newer, partial look never gives up what an older one found below an image
   that is still protected (registry_retention.go, registryRetention).       *)
ClosureIsKept ==
    [][inventories' # inventories \/ protected' # protected =>
          Reachable(HistoricalEdges, protected \intersect protected') \subseteq registryRetention']_registryVars
=============================================================================
