------------------------- MODULE PublicationRelease -------------------------
(***************************************************************************)
(* Publication builds and their release: a preview is built from one       *)
(* manuscript revision, a formal report gets a reviewed PDF, a human is    *)
(* asked for approval and the approved output is released                  *)
(* (publication_release_service.py, publication_release_requests.py).      *)
(*                                                                         *)
(* The operation record of a request is its write-ahead record: it holds   *)
(* the request, later the decision with its time.  The copy of the         *)
(* request, the artifact and the manifest follow it one by one; a process  *)
(* may die between any two of them and any file may be lost.               *)
(***************************************************************************)
EXTENDS Naturals, Sequences, FiniteSets

CONSTANTS
    Procs,          \* processes
    Manuscripts,    \* manuscript revisions
    Sound,          \* those that render with every citation and exhibit resolved
    Kinds,          \* "plain", or "report": a formal report under a coverage Profile
    MaxConfig,      \* bound on Project Config generations
    MaxRenderer,    \* bound on renderer versions
    MaxBuilds,      \* bound on builds
    MaxClock,       \* bound on requests and decisions
    MaxFaults,      \* bound on deaths and failed writes
    MaxLosses,      \* bound on lost files
    None

SoundAreManuscripts == Sound \subseteq Manuscripts

VARIABLES
    config, renderer,   \* the current Project Config and renderer
    builds,             \* immutable builds
    disk,               \* operation records, request copies, artifacts, manifests
    job,                \* what each process is doing
    clock, faults, losses,
    requested, released \* history: answered requests, answered releases

vars == <<config, renderer, builds, disk, job, clock, faults, losses, requested, released>>
setting == <<config, renderer, builds>>
history == <<requested, released>>

Idle == [op |-> "idle", on |-> None, req |-> None, rel |-> None, todo |-> <<>>]

Init ==
    /\ config = 1 /\ renderer = 1
    /\ builds = {}
    /\ disk = [ops |-> {}, copies |-> {}, artifacts |-> {}, manifests |-> {}]
    /\ job = [p \in Procs |-> Idle]
    /\ clock = 0 /\ faults = 0 /\ losses = 0
    /\ requested = {} /\ released = {}

-----------------------------------------------------------------------------
(* Builds                                                                  *)

(* A PDF review finds nothing, documented deviations, or a problem on the  *)
(* machine's or the reader's side.                                         *)
Reviews == {"clean", "deviates", "machine", "human"}

(* The Project Config moves on only while no process has the Workspace     *)
(* open; a renderer comes with a new release of the software.              *)
Advance ==
    /\ \A p \in Procs : job[p].op = "idle"
    /\ \/ config < MaxConfig /\ config' = config + 1 /\ UNCHANGED renderer
       \/ renderer < MaxRenderer /\ renderer' = renderer + 1 /\ UNCHANGED config
    /\ UNCHANGED <<builds, disk, job, clock, faults, losses, history>>

(* The identity of a build is the digest of everything it was made from.   *)
BuildPreview(m, kind) ==
    /\ Cardinality(builds) < MaxBuilds
    /\ builds' = builds \cup
         {[rev |-> m, kind |-> kind, config |-> config, renderer |-> renderer, pdf |-> None]}
    /\ UNCHANGED <<config, renderer, disk, job, clock, faults, losses, history>>

FinalizePdf(b, review) ==
    /\ Cardinality(builds) < MaxBuilds
    /\ b.kind = "report" /\ b.pdf = None
    /\ b.renderer = renderer /\ b.config = config
    /\ builds' = builds \cup {[b EXCEPT !.pdf = review]}
    /\ UNCHANGED <<config, renderer, disk, job, clock, faults, losses, history>>

Found(b, side) == IF b.pdf = side THEN "failed" ELSE "passed"
Verification(b) ==
    LET problem == b.pdf \in {"machine", "human"} IN
    [resolution |-> IF b.rev \in Sound THEN "passed" ELSE "failed",
     formal     |-> IF problem THEN "failed"
                    ELSE IF b.pdf = "deviates" \/ (b.pdf = None /\ b.kind = "report")
                    THEN "warning" ELSE "passed",
     layout     |-> IF problem THEN "failed" ELSE IF b.pdf = None THEN "warning" ELSE "passed",
     machine    |-> IF b.pdf = None THEN "absent" ELSE Found(b, "machine"),
     human      |-> IF b.pdf = None THEN "absent" ELSE Found(b, "human")]

Accepted(b, check) ==
    LET v == Verification(b) IN
    \/ v[check] = "passed"
    \/ /\ check = "formal" /\ v.formal = "warning" /\ b.pdf = "deviates"
       /\ v.machine = "passed" /\ v.human = "passed"

ReleaseChecksPass(b) ==
    /\ \A check \in {"resolution"} \cup
         (IF b.kind = "report" THEN {"formal", "machine", "human"} ELSE {}) : Accepted(b, check)
    /\ \A check \in DOMAIN Verification(b) : Verification(b)[check] # "failed"

ConfigCurrent(b) == b.kind = "report" => b.config = config

-----------------------------------------------------------------------------
(* What is on disk                                                         *)

(* An operation is addressed by what is asked; the request it holds has an *)
(* identity of its own.                                                    *)
Operation(b, renewal) == [build |-> b, renewal |-> renewal]
Record(on) == IF \E x \in disk.ops : x.req.on = on
              THEN CHOOSE x \in disk.ops : x.req.on = on ELSE None
Copy(on) == IF \E r \in disk.copies : r.on = on
            THEN CHOOSE r \in disk.copies : r.on = on ELSE None
Manifest(r) == IF \E m \in disk.manifests : m.req = r
               THEN CHOOSE m \in disk.manifests : m.req = r ELSE None

Put(f, x) == [file |-> f, val |-> x]
If(test, w) == IF test THEN <<w>> ELSE <<>>

(* An operation record replaces the one before it, other files are never   *)
(* replaced.                                                               *)
Written(d, w) ==
    CASE w.file = "op"       -> [d EXCEPT !.ops = {x \in @ : x.req.on # w.val.req.on} \cup {w.val}]
      [] w.file = "copy"     -> [d EXCEPT !.copies = @ \cup {w.val}]
      [] w.file = "artifact" -> [d EXCEPT !.artifacts = @ \cup {w.val}]
      [] w.file = "manifest" -> [d EXCEPT !.manifests = @ \cup {w.val}]

Leave(p) == job' = [job EXCEPT ![p] = Idle]
Locked(on) == \E p \in Procs : job[p].op \in {"requesting", "releasing"} /\ job[p].on = on

-----------------------------------------------------------------------------
(* request_release                                                         *)

(* The copy of a request cannot tell whether it was approved.              *)
LostFacts(on) == Record(on) = None /\ Copy(on) # None

RequestRelease(p, on) ==
    LET b == on.build  op == Record(on)  copy == Copy(on)
        r == [on |-> on, at |-> clock + 1]
        begin(req, todo) == job' = [job EXCEPT ![p] =
            [Idle EXCEPT !.op = "requesting", !.on = on, !.req = req, !.todo = todo]]
    IN  /\ job[p].op = "idle" /\ ~Locked(on)
        /\ b \in builds /\ ConfigCurrent(b) /\ ReleaseChecksPass(b)
        /\ ~LostFacts(on)
        /\ \/ /\ op # None /\ copy \in {None, op.req}
              /\ begin(op.req, If(copy = None, Put("copy", op.req)))
              /\ UNCHANGED clock
           \/ /\ op = None
              /\ b.renderer = renderer
              /\ clock < MaxClock /\ clock' = clock + 1
              /\ begin(r, <<Put("op", [req |-> r, rel |-> None]), Put("copy", r)>>)
        /\ UNCHANGED <<setting, disk, faults, losses, history>>

Requested(p) ==
    /\ job[p].op = "requesting" /\ job[p].todo = <<>>
    /\ requested' = requested \cup {job[p].req}
    /\ Leave(p)
    /\ UNCHANGED <<setting, disk, clock, faults, losses, released>>

-----------------------------------------------------------------------------
(* release                                                                 *)

(* The request a response names, from the operation record or its copy,    *)
(* read before the lock.                                                   *)
RequestLoads(r) ==
    IF Record(r.on) # None
    THEN Record(r.on).req = r /\ Copy(r.on) \in {None, r}
    ELSE Copy(r.on) = r

LoadRequest(p, r) ==
    /\ job[p].op = "idle"
    /\ RequestLoads(r) /\ ReleaseChecksPass(r.on.build)
    /\ job' = [job EXCEPT ![p] = [Idle EXCEPT !.op = "approved", !.on = r.on, !.req = r]]
    /\ UNCHANGED <<setting, disk, clock, faults, losses, history>>

(* Files of a release that are not there yet, in the order they are made.  *)
Missing(r, m) ==
    If(Copy(r.on) = None, Put("copy", r))
      \o If(r \notin disk.artifacts, Put("artifact", r))
      \o If(Manifest(r) = None, Put("manifest", m))

(* Seeded fault: an approval is recorded whatever renders by now.          *)
DecidableAlways(b) == ConfigCurrent(b)

Decidable(b) == b.renderer = renderer /\ ConfigCurrent(b)

(* Only the record knows whether a decision was made.                      *)
Unknown(op) == op = None

(* The decision an approval leads to: one already recorded, one proved by  *)
(* its manifest, or a new one; None when the approval is refused.          *)
Decision(r) ==
    LET op == Record(r.on)  found == Manifest(r) IN
    IF op # None /\ op.req # r THEN None
    ELSE IF op # None /\ op.rel # None THEN IF found \in {None, op.rel} THEN op.rel ELSE None
    ELSE IF found # None THEN IF op # None THEN None ELSE found
    ELSE IF Unknown(op) THEN None
    ELSE IF Decidable(r.on.build)
    THEN [req |-> r, at |-> clock + 1, config |-> config, renderer |-> renderer]
    ELSE None

Recording(r, m) ==
    If(Record(r.on) = None \/ Record(r.on).rel = None, Put("op", [req |-> r, rel |-> m]))
      \o Missing(r, m)

Release(p) ==
    LET r == job[p].req  m == Decision(r) IN
    /\ job[p].op = "approved" /\ ~Locked(r.on)
    /\ IF m = None THEN Leave(p) /\ UNCHANGED clock
       ELSE /\ m.at <= MaxClock
            /\ clock' = IF m.at > clock THEN m.at ELSE clock
            /\ job' = [job EXCEPT ![p].op = "releasing", ![p].rel = m, ![p].todo = Recording(r, m)]
    /\ UNCHANGED <<setting, disk, faults, losses, history>>

Released(p) ==
    /\ job[p].op = "releasing" /\ job[p].todo = <<>>
    /\ released' = released \cup {job[p].rel}
    /\ Leave(p)
    /\ UNCHANGED <<setting, disk, clock, faults, losses, requested>>

-----------------------------------------------------------------------------
(* Files and faults                                                        *)

Persist(p) ==
    /\ job[p].todo # <<>>
    /\ disk' = Written(disk, Head(job[p].todo))
    /\ job' = [job EXCEPT ![p].todo = Tail(@)]
    /\ UNCHANGED <<setting, clock, faults, losses, history>>

(* The process dies, or a write fails and ends the call.                   *)
Stops(p) ==
    /\ job[p].op \in {"requesting", "releasing"}
    /\ faults < MaxFaults /\ faults' = faults + 1
    /\ Leave(p)
    /\ UNCHANGED <<setting, disk, clock, losses, history>>

Lose ==
    /\ \A p \in Procs : job[p].op = "idle"
    /\ losses < MaxLosses /\ losses' = losses + 1
    /\ \E f \in DOMAIN disk : \E x \in disk[f] : disk' = [disk EXCEPT ![f] = @ \ {x}]
    /\ UNCHANGED <<setting, job, clock, faults, history>>

Work(p) == Requested(p) \/ Release(p) \/ Released(p) \/ Persist(p)

Ask(p) ==
    \/ \E b \in builds, old \in {None} \cup requested : RequestRelease(p, Operation(b, old))
    \/ \E r \in requested : LoadRequest(p, r)

Next ==
    \/ Advance \/ Lose
    \/ \E m \in Manuscripts, kind \in Kinds : BuildPreview(m, kind)
    \/ \E b \in builds, review \in Reviews : FinalizePdf(b, review)
    \/ \E p \in Procs : Work(p) \/ Ask(p) \/ Stops(p)

Spec == Init /\ [][Next]_vars

-----------------------------------------------------------------------------
(* Properties                                                              *)

TypeOK ==
    /\ \A b \in builds : b.config \in 1..config /\ b.renderer \in 1..renderer
    /\ \A x \in disk.ops : x.req.on.build \in builds /\ (x.rel # None => x.rel.req = x.req)
    /\ \A x, y \in disk.ops : x.req.on = y.req.on => x = y
    /\ \A p \in Procs : job[p].todo # <<>> => job[p].op \in {"requesting", "releasing"}

(* An approval request is decided once: every release answered for it, and *)
(* the one its manifest shows, has the same decision time, whatever was    *)
(* interrupted and whichever two files were lost in between.               *)
DecidedOnce ==
    \A a \in released, b \in released \cup disk.manifests : a.req = b.req => a = b

(* A decision is recorded only while the renderer of the build and, for a  *)
(* formal report, the Project Config it is bound to are the current ones.  *)
DecidedCurrent ==
    \A m \in released :
        /\ m.renderer = m.req.on.build.renderer
        /\ m.req.on.build.kind = "report" => m.config = m.req.on.build.config

(* Deaths and failed writes alone never make an answered request one that  *)
(* can neither be released nor is already: its record is there, agrees     *)
(* with every file of the release, and nothing is released without it.     *)
AlwaysReleasable ==
    losses = 0 =>
        /\ \A r \in requested : RequestLoads(r)
        /\ \A m \in disk.manifests :
             /\ m.req \in disk.artifacts
             /\ Record(m.req.on) = [req |-> m.req, rel |-> m]
=============================================================================
