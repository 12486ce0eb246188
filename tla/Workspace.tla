----------------------------- MODULE Workspace -----------------------------
(***************************************************************************)
(* A local Workspace on disk: initialization, opening, optional children   *)
(* and the advancement of the Project/Profile generation with its recovery *)
(* (local_application/workspace, local_durable_store.py).                  *)
(*                                                                         *)
(* A generation is spread over two documents, the binding and a row of the *)
(* Research State.  Nothing writes them together: an advancement writes a  *)
(* marker first and recovery undoes what it finds.  Every open Workspace   *)
(* holds an OS lock shared, an advancement and a recovery exclusively.     *)
(***************************************************************************)
EXTENDS Naturals

CONSTANTS
    Procs,          \* processes, one thread each
    Kids,           \* optional durable children
    FirstConfig,    \* the Project Config given to init
    FirstProfile,   \* the Effective Profile Set given to init
    Requests,       \* direct Profile requests an operator may ask for
    Metadata,       \* answers on publication metadata; "none" is no answer yet
    ProfilesFor,    \* the sets manifests can resolve to, for each request
    MaxAttempts,    \* bound on advancements that get as far as their marker
    MaxFaults       \* bound on crashes, I/O failures and lost files together

ASSUME RequestsResolve == Requests \subseteq DOMAIN ProfilesFor
ASSUME FirstFits ==
    /\ FirstConfig = [rest |-> FirstConfig.rest, requests |-> FirstConfig.requests,
                      metadata |-> FirstConfig.metadata, version |-> FirstConfig.version,
                      derived |-> FirstConfig.derived, notes |-> FirstConfig.notes]
    /\ FirstConfig.requests \in Requests
    /\ FirstProfile \in ProfilesFor[FirstConfig.requests]
ASSUME BoundsAreNat == MaxAttempts \in Nat /\ MaxFaults \in Nat

VARIABLES
    disk,       \* the files of the Workspace
    state,      \* the Research State: pinned generation, captured Evidence
    lock,       \* how each process holds the Workspace lock
    pc,         \* where each process is
    job,        \* its locals
    attempts, faults,
    accepted    \* history: children that ever accepted domain data

vars == <<disk, state, lock, pc, job, attempts, faults, accepted>>

(* A file or a value that is not there.                                    *)
None == [absent |-> TRUE]

Gen(c, e) == [config |-> c, profile |-> e]
First == Gen(FirstConfig, FirstProfile)

-----------------------------------------------------------------------------
(* Project Configs and Profile sets: what an advancement may change.       *)

(* The config profile resolve prepares: new requests, or the answer to the *)
(* publication question, and the provenance that follows mechanically.     *)
TargetConfig(c, requests, metadata) ==
    LET asked == c.requests # requests
        told  == metadata # "none" /\ metadata # c.metadata
    IN  IF ~asked /\ ~told THEN c
        ELSE [c EXCEPT !.requests = requests,
                       !.metadata = IF told THEN metadata ELSE @,
                       !.version  = IF told THEN @ + 1 ELSE @,
                       !.derived  = @ \cup {c},
                       !.notes    = @ \cup (IF asked THEN {"profile"} ELSE {})
                                      \cup (IF told THEN {"metadata"} ELSE {})]

(* The delta guard of profile advance, written apart from the above.       *)
DeltaAllowed(c, t) ==
    LET asked == c.requests # t.requests
        told  == c.metadata # t.metadata
    IN  /\ t.rest = c.rest
        /\ told => t.metadata # "none" /\ t.version = c.version + 1
        /\ ~told => t.version = c.version
        /\ IF asked \/ told
           THEN /\ t.derived = c.derived \cup {c}
                /\ t.notes = c.notes \cup (IF asked THEN {"profile"} ELSE {})
                                     \cup (IF told THEN {"metadata"} ELSE {})
           ELSE t.derived = c.derived /\ t.notes = c.notes

(* One Profile id and version keeps its manifest.                          *)
SameIdentitySameContent(e, t) ==
    \A x \in e.pins, y \in t.pins : x.id = y.id => x.digest = y.digest

(* A strengthened Core invariant stays at least as strong.                 *)
CoreNotWeakened(e, t) == e.strengthened \subseteq t.strengthened

(* Evidence already captured has the fields the target requires.           *)
StateCompatible(evidence, t) == \A x \in evidence : t.required \subseteq x

AdmittedWeakened(old, new, evidence) ==
    /\ new.profile.requested = new.config.requests
    /\ DeltaAllowed(old.config, new.config)
    /\ SameIdentitySameContent(old.profile, new.profile)
    /\ StateCompatible(evidence, new.profile)

Admitted(old, new, evidence) ==
    /\ new.profile.requested = new.config.requests
    /\ DeltaAllowed(old.config, new.config)
    /\ SameIdentitySameContent(old.profile, new.profile)
    /\ CoreNotWeakened(old.profile, new.profile)
    /\ StateCompatible(evidence, new.profile)

(* The files an operator may hand to profile advance.                      *)
Targets(g) ==
    LET configs == {TargetConfig(g.config, r, m) : r \in Requests, m \in Metadata}
                     \cup {[g.config EXCEPT !.rest = "edited"]}
    IN  UNION {{Gen(c, e) : e \in ProfilesFor[c.requests]} : c \in configs}

-----------------------------------------------------------------------------
(* Disk, lock and steps                                                    *)

Documents == Gen(disk.config, disk.profile)

(* What open verifies: documents, binding and Research State pins agree.   *)
Agrees ==
    /\ disk.binding # None /\ state # None
    /\ Documents = disk.binding.gen
    /\ state.gen = disk.binding.gen

Archived(g) == IF g \in DOMAIN disk.history THEN disk.history[g] ELSE "absent"
WithArchive(h, g, x) == [y \in DOMAIN h \cup {g} |-> IF y = g THEN x ELSE h[y]]
Without(h, gens) == [y \in DOMAIN h \ gens |-> h[y]]

(* Children whose files are there and healthy but not in the binding.      *)
Unregistered == {k \in Kids : disk.store[k] # "absent" /\ k \notin disk.binding.kids}

SharedFree(p) == \A q \in Procs \ {p} : lock[q] # "exclusive"
AllFree(p) == \A q \in Procs \ {p} : lock[q] = "none"

NoJob == [then |-> "none", old |-> None, kid |-> None, read |-> None]

At(p, here) == pc[p] = here
Go(p, there) == pc' = [pc EXCEPT ![p] = there]
Take(p, mode) == lock' = [lock EXCEPT ![p] = mode]

(* The call ends, by returning or raising: locks are released.             *)
Leave(p) ==
    /\ Take(p, "none")
    /\ Go(p, "idle")
    /\ job' = [job EXCEPT ![p] = NoJob]

Init ==
    /\ disk = [made |-> FALSE, intent |-> "none", config |-> None, profile |-> None,
               binding |-> None, marker |-> None, history |-> [g \in {} |-> None],
               events |-> {}, store |-> [k \in Kids |-> "absent"]]
    /\ state = None
    /\ lock = [p \in Procs |-> "none"]
    /\ pc = [p \in Procs |-> "idle"]
    /\ job = [p \in Procs |-> NoJob]
    /\ attempts = 0 /\ faults = 0
    /\ accepted = {}

counters == <<attempts, faults, accepted>>

(* A step of p that changes files only.                                    *)
Write(p, here, d, there) ==
    /\ At(p, here)
    /\ disk' = d
    /\ Go(p, there)
    /\ UNCHANGED <<state, lock, job, counters>>

-----------------------------------------------------------------------------
(* init                                                                    *)

InitBegin(p) ==
    /\ ~disk.made
    /\ Write(p, "idle", [disk EXCEPT !.made = TRUE], "init-lock")

InitLock(p) ==
    /\ At(p, "init-lock") /\ AllFree(p)
    /\ Take(p, "exclusive")
    /\ Go(p, "init-intent")
    /\ UNCHANGED <<disk, state, job, counters>>

InitIntent(p) == Write(p, "init-intent", [disk EXCEPT !.intent = "PRE_STATE"], "init-config")
InitConfig(p) == Write(p, "init-config", [disk EXCEPT !.config = FirstConfig], "init-profile")
InitProfile(p) == Write(p, "init-profile", [disk EXCEPT !.profile = FirstProfile], "init-started")
InitStarted(p) == Write(p, "init-started", [disk EXCEPT !.intent = "STATE_STARTED"], "init-state")

InitState(p) ==
    /\ At(p, "init-state")
    /\ state' = [gen |-> First, evidence |-> {}]
    /\ Go(p, "init-binding")
    /\ UNCHANGED <<disk, lock, job, counters>>

InitBinding(p) ==
    Write(p, "init-binding", [disk EXCEPT !.binding = [gen |-> First, kids |-> {}]], "init-done")

(* The exclusive lock is given up before the new Workspace is opened.      *)
InitDone(p) ==
    /\ At(p, "init-done")
    /\ disk' = [disk EXCEPT !.intent = "none"]
    /\ Take(p, "none")
    /\ Go(p, "open")
    /\ UNCHANGED <<state, job, counters>>

(* init-finish removes the marker of an initialization that got as far as  *)
(* its binding, after verifying everything under the exclusive lock.       *)
Finish(p) ==
    /\ At(p, "idle") /\ disk.intent # "none"
    /\ AllFree(p)
    /\ Agrees
    /\ disk' = [disk EXCEPT !.intent = "none"]
    /\ UNCHANGED <<state, lock, pc, job, counters>>

InitStep(p) ==
    \/ InitBegin(p) \/ InitLock(p) \/ InitIntent(p) \/ InitConfig(p)
    \/ InitProfile(p) \/ InitStarted(p) \/ InitState(p) \/ InitBinding(p)
    \/ InitDone(p)

-----------------------------------------------------------------------------
(* recovery                                                                *)

marker == disk.marker

RecoverLock(p) ==
    /\ At(p, "recover-lock") /\ AllFree(p)
    /\ Take(p, "exclusive")
    /\ Go(p, "recover")
    /\ UNCHANGED <<disk, state, job, counters>>

(* Where the caller of recovery goes on.                                   *)
Resume(p) ==
    CASE job[p].then = "share"    -> Take(p, "none") /\ Go(p, "share") /\ UNCHANGED job
      [] job[p].then = "adv-read" -> Go(p, "adv-read") /\ UNCHANGED <<lock, job>>
      [] job[p].then = "failed"   -> Leave(p)

(* The marker is read again under the lock; the database goes first.       *)
RecoverState(p) ==
    /\ At(p, "recover")
    /\ IF marker = None
       THEN Resume(p) /\ UNCHANGED state
       ELSE IF state.gen \in {marker.old.gen, marker.new.gen}
       THEN /\ state' = [state EXCEPT !.gen = marker.old.gen]
            /\ Go(p, "undo-config")
            /\ UNCHANGED <<lock, job>>
       ELSE Leave(p) /\ UNCHANGED state
    /\ UNCHANGED <<disk, counters>>

UndoConfig(p) ==
    Write(p, "undo-config", [disk EXCEPT !.config = marker.old.gen.config], "undo-profile")
(* Seeded fault: the profile set is not restored.                          *)
UndoProfileForgotten(p) == Write(p, "undo-profile", disk, "undo-binding")

UndoProfile(p) ==
    Write(p, "undo-profile", [disk EXCEPT !.profile = marker.old.gen.profile], "undo-binding")
UndoBinding(p) ==
    Write(p, "undo-binding", [disk EXCEPT !.binding = marker.old], "undo-event")
UndoEvent(p) ==
    Write(p, "undo-event", [disk EXCEPT !.events = @ \ {marker.event}], "undo-history")
UndoHistory(p) ==
    Write(p, "undo-history", [disk EXCEPT !.history = Without(@, marker.created)], "undo-marker")

UndoMarker(p) ==
    /\ At(p, "undo-marker")
    /\ disk' = [disk EXCEPT !.marker = None]
    /\ Resume(p)
    /\ UNCHANGED <<state, counters>>

RecoverStep(p) ==
    \/ RecoverLock(p) \/ RecoverState(p) \/ UndoConfig(p) \/ UndoProfile(p)
    \/ UndoBinding(p) \/ UndoEvent(p) \/ UndoHistory(p) \/ UndoMarker(p)

-----------------------------------------------------------------------------
(* open, use, close                                                        *)

(* Seeded fault: an announced advancement is not recovered on opening.     *)
OpenUnrecovered(p) ==
    /\ pc[p] \in {"idle", "open"} /\ disk.made
    /\ job' = [job EXCEPT ![p].then = "share"]
    /\ Go(p, "share")
    /\ UNCHANGED <<disk, state, lock, counters>>

Open(p) ==
    /\ pc[p] \in {"idle", "open"} /\ disk.made
    /\ job' = [job EXCEPT ![p].then = "share"]
    /\ Go(p, IF marker # None THEN "recover-lock" ELSE "share")
    /\ UNCHANGED <<disk, state, lock, counters>>

Share(p) ==
    /\ At(p, "share") /\ SharedFree(p)
    /\ Take(p, "shared")
    /\ Go(p, "verify")
    /\ UNCHANGED <<disk, state, job, counters>>

(* A marker that appeared meanwhile would need the exclusive lock, which a *)
(* shared holder is refused.                                               *)
Openable == marker = None /\ disk.intent = "none" /\ Agrees

Verify(p) ==
    /\ At(p, "verify")
    /\ IF Openable
       THEN /\ job' = [job EXCEPT ![p] = [NoJob EXCEPT !.old = disk.binding]]
            /\ Go(p, "using")
            /\ UNCHANGED lock
       ELSE Leave(p)
    /\ UNCHANGED <<disk, state, counters>>

(* The first write to an optional child creates its file, unless the       *)
(* binding says there should be one.                                       *)
StoreOpen(p, k) ==
    /\ At(p, "using")
    /\ ~(k \in disk.binding.kids /\ disk.store[k] = "absent")
    /\ disk' = [disk EXCEPT !.store[k] = IF @ = "absent" THEN "empty" ELSE @]
    /\ job' = [job EXCEPT ![p].kid = k, ![p].then = "accept"]
    /\ Go(p, "register")
    /\ UNCHANGED <<state, lock, counters>>

(* The binding is read and replaced as a whole under the inventory lock.   *)
RegisterRead(p) ==
    /\ At(p, "register")
    /\ \A q \in Procs \ {p} : pc[q] # "registering"
    /\ IF job[p].kid \in disk.binding.kids
       THEN Go(p, job[p].then) /\ UNCHANGED job
       ELSE Go(p, "registering") /\ job' = [job EXCEPT ![p].read = disk.binding]
    /\ UNCHANGED <<disk, state, lock, counters>>

RegisterWrite(p) ==
    /\ At(p, "registering")
    /\ disk' = [disk EXCEPT !.binding = [job[p].read EXCEPT !.kids = @ \cup {job[p].kid}]]
    /\ job' = [job EXCEPT ![p].read = None]
    /\ Go(p, job[p].then)
    /\ UNCHANGED <<state, lock, counters>>

StoreAccept(p) ==
    /\ At(p, "accept")
    /\ disk.store[job[p].kid] # "absent"
    /\ disk' = [disk EXCEPT !.store[job[p].kid] = "data"]
    /\ accepted' = accepted \cup {job[p].kid}
    /\ job' = [job EXCEPT ![p] = [NoJob EXCEPT !.old = job[p].old]]
    /\ Go(p, "using")
    /\ UNCHANGED <<state, lock, attempts, faults>>

(* A commit of Evidence, validated under the pinned constraints.           *)
Capture(p, x) ==
    /\ At(p, "using")
    /\ state.gen.profile.required \subseteq x
    /\ state' = [state EXCEPT !.evidence = @ \cup {x}]
    /\ UNCHANGED <<disk, lock, pc, job, counters>>

(* Closing registers what is there and unregistered, one child at a time.  *)
Close(p) ==
    /\ pc[p] \in {"using", "closing"}
    /\ IF Unregistered = {}
       THEN Leave(p)
       ELSE /\ \E k \in Unregistered :
                 job' = [job EXCEPT ![p].kid = k, ![p].then = "closing"]
            /\ Go(p, "register")
            /\ UNCHANGED lock
    /\ UNCHANGED <<disk, state, counters>>

HandleStep(p) ==
    \/ Share(p) \/ Verify(p) \/ RegisterRead(p) \/ RegisterWrite(p)
    \/ StoreAccept(p) \/ Close(p)

-----------------------------------------------------------------------------
(* profile advance                                                         *)

(* Nothing is read before the exclusive lock is held (a wait that times    *)
(* out leaves no trace); recovery of an earlier advancement comes first.   *)
AdvanceLock(p) ==
    /\ At(p, "idle") /\ disk.made
    /\ attempts < MaxAttempts
    /\ AllFree(p)
    /\ Take(p, "exclusive")
    /\ job' = [job EXCEPT ![p].then = "adv-read"]
    /\ Go(p, "recover")
    /\ UNCHANGED <<disk, state, counters>>

(* A nested open and close: the binding is copied before the close extends *)
(* it.                                                                     *)
AdvanceRead(p) ==
    /\ At(p, "adv-read")
    /\ IF Openable
       THEN /\ job' = [job EXCEPT ![p].old = disk.binding]
            /\ disk' = [disk EXCEPT !.binding.kids = @ \cup Unregistered]
            /\ Go(p, "adv-check")
            /\ UNCHANGED lock
       ELSE Leave(p) /\ UNCHANGED disk
    /\ UNCHANGED <<state, counters>>

(* A target that is refused or that is the current generation ends the     *)
(* call; any other is announced by the marker.                             *)
AdvanceCheck(p, new) ==
    LET old == job[p].old IN
    /\ At(p, "adv-check")
    /\ IF new = old.gen \/ ~Admitted(old.gen, new, state.evidence)
       THEN Leave(p) /\ UNCHANGED <<disk, attempts>>
       ELSE /\ attempts < MaxAttempts
            /\ attempts' = attempts + 1
            /\ disk' = [disk EXCEPT !.marker =
                 [old     |-> old,
                  new     |-> [gen |-> new, kids |-> old.kids],
                  created |-> {g \in {old.gen, new} : Archived(g) = "absent"},
                  event   |-> [id |-> attempts + 1, from |-> old.gen, to |-> new]]]
            /\ Go(p, "archive-old")
            /\ UNCHANGED <<lock, job>>
    /\ UNCHANGED <<state, faults, accepted>>

(* A generation is archived as a directory of two files, or is there       *)
(* already; half of one is an error.                                       *)
Archive(p, g, here, fill, there) ==
    /\ At(p, here)
    /\ CASE Archived(g) = "absent" ->
              /\ disk' = [disk EXCEPT !.history = WithArchive(@, g, "partial")]
              /\ Go(p, fill)
              /\ UNCHANGED job
         [] Archived(g) = "full" ->
              Go(p, there) /\ UNCHANGED <<disk, job>>
         [] Archived(g) = "partial" ->
              /\ job' = [job EXCEPT ![p].then = "failed"]
              /\ Go(p, "recover")
              /\ UNCHANGED disk
    /\ UNCHANGED <<state, lock, counters>>

ArchiveFill(p, g, here, there) ==
    Write(p, here, [disk EXCEPT !.history = WithArchive(@, g, "full")], there)

ArchiveStep(p) ==
    /\ marker # None
    /\ \/ Archive(p, marker.old.gen, "archive-old", "fill-old", "archive-new")
       \/ ArchiveFill(p, marker.old.gen, "fill-old", "archive-new")
       \/ Archive(p, marker.new.gen, "archive-new", "fill-new", "put-config")
       \/ ArchiveFill(p, marker.new.gen, "fill-new", "put-config")

PutConfig(p) ==
    Write(p, "put-config", [disk EXCEPT !.config = marker.new.gen.config], "put-profile")
PutProfile(p) ==
    Write(p, "put-profile", [disk EXCEPT !.profile = marker.new.gen.profile], "put-binding")
PutBinding(p) ==
    Write(p, "put-binding", [disk EXCEPT !.binding = marker.new], "rebind")

Rebind(p) ==
    /\ At(p, "rebind")
    /\ state.gen = marker.old.gen
    /\ state' = [state EXCEPT !.gen = marker.new.gen]
    /\ Go(p, "put-event")
    /\ UNCHANGED <<disk, lock, job, counters>>

(* Seeded fault: the advancement is not recorded.                          *)
PutEventForgotten(p) == Write(p, "put-event", disk, "clear")

PutEvent(p) ==
    Write(p, "put-event", [disk EXCEPT !.events = @ \cup {marker.event}], "clear")
Clear(p) ==
    Write(p, "clear", [disk EXCEPT !.marker = None], "adv-verify")

(* A nested open verifies the result; its close registers children again.  *)
AdvanceVerify(p) ==
    /\ At(p, "adv-verify")
    /\ disk' = IF Openable THEN [disk EXCEPT !.binding.kids = @ \cup Unregistered] ELSE disk
    /\ Leave(p)
    /\ UNCHANGED <<state, counters>>

AdvanceStep(p) ==
    \/ AdvanceRead(p) \/ ArchiveStep(p)
    \/ PutConfig(p) \/ PutProfile(p) \/ PutBinding(p) \/ Rebind(p)
    \/ PutEvent(p) \/ Clear(p) \/ AdvanceVerify(p)

-----------------------------------------------------------------------------
(* What goes wrong                                                         *)

Saving == {"archive-old", "fill-old", "archive-new", "fill-new", "put-config",
           "put-profile", "put-binding", "rebind", "put-event", "clear"}
Undoing == {"recover", "undo-config", "undo-profile", "undo-binding",
            "undo-event", "undo-history", "undo-marker"}
Waiting == {"init-lock", "recover-lock", "share"}

(* A write fails: an advancement rolls itself back under the lock it has.  *)
SavingFails(p) ==
    /\ pc[p] \in Saving
    /\ faults < MaxFaults
    /\ faults' = faults + 1
    /\ job' = [job EXCEPT ![p].then = "failed"]
    /\ Go(p, "recover")
    /\ UNCHANGED <<disk, state, lock, attempts, accepted>>

(* The process dies, or a recovery or an initialization raises: the lock   *)
(* goes with it and the files stay as they are.                            *)
Dies(p) ==
    /\ pc[p] # "idle"
    /\ faults < MaxFaults
    /\ faults' = faults + 1
    /\ Leave(p)
    /\ UNCHANGED <<disk, state, attempts, accepted>>

(* Waiting for the lock is bounded.                                        *)
TimesOut(p) ==
    /\ pc[p] \in Waiting
    /\ IF At(p, "share") THEN ~SharedFree(p) ELSE ~AllFree(p)
    /\ Leave(p)
    /\ UNCHANGED <<disk, state, counters>>

(* A child's file is lost while nobody is writing to it.                   *)
Lose(k) ==
    /\ disk.store[k] # "absent"
    /\ \A p \in Procs : pc[p] \in {"idle", "using"}
    /\ faults < MaxFaults
    /\ faults' = faults + 1
    /\ disk' = [disk EXCEPT !.store[k] = "absent"]
    /\ UNCHANGED <<state, lock, pc, job, attempts, accepted>>

Step(p) == InitStep(p) \/ RecoverStep(p) \/ HandleStep(p) \/ AdvanceStep(p)

Asks(p) ==
    \/ Open(p) \/ Finish(p) \/ AdvanceLock(p)
    \/ \E k \in Kids : StoreOpen(p, k)
    \/ \E r \in Requests : \E e \in ProfilesFor[r] : Capture(p, e.required)
    \/ At(p, "adv-check") /\ \E new \in Targets(job[p].old.gen) : AdvanceCheck(p, new)

Next ==
    \/ \E p \in Procs : Step(p) \/ Asks(p) \/ SavingFails(p) \/ Dies(p) \/ TimesOut(p)
    \/ \E k \in Kids : Lose(k)

Spec == Init /\ [][Next]_vars

(* A live process goes on to the end of its call; somebody opens the       *)
(* Workspace again after a crash; and of those waiting to recover it,      *)
(* somebody gets the exclusive lock if it is free again and again.         *)
FairSpec ==
    /\ Spec
    /\ \A p \in Procs : WF_vars(Step(p))
    /\ SF_vars(\E p \in Procs : Open(p))
    /\ SF_vars(\E p \in Procs : RecoverLock(p))

-----------------------------------------------------------------------------
(* Properties                                                              *)

Profiles == UNION {ProfilesFor[r] : r \in DOMAIN ProfilesFor}
Locks == {"none", "shared", "exclusive"}

FilesTyped ==
    /\ disk.made \in BOOLEAN
    /\ disk.intent \in {"none", "PRE_STATE", "STATE_STARTED"}
    /\ disk.profile \in Profiles \cup {None}
    /\ disk.binding # None => disk.binding.kids \subseteq Kids
    /\ \A g \in DOMAIN disk.history : disk.history[g] \in {"partial", "full"}
    /\ disk.store \in [Kids -> {"absent", "empty", "data"}]
    /\ attempts \in 0..MaxAttempts /\ faults \in 0..MaxFaults
    /\ accepted \subseteq Kids

LocksExclude ==
    /\ lock \in [Procs -> Locks]
    /\ \A p, q \in Procs : lock[p] = "exclusive" /\ p # q => lock[q] = "none"

TypeOK == FilesTyped /\ LocksExclude

(* Whenever no marker announces unfinished work, the two documents, the    *)
(* binding and the Research State name one generation, whatever crashed.   *)
OneGeneration ==
    disk.binding # None /\ marker = None => Agrees

(* The generation does not change under an open Workspace.                 *)
HandleStable ==
    \A p \in Procs :
        lock[p] = "shared" /\ job[p].old # None =>
            /\ disk.binding.gen = job[p].old.gen
            /\ state.gen = job[p].old.gen
            /\ marker = None

(* A recorded advancement keeps both of its generations in the archive.    *)
HistoryComplete ==
    marker = None =>
        \A x \in disk.events : Archived(x.from) = "full" /\ Archived(x.to) = "full"

(* All captured Evidence satisfies the generation in force, although the   *)
(* one is checked by commits and the other by advancements.                *)
EvidenceFits ==
    state # None /\ marker = None => StateCompatible(state.evidence, state.gen.profile)

(* A child that ever accepted data is never replaced by an empty one: lost *)
(* files are noticed, since data is only accepted once registered.         *)
NoEmptyReplacement == \A k \in accepted : disk.store[k] # "empty"

(* What profile resolve prepares, the guard of profile advance lets pass.  *)
PreparedFits ==
    state # None =>
        \A r \in Requests, m \in Metadata :
            DeltaAllowed(state.gen.config, TargetConfig(state.gen.config, r, m))

(* Whoever opens the Workspace finds one generation: Config, Profile set   *)
(* and bindings fit each other, the history has every advancement once,    *)
(* no held handle sees them change, and no store was replaced by an empty  *)
(* one.                                                                    *)
GenerationSound ==
    /\ TypeOK /\ OneGeneration /\ HandleStable /\ HistoryComplete
    /\ EvidenceFits /\ NoEmptyReplacement /\ PreparedFits

(* The generation the next open will be in.                                *)
Visible ==
    IF marker # None THEN marker.old.gen
    ELSE IF disk.binding # None THEN disk.binding.gen ELSE First

Recorded ==
    {[from |-> x.from, to |-> x.to] :
        x \in {y \in disk.events : marker = None \/ y # marker.event}}

(* What one advancement may change, whatever evidence there is.            *)
Permitted(old, new) ==
    /\ DeltaAllowed(old.config, new.config)
    /\ SameIdentitySameContent(old.profile, new.profile)
    /\ CoreNotWeakened(old.profile, new.profile)

(* The Workspace implements the abstract specification over the generation *)
(* the next open is in and the moves recorded.                             *)
G == INSTANCE Generations
    WITH MayFollow <- Permitted, current <- Visible, moves <- Recorded
GenSpec == G!Spec

(* No sequence of advancements weakens a Core invariant.                   *)
StrengtheningKept ==
    [][CoreNotWeakened(Visible.profile, Visible'.profile)]_vars

(* An interrupted advancement is undone in the end.                        *)
Settles == marker # None ~> marker = None
=============================================================================
