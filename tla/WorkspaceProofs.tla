--------------------------- MODULE WorkspaceProofs ---------------------------
(***************************************************************************)
(* Theorems about Workspace for every set of processes, children, Configs  *)
(* and Profile sets, wherever a process dies in an advancement, in its     *)
(* rollback or in a recovery.                                              *)
(***************************************************************************)
EXTENDS Workspace, TLAPS

Fields == {"made", "intent", "config", "profile", "binding", "marker",
           "history", "events", "store"}

Beginning == {"init-lock", "init-intent", "init-config", "init-profile",
              "init-started", "init-state", "init-binding", "init-done"}
Using == {"using", "register", "registering", "accept", "closing"}
Alone == (Beginning \ {"init-lock"}) \cup Undoing \cup Saving
            \cup {"adv-read", "adv-check", "adv-verify"}

(* The lock a step is taken under.                                         *)
Held(step) ==
    IF step \in Alone THEN "exclusive"
    ELSE IF step \in Using \cup {"verify"} THEN "shared" ELSE "none"

(* One process at most initializes, and one registers a child.             *)
ControlSound ==
    /\ LocksExclude
    /\ DOMAIN pc = Procs /\ DOMAIN job = Procs
    /\ \A p \in Procs : lock[p] = Held(pc[p])
    /\ \A p, q \in Procs : pc[p] \in Beginning /\ pc[q] \in Beginning => p = q
    /\ \A p, q \in Procs : pc[p] = "registering" /\ pc[q] = "registering" => p = q

ConfigSound(c) ==
    /\ c = [rest |-> c.rest, requests |-> c.requests, metadata |-> c.metadata,
            version |-> c.version, derived |-> c.derived, notes |-> c.notes]
    /\ c.requests \in Requests

GenSound(g) ==
    g = Gen(g.config, g.profile) /\ ConfigSound(g.config) /\ g.profile \in Profiles

(* A binding counts every child that accepted data.                        *)
BindingSound(b) ==
    /\ b = [gen |-> b.gen, kids |-> b.kids] /\ GenSound(b.gen)
    /\ accepted \subseteq b.kids /\ b.kids \subseteq Kids

StateSound ==
    state = [gen |-> state.gen, evidence |-> state.evidence] /\ GenSound(state.gen)

(* A marker announces a permitted move for which nothing in the State is   *)
(* unfit, before or after it.                                              *)
MarkerSound ==
    /\ attempts # 0 /\ BindingSound(marker.old)
    /\ marker.new = [gen |-> marker.new.gen, kids |-> marker.old.kids]
    /\ GenSound(marker.new.gen)
    /\ marker.old.gen # marker.new.gen
    /\ Permitted(marker.old.gen, marker.new.gen)
    /\ StateCompatible(state.evidence, marker.old.gen.profile)
    /\ StateCompatible(state.evidence, marker.new.gen.profile)
    /\ marker.event = [id |-> attempts, from |-> marker.old.gen, to |-> marker.new.gen]

(* Recorded moves have both generations archived, by earlier advancements: *)
(* undoing the announced one does not touch them.                          *)
EventsSound ==
    \A x \in disk.events :
        /\ x.id \in 1..attempts
        /\ marker = None \/ x # marker.event =>
              Archived(x.from) = "full" /\ Archived(x.to) = "full"
        /\ marker # None /\ x # marker.event =>
              x.from \notin marker.created /\ x.to \notin marker.created

FilesSound ==
    /\ FilesTyped
    /\ DOMAIN disk = Fields
    /\ ~disk.made => disk.binding = None
    /\ disk.binding = None => marker = None /\ disk.events = {} /\ accepted = {}
    /\ disk.binding # None => BindingSound(disk.binding) /\ state # None
    /\ state # None => StateSound
    /\ marker # None => MarkerSound
    /\ EventsSound
    /\ OneGeneration /\ EvidenceFits /\ NoEmptyReplacement

(* What is new already at a step of an advancement.                        *)
SavingSound(p) ==
    LET new == marker.new IN
    /\ marker # None
    /\ pc[p] \notin {"archive-old", "fill-old"} => Archived(marker.old.gen) = "full"
    /\ pc[p] \in {"put-config", "put-profile", "put-binding", "rebind", "put-event", "clear"} =>
          Archived(new.gen) = "full"
    /\ pc[p] \in {"put-profile", "put-binding", "rebind", "put-event", "clear"} =>
          disk.config = new.gen.config
    /\ pc[p] \in {"put-binding", "rebind", "put-event", "clear"} =>
          disk.profile = new.gen.profile
    /\ pc[p] \in {"rebind", "put-event", "clear"} => disk.binding = new
    /\ pc[p] \in {"put-event", "clear"} => state.gen = new.gen
    /\ pc[p] = "clear" => marker.event \in disk.events

(* What is old again at a step of a recovery.                              *)
UndoingSound(p) ==
    LET old == marker.old IN
    /\ marker # None
    /\ state.gen = old.gen
    /\ pc[p] # "undo-config" => disk.config = old.gen.config
    /\ pc[p] \notin {"undo-config", "undo-profile"} => disk.profile = old.gen.profile
    /\ pc[p] \in {"undo-event", "undo-history", "undo-marker"} => disk.binding = old
    /\ pc[p] \in {"undo-history", "undo-marker"} => marker.event \notin disk.events

BeginningSound(p) ==
    /\ pc[p] # "init-done" => disk.binding = None
    /\ pc[p] \in {"init-profile", "init-started", "init-state", "init-binding"} =>
          disk.config = FirstConfig
    /\ pc[p] \in {"init-started", "init-state", "init-binding"} => disk.profile = FirstProfile
    /\ pc[p] = "init-binding" => state = [gen |-> First, evidence |-> {}]

(* While a Workspace is open its generation is the one that was opened.    *)
UsingSound(p) ==
    /\ marker = None /\ disk.binding # None
    /\ job[p].old # None /\ job[p].old.gen = disk.binding.gen
    /\ pc[p] \in {"register", "registering", "accept"} =>
          job[p].kid \in Kids /\ job[p].then \in {"accept", "closing"}
    /\ pc[p] = "registering" => job[p].read = disk.binding
    /\ pc[p] = "accept" => job[p].kid \in disk.binding.kids

(* A call that has not opened the Workspace holds no generation.           *)
JobSound(p) ==
    /\ DOMAIN job[p] = {"then", "old", "kid", "read"}
    /\ pc[p] \in {"recover-lock", "recover"} \cup Undoing =>
          job[p].then \in {"share", "adv-read", "failed"}
    /\ pc[p] \in {"recover-lock", "share"} => job[p].then = "share"
    /\ (\/ pc[p] \in {"idle", "open", "recover-lock", "share", "verify", "adv-read"} \cup Beginning
        \/ pc[p] \in Undoing /\ job[p].then # "failed")
       => job[p].old = None

ProcessSound(p) ==
    /\ pc[p] # "idle" => disk.made
    /\ pc[p] \in Beginning => BeginningSound(p)
    /\ pc[p] \in Using => UsingSound(p)
    /\ pc[p] = "adv-check" =>
          /\ marker = None /\ disk.binding # None
          /\ BindingSound(job[p].old) /\ job[p].old.gen = disk.binding.gen
    /\ pc[p] \in Saving => SavingSound(p)
    /\ pc[p] \in Undoing \ {"recover"} => UndoingSound(p)
    /\ JobSound(p)

Inv == ControlSound /\ FilesSound /\ \A p \in Procs : ProcessSound(p)

-----------------------------------------------------------------------------
(* Generations                                                              *)

(* What profile resolve prepares passes the guard of profile advance.      *)
LEMMA PreparedIsAllowed ==
    ASSUME NEW c, ConfigSound(c), NEW r \in Requests, NEW m \in Metadata
    PROVE  DeltaAllowed(c, TargetConfig(c, r, m)) /\ ConfigSound(TargetConfig(c, r, m))
<1> DEFINE t == TargetConfig(c, r, m)
           asked == c.requests # r
           told == m # "none" /\ m # c.metadata
<1>1. CASE ~asked /\ ~told
  <2>1. t = c
    BY <1>1 DEF TargetConfig
  <2> QED BY <2>1 DEF DeltaAllowed
<1>2. CASE asked \/ told
  <2>1. t = [rest |-> c.rest, requests |-> r,
             metadata |-> IF told THEN m ELSE c.metadata,
             version |-> IF told THEN c.version + 1 ELSE c.version,
             derived |-> c.derived \cup {c},
             notes |-> c.notes \cup (IF asked THEN {"profile"} ELSE {})
                               \cup (IF told THEN {"metadata"} ELSE {})]
    BY <1>2 DEF TargetConfig, ConfigSound
  <2>2. ConfigSound(t)
    BY <2>1 DEF ConfigSound
  <2>3. (c.requests # t.requests <=> asked) /\ (c.metadata # t.metadata <=> told)
    BY <2>1
  <2>4. DeltaAllowed(c, t)
    BY <1>2, <2>1, <2>3 DEF DeltaAllowed
  <2> QED BY <2>2, <2>4
<1> QED BY <1>1, <1>2

LEMMA TargetsAreSound ==
    ASSUME NEW g, GenSound(g), NEW t \in Targets(g) PROVE GenSound(t)
<1> DEFINE configs == {TargetConfig(g.config, r, m) : r \in Requests, m \in Metadata}
                         \cup {[g.config EXCEPT !.rest = "edited"]}
<1>1. PICK c \in configs : \E e \in ProfilesFor[c.requests] : t = Gen(c, e)
  BY DEF Targets
<1>2. PICK e \in ProfilesFor[c.requests] : t = Gen(c, e)
  BY <1>1
<1>3. ConfigSound(c)
  <2>1. CASE \E r \in Requests, m \in Metadata : c = TargetConfig(g.config, r, m)
    BY <2>1, PreparedIsAllowed DEF GenSound
  <2>2. CASE c = [g.config EXCEPT !.rest = "edited"]
    BY <2>2 DEF GenSound, ConfigSound
  <2> QED BY <1>1, <2>1, <2>2
<1>4. e \in Profiles
  BY <1>2, <1>3, RequestsResolve DEF ConfigSound, Profiles
<1> QED BY <1>2, <1>3, <1>4 DEF GenSound, Gen

LEMMA FirstIsSound == GenSound(First)
  BY FirstFits, RequestsResolve DEF GenSound, First, Gen, ConfigSound, Profiles

-----------------------------------------------------------------------------
(* What a step of one process leaves alone                                  *)

OnlyMoves(p) ==
    /\ lock' \in [Procs -> Locks] /\ DOMAIN pc' = Procs /\ DOMAIN job' = Procs
    /\ \A q \in Procs \ {p} : pc'[q] = pc[q] /\ lock'[q] = lock[q] /\ job'[q] = job[q]

SameFiles ==
    /\ disk'.config = disk.config /\ disk'.profile = disk.profile
    /\ disk'.binding = disk.binding /\ disk'.marker = disk.marker
    /\ disk'.history = disk.history /\ disk'.events = disk.events
    /\ state' = state /\ accepted' = accepted /\ attempts' = attempts

(* A holder of the shared lock may add children, but not while another     *)
(* process is about to.                                                    *)
SharedChange(p) ==
    /\ marker' = marker /\ disk.binding # None /\ disk'.binding # None
    /\ disk'.binding.gen = disk.binding.gen
    /\ disk.binding.kids \subseteq disk'.binding.kids
    /\ \A q \in Procs \ {p} : pc[q] = "registering" => disk'.binding = disk.binding

Effect(p) ==
    \/ SameFiles
    \/ /\ lock[p] = "exclusive"
       /\ disk.binding = None /\ pc[p] \notin Beginning => disk'.binding = None
    \/ lock[p] = "shared" /\ SharedChange(p)

(* The control of one process moves on as the locks allow.                 *)
Admits(p) ==
    /\ lock'[p] = Held(pc'[p])
    /\ lock'[p] = "exclusive" => lock[p] = "exclusive" \/ AllFree(p)
    /\ lock'[p] = "shared" => lock[p] # "none" \/ SharedFree(p)
    /\ pc'[p] \in Beginning => pc[p] \in Beginning \/ \A q \in Procs : pc[q] \notin Beginning
    /\ pc'[p] = "registering" => \A q \in Procs \ {p} : pc[q] # "registering"

LEMMA ControlStep ==
    ASSUME ControlSound, NEW p \in Procs, OnlyMoves(p), Admits(p) PROVE ControlSound'
<1>1. ASSUME NEW q \in Procs PROVE lock'[q] = Held(pc'[q])
  BY DEF ControlSound, OnlyMoves, Admits
<1>2. ASSUME NEW q \in Procs, NEW r \in Procs, lock'[q] = "exclusive", q # r
      PROVE  lock'[r] = "none"
  <2>1. CASE q = p
    BY <1>2, <2>1 DEF ControlSound, LocksExclude, OnlyMoves, Admits, AllFree
  <2>2. CASE r = p
    <3>1. lock[q] = "exclusive" /\ lock[p] = "none"
      BY <1>2, <2>2 DEF ControlSound, LocksExclude, OnlyMoves
    <3>2. lock'[p] \in Locks
      BY DEF OnlyMoves
    <3> QED BY <1>2, <2>2, <3>1, <3>2 DEF Admits, AllFree, SharedFree, Locks
  <2>3. CASE q # p /\ r # p
    BY <1>2, <2>3 DEF ControlSound, LocksExclude, OnlyMoves
  <2> QED BY <2>1, <2>2, <2>3
<1>3. ASSUME NEW q \in Procs, NEW r \in Procs, pc'[q] \in Beginning, pc'[r] \in Beginning
      PROVE  q = r
  BY <1>3 DEF ControlSound, OnlyMoves, Admits
<1>4. ASSUME NEW q \in Procs, NEW r \in Procs, pc'[q] = "registering", pc'[r] = "registering"
      PROVE  q = r
  BY <1>4 DEF ControlSound, OnlyMoves, Admits
<1> QED BY <1>1, <1>2, <1>3, <1>4 DEF ControlSound, LocksExclude, OnlyMoves

LEMMA OthersStep ==
    ASSUME Inv, NEW p \in Procs, OnlyMoves(p), disk.made => disk'.made, Effect(p),
           NEW q \in Procs \ {p}
    PROVE  ProcessSound(q)'
<1>1. pc'[q] = pc[q] /\ lock'[q] = lock[q] /\ job'[q] = job[q]
  BY DEF OnlyMoves
<1>2. ProcessSound(q) /\ ControlSound /\ FilesSound
  BY DEF Inv
<1>3. JobSound(q)' /\ (pc'[q] # "idle" => disk'.made)
  BY <1>1, <1>2 DEF ProcessSound, JobSound
<1>4. CASE SameFiles
  <2>1. \A g : Archived(g)' = Archived(g)
    BY <1>4 DEF SameFiles, Archived
  <2>2. marker' = marker
    BY <1>4 DEF SameFiles, marker
  <2>3. (BeginningSound(q) => BeginningSound(q)') /\ (UsingSound(q) => UsingSound(q)')
    BY <1>1, <1>4, <2>2 DEF SameFiles, BeginningSound, UsingSound
  <2>4. (SavingSound(q) => SavingSound(q)') /\ (UndoingSound(q) => UndoingSound(q)')
    BY <1>1, <1>4, <2>1, <2>2 DEF SameFiles, SavingSound, UndoingSound
  <2>5. BindingSound(job[q].old) => BindingSound(job[q].old)'
    BY <1>1, <1>4 DEF SameFiles, BindingSound
  <2> QED BY <1>1, <1>2, <1>3, <1>4, <2>2, <2>3, <2>4, <2>5 DEF SameFiles, ProcessSound
<1>5. CASE lock[p] = "exclusive" /\ (disk.binding = None /\ pc[p] \notin Beginning => disk'.binding = None)
  <2>1. lock[q] = "none"
    BY <1>2, <1>5 DEF ControlSound, LocksExclude
  <2>2. pc[q] \notin Using /\ pc[q] \notin Alone
    BY <1>2, <2>1 DEF ControlSound, Held
  <2>3. pc[q] \in Beginning => pc[q] = "init-lock" /\ disk'.binding = None
    <3>1. ASSUME pc[q] \in Beginning PROVE pc[q] = "init-lock" /\ pc[p] \notin Beginning
      BY <1>2, <2>2, <3>1 DEF ControlSound, Alone
    <3>2. ASSUME pc[q] = "init-lock" PROVE disk.binding = None
      BY <1>2, <3>2 DEF ProcessSound, BeginningSound, Beginning
    <3> QED BY <1>5, <3>1, <3>2
  <2>4. pc'[q] \in Beginning => BeginningSound(q)'
    BY <1>1, <2>3 DEF BeginningSound
  <2> QED BY <1>1, <1>3, <2>2, <2>4 DEF ProcessSound, Alone
<1>6. CASE lock[p] = "shared" /\ SharedChange(p)
  <2>1. lock[q] # "exclusive"
    BY <1>2, <1>6 DEF ControlSound, LocksExclude
  <2>2. pc[q] \notin Alone
    BY <1>2, <2>1 DEF ControlSound, Held
  <2>3. pc[q] \notin Beginning
    BY <1>2, <1>6, <2>2 DEF SharedChange, ProcessSound, BeginningSound, Alone
  <2>4. UsingSound(q) => UsingSound(q)'
    BY <1>1, <1>6 DEF SharedChange, UsingSound
  <2> QED BY <1>1, <1>2, <1>3, <2>2, <2>3, <2>4 DEF ProcessSound, Alone
<1> QED BY <1>4, <1>5, <1>6 DEF Effect

(* So a step preserves the invariant if it does for files and its process. *)
LEMMA StepSound ==
    ASSUME Inv, NEW p \in Procs, OnlyMoves(p), Admits(p), disk.made => disk'.made, Effect(p),
           FilesSound', ProcessSound(p)'
    PROVE  Inv'
<1>1. ControlSound'
  BY ControlStep DEF Inv
<1>2. \A q \in Procs : ProcessSound(q)'
  BY OthersStep
<1> QED BY <1>1, <1>2 DEF Inv

LEMMA FilesStay ==
    ASSUME FilesSound, disk' = disk, state' = state, attempts' = attempts,
           accepted' = accepted, faults' \in 0..MaxFaults
    PROVE  FilesSound'
<1>1. FilesTyped'
  BY DEF FilesSound, FilesTyped
<1>2. marker' = marker /\ \A g : Archived(g)' = Archived(g)
  BY DEF marker, Archived
<1>3. MarkerSound => MarkerSound'
  BY <1>2 DEF MarkerSound, BindingSound
<1>4. EventsSound'
  BY <1>2 DEF FilesSound, EventsSound
<1>5. (OneGeneration /\ EvidenceFits /\ NoEmptyReplacement)'
  BY <1>2 DEF FilesSound, OneGeneration, EvidenceFits, NoEmptyReplacement, Agrees, Documents
<1>6. \A b : BindingSound(b) => BindingSound(b)'
  BY DEF BindingSound
<1> QED BY <1>1, <1>2, <1>3, <1>4, <1>5, <1>6 DEF FilesSound, StateSound

(* Control goes on under the lock the process has.                         *)
LEMMA GoOn ==
    ASSUME Inv, NEW p \in Procs, NEW there, Go(p, there), UNCHANGED <<lock, job>>,
           Held(there) = Held(pc[p]), there \in Beginning => pc[p] \in Beginning,
           there # "registering"
    PROVE  OnlyMoves(p) /\ Admits(p) /\ pc'[p] = there /\ job'[p] = job[p]
<1>1. OnlyMoves(p) /\ pc'[p] = there /\ job'[p] = job[p] /\ lock'[p] = lock[p]
  BY DEF Inv, ControlSound, LocksExclude, Go, OnlyMoves
<1>2. Admits(p)
  BY <1>1 DEF Inv, ControlSound, LocksExclude, Admits, Locks
<1> QED BY <1>1, <1>2

LEMMA LeaveStep ==
    ASSUME Inv, NEW p \in Procs, Leave(p)
    PROVE  OnlyMoves(p) /\ Admits(p) /\ ProcessSound(p)'
<1>1. OnlyMoves(p) /\ pc'[p] = "idle" /\ job'[p] = NoJob /\ lock'[p] = "none"
  BY DEF Inv, ControlSound, LocksExclude, Leave, Go, Take, OnlyMoves, Locks
<1>2. Held("idle") = "none" /\ "idle" \notin Beginning
  BY DEF Held, Alone, Using, Beginning, Saving, Undoing
<1>3. Admits(p)
  BY <1>1, <1>2 DEF Admits
<1>4. ProcessSound(p)'
  BY <1>1 DEF ProcessSound, JobSound, NoJob, Beginning, Using, Saving, Undoing
<1> QED BY <1>1, <1>3, <1>4

(* Calls that end without a trace in the files.                            *)
LEMMA LeaveSound ==
    ASSUME Inv, NEW p \in Procs, Leave(p), UNCHANGED <<disk, state, attempts, accepted>>,
           faults' \in 0..MaxFaults
    PROVE  Inv'
<1>1. FilesSound'
  BY FilesStay DEF Inv
<1>2. SameFiles /\ disk'.made = disk.made
  BY DEF SameFiles
<1> QED BY <1>1, <1>2, LeaveStep, StepSound DEF Effect

LEMMA FaultsBounded == ASSUME FilesSound PROVE faults \in 0..MaxFaults
  BY DEF FilesSound, FilesTyped

LEMMA DiesSound == ASSUME Inv, NEW p \in Procs, Dies(p) PROVE Inv'
<1>1. faults' \in 0..MaxFaults
  BY FaultsBounded, BoundsAreNat DEF Inv, Dies
<1> QED BY <1>1, LeaveSound DEF Dies

LEMMA TimesOutSound == ASSUME Inv, NEW p \in Procs, TimesOut(p) PROVE Inv'
  BY LeaveSound, FaultsBounded DEF Inv, TimesOut, counters

(* An advancement that cannot go on rolls itself back.                     *)
LEMMA RollsBack ==
    ASSUME Inv, NEW p \in Procs, pc[p] \in Saving, Go(p, "recover"),
           job' = [job EXCEPT ![p].then = "failed"],
           UNCHANGED <<disk, state, lock, attempts, accepted>>, faults' \in 0..MaxFaults
    PROVE  Inv'
<1>1. FilesSound' /\ SameFiles /\ disk'.made = disk.made
  BY FilesStay DEF Inv, SameFiles
<1>2. pc[p] \in Alone /\ lock[p] = "exclusive"
  BY DEF Inv, ControlSound, Held, Alone
<1>3. /\ OnlyMoves(p) /\ pc'[p] = "recover" /\ lock'[p] = lock[p]
      /\ job'[p] = [job[p] EXCEPT !.then = "failed"]
  BY DEF Inv, ControlSound, LocksExclude, Go, OnlyMoves
<1>4. Held("recover") = "exclusive"
  BY DEF Held, Alone, Undoing
<1>5. Admits(p)
  BY <1>2, <1>3, <1>4 DEF Admits, Beginning
<1>6. JobSound(p)' /\ disk'.made
  <2>1. JobSound(p) /\ disk.made
    BY DEF Inv, ProcessSound, Saving
  <2> QED BY <1>1, <1>3, <2>1 DEF JobSound, Beginning
<1>7. ProcessSound(p)'
  BY <1>3, <1>6 DEF ProcessSound, Beginning, Using, Saving, Undoing
<1> QED BY <1>1, <1>3, <1>5, <1>7, StepSound DEF Effect

LEMMA SavingFailsSound == ASSUME Inv, NEW p \in Procs, SavingFails(p) PROVE Inv'
<1>1. faults' \in 0..MaxFaults
  BY FaultsBounded, BoundsAreNat DEF Inv, SavingFails
<1> QED BY <1>1, RollsBack DEF SavingFails

-----------------------------------------------------------------------------
(* init                                                                     *)

LEMMA InitSound == Init => Inv
<1> SUFFICES ASSUME Init PROVE Inv
  OBVIOUS
<1>1. Held("idle") = "none" /\ "idle" \notin Beginning
  BY DEF Held, Alone, Using, Beginning, Saving, Undoing
<1>2. ControlSound
  BY <1>1 DEF Init, ControlSound, LocksExclude, Locks
<1>3. FilesTyped
  BY BoundsAreNat DEF Init, FilesTyped
<1>4. FilesSound
  BY <1>3 DEF Init, FilesSound, marker, EventsSound, OneGeneration, EvidenceFits,
     NoEmptyReplacement, Fields
<1>5. ASSUME NEW p \in Procs PROVE ProcessSound(p)
  BY DEF Init, ProcessSound, JobSound, NoJob, Beginning, Using, Saving, Undoing
<1> QED BY <1>2, <1>4, <1>5 DEF Inv

(* Before there is a binding, files may be written in any way that fits    *)
(* their types.                                                            *)
LEMMA UnboundFiles ==
    ASSUME FilesSound, disk.binding = None, DOMAIN disk' = Fields,
           disk'.binding = None, disk'.marker = disk.marker, disk'.events = disk.events,
           disk'.history = disk.history, disk'.store = disk.store,
           disk'.made \in BOOLEAN, disk'.intent \in {"none", "PRE_STATE", "STATE_STARTED"},
           disk'.profile \in Profiles \cup {None},
           state' = state \/ state' = [gen |-> First, evidence |-> {}],
           UNCHANGED <<attempts, faults, accepted>>
    PROVE  FilesSound'
<1>1. marker = None /\ marker' = None /\ disk.events = {} /\ accepted = {}
  BY DEF FilesSound, marker
<1>2. FilesTyped'
  BY DEF FilesSound, FilesTyped
<1>3. state' # None => StateSound' /\ StateCompatible(state'.evidence, state'.gen.profile)
  <2>1. CASE state' = state
    BY <1>1, <2>1 DEF FilesSound, StateSound, EvidenceFits
  <2>2. CASE state' = [gen |-> First, evidence |-> {}]
    BY <2>2, FirstIsSound DEF StateSound, StateCompatible
  <2> QED BY <2>1, <2>2
<1>4. EventsSound' /\ OneGeneration' /\ EvidenceFits' /\ NoEmptyReplacement'
  BY <1>1, <1>3 DEF EventsSound, OneGeneration, EvidenceFits, NoEmptyReplacement
<1> QED BY <1>1, <1>2, <1>3, <1>4 DEF FilesSound

LEMMA InitBeginSound == ASSUME Inv, NEW p \in Procs, InitBegin(p) PROVE Inv'
<1>1. /\ DOMAIN disk' = Fields /\ disk'.made = TRUE /\ disk'.store = disk.store
      /\ disk'.intent = disk.intent /\ SameFiles
  BY DEF Inv, FilesSound, InitBegin, Write, counters, SameFiles, Fields
<1>2. disk.binding = None
  BY DEF Inv, FilesSound, InitBegin
<1>3. FilesSound'
  <2>1. disk.intent \in {"none", "PRE_STATE", "STATE_STARTED"} /\ disk.profile \in Profiles \cup {None}
    BY DEF Inv, FilesSound, FilesTyped
  <2> QED BY <1>1, <1>2, <2>1, UnboundFiles DEF Inv, InitBegin, Write, counters, SameFiles
<1>4. \A q \in Procs : pc[q] = "idle"
  BY DEF Inv, ProcessSound, InitBegin
<1>5. /\ OnlyMoves(p) /\ pc'[p] = "init-lock" /\ lock'[p] = lock[p] /\ job'[p] = job[p]
  BY DEF Inv, ControlSound, LocksExclude, InitBegin, Write, Go, OnlyMoves
<1>6. Held("idle") = "none" /\ Held("init-lock") = "none"
  BY DEF Held, Alone, Using, Beginning, Saving, Undoing
<1>7. Admits(p)
  BY <1>4, <1>5, <1>6 DEF Inv, ControlSound, Admits, Beginning
<1>8. JobSound(p)
  BY DEF Inv, ProcessSound
<1>9. ProcessSound(p)'
  BY <1>1, <1>2, <1>4, <1>5, <1>8 DEF ProcessSound, JobSound, BeginningSound, SameFiles,
     Beginning, Using, Saving, Undoing
<1> QED BY <1>1, <1>3, <1>5, <1>7, <1>9, StepSound DEF Effect

LEMMA InitLockSound == ASSUME Inv, NEW p \in Procs, InitLock(p) PROVE Inv'
<1>1. FilesSound' /\ SameFiles /\ disk'.made = disk.made
  BY FilesStay, FaultsBounded DEF Inv, InitLock, counters, SameFiles
<1>2. /\ OnlyMoves(p) /\ pc[p] = "init-lock" /\ pc'[p] = "init-intent"
      /\ lock'[p] = "exclusive" /\ job'[p] = job[p]
  BY DEF Inv, ControlSound, LocksExclude, InitLock, At, Go, Take, OnlyMoves, Locks
<1>3. Held("init-intent") = "exclusive"
  BY DEF Held, Alone, Beginning
<1>4. Admits(p)
  BY <1>2, <1>3 DEF InitLock, Admits, Beginning
<1>5. ProcessSound(p)
  BY DEF Inv
<1>6. ProcessSound(p)'
  BY <1>1, <1>2, <1>5 DEF ProcessSound, JobSound, BeginningSound, SameFiles,
     Beginning, Using, Saving, Undoing
<1> QED BY <1>1, <1>2, <1>4, <1>6, StepSound DEF Effect

(* What every write of an initialization has to keep.                      *)
LEMMA InitWrite ==
    ASSUME Inv, NEW p \in Procs, NEW there,
           pc[p] \in Beginning \ {"init-lock"}, there \in Beginning \ {"init-lock"},
           Go(p, there), UNCHANGED <<lock, job>>,
           disk'.made = disk.made, FilesSound', BeginningSound(p)'
    PROVE  Inv'
<1>1. Held(there) = Held(pc[p]) /\ there # "registering"
  BY DEF Held, Alone, Beginning
<1>2. OnlyMoves(p) /\ Admits(p) /\ pc'[p] = there /\ job'[p] = job[p]
  BY <1>1, GoOn
<1>3. ProcessSound(p) /\ lock[p] = "exclusive"
  BY DEF Inv, ControlSound, Held, Alone
<1>4. ProcessSound(p)'
  BY <1>2, <1>3 DEF ProcessSound, JobSound, Beginning, Using, Saving, Undoing
<1> QED BY <1>2, <1>3, <1>4, StepSound DEF Effect

LEMMA InitFilesSound ==
    ASSUME Inv, NEW p \in Procs,
           InitIntent(p) \/ InitConfig(p) \/ InitProfile(p) \/ InitStarted(p) \/ InitState(p)
    PROVE  Inv'
<1>1. pc[p] \in Beginning \ {"init-lock", "init-binding", "init-done"}
  BY DEF InitIntent, InitConfig, InitProfile, InitStarted, InitState, Write, At, Beginning
<1>2. BeginningSound(p) /\ disk.binding = None
  BY <1>1 DEF Inv, ProcessSound, BeginningSound
<1>3. /\ DOMAIN disk = Fields
      /\ disk.made \in BOOLEAN /\ disk.intent \in {"none", "PRE_STATE", "STATE_STARTED"}
      /\ disk.profile \in Profiles \cup {None} /\ FirstProfile \in Profiles
  BY FirstIsSound DEF Inv, FilesSound, FilesTyped, GenSound, First, Gen
<1>4. /\ DOMAIN disk' = Fields /\ disk'.binding = None /\ disk'.marker = disk.marker
      /\ disk'.events = disk.events /\ disk'.history = disk.history
      /\ disk'.store = disk.store /\ disk'.made = disk.made
      /\ disk'.config = disk.config \/ disk'.config = FirstConfig
      /\ UNCHANGED <<attempts, faults, accepted, lock, job>>
  BY <1>2, <1>3 DEF InitIntent, InitConfig, InitProfile, InitStarted, InitState, Write, counters, Fields
<1>5. /\ disk'.intent \in {"none", "PRE_STATE", "STATE_STARTED"}
      /\ disk'.profile \in Profiles \cup {None}
      /\ state' = state \/ state' = [gen |-> First, evidence |-> {}]
  BY <1>2, <1>3 DEF InitIntent, InitConfig, InitProfile, InitStarted, InitState, Write, Fields
<1>6. FilesSound'
  BY <1>2, <1>3, <1>4, <1>5, UnboundFiles DEF Inv
<1>7. DOMAIN pc = Procs
  BY DEF Inv, ControlSound
<1>8. PICK there \in Beginning \ {"init-lock"} : Go(p, there) /\ BeginningSound(p)'
  <2>1. CASE InitIntent(p)
    <3>1. Go(p, "init-config") /\ pc'[p] = "init-config"
      BY <1>7, <2>1 DEF InitIntent, Write, Go
    <3> QED BY <1>4, <3>1 DEF BeginningSound, Beginning
  <2>2. CASE InitConfig(p)
    <3>1. Go(p, "init-profile") /\ pc'[p] = "init-profile" /\ disk'.config = FirstConfig
      BY <1>3, <1>7, <2>2 DEF InitConfig, Write, Go, Fields
    <3> QED BY <1>4, <3>1 DEF BeginningSound, Beginning
  <2>3. CASE InitProfile(p)
    <3>1. Go(p, "init-started") /\ pc'[p] = "init-started" /\ disk'.profile = FirstProfile
      BY <1>3, <1>7, <2>3 DEF InitProfile, Write, Go, Fields
    <3>2. disk'.config = FirstConfig
      BY <1>2, <1>4, <2>3 DEF BeginningSound, InitProfile, Write, At
    <3> QED BY <1>4, <3>1, <3>2 DEF BeginningSound, Beginning
  <2>4. CASE InitStarted(p)
    <3>1. Go(p, "init-state") /\ pc'[p] = "init-state" /\ disk'.profile = disk.profile
      BY <1>3, <1>7, <2>4 DEF InitStarted, Write, Go, Fields
    <3>2. disk'.config = FirstConfig /\ disk.profile = FirstProfile
      BY <1>2, <1>4, <2>4 DEF BeginningSound, InitStarted, Write, At
    <3> QED BY <1>4, <3>1, <3>2 DEF BeginningSound, Beginning
  <2>5. CASE InitState(p)
    <3>1. /\ Go(p, "init-binding") /\ pc'[p] = "init-binding" /\ disk' = disk
          /\ state' = [gen |-> First, evidence |-> {}]
      BY <1>7, <2>5 DEF InitState, Go
    <3>2. disk.config = FirstConfig /\ disk.profile = FirstProfile
      BY <1>2, <2>5 DEF BeginningSound, InitState, At
    <3> QED BY <1>4, <3>1, <3>2 DEF BeginningSound, Beginning
  <2> QED BY <2>1, <2>2, <2>3, <2>4, <2>5
<1> QED BY <1>1, <1>4, <1>6, <1>8, InitWrite

LEMMA InitBindingSound == ASSUME Inv, NEW p \in Procs, InitBinding(p) PROVE Inv'
<1> DEFINE b == [gen |-> First, kids |-> {}]
<1>1. pc[p] = "init-binding" /\ Go(p, "init-done") /\ pc'[p] = "init-done"
  BY DEF Inv, ControlSound, InitBinding, Write, At, Go
<1>2. BeginningSound(p)
  BY <1>1 DEF Inv, ProcessSound, Beginning
<1>3. /\ disk.binding = None /\ disk.config = FirstConfig /\ disk.profile = FirstProfile
      /\ state = [gen |-> First, evidence |-> {}]
  BY <1>1, <1>2 DEF BeginningSound
<1>4. /\ DOMAIN disk' = Fields /\ disk'.binding = b
      /\ disk'.made = disk.made /\ disk'.intent = disk.intent /\ disk'.config = FirstConfig
      /\ disk'.profile = FirstProfile /\ disk'.marker = disk.marker
      /\ disk'.events = disk.events /\ disk'.history = disk.history /\ disk'.store = disk.store
      /\ state' = state /\ UNCHANGED <<lock, job, attempts, faults, accepted>>
  BY <1>3 DEF Inv, FilesSound, InitBinding, Write, counters, Fields
<1>5. marker = None /\ marker' = None /\ disk.events = {} /\ accepted = {}
  BY <1>3, <1>4 DEF Inv, FilesSound, marker
<1>6. disk.made
  BY <1>1 DEF Inv, ProcessSound
<1>7. BindingSound(b)' /\ b # None /\ state # None /\ b.gen = First /\ b.kids = {}
  BY <1>3, <1>4, <1>5, FirstIsSound DEF BindingSound, None
<1>8. FilesTyped'
  <2>1. FilesTyped
    BY DEF Inv, FilesSound
  <2> QED BY <1>3, <1>4, <1>7, <2>1 DEF FilesTyped
<1>9. StateSound' /\ StateCompatible(state'.evidence, state'.gen.profile)
  BY <1>3, <1>4, FirstIsSound DEF StateSound, StateCompatible
<1>10. OneGeneration' /\ EvidenceFits' /\ NoEmptyReplacement' /\ EventsSound'
  BY <1>3, <1>4, <1>5, <1>7, <1>9 DEF OneGeneration, EvidenceFits, NoEmptyReplacement,
     EventsSound, Agrees, Documents, First
<1>11. FilesSound'
  <2>1. BindingSound(disk.binding)' /\ disk'.binding # None
    BY <1>4, <1>7 DEF BindingSound
  <2> QED BY <1>3, <1>4, <1>5, <1>6, <1>7, <1>8, <1>9, <1>10, <2>1 DEF FilesSound
<1>12. BeginningSound(p)'
  BY <1>1 DEF BeginningSound
<1> QED BY <1>1, <1>4, <1>11, <1>12, InitWrite DEF Beginning

(* Whether an initialization is under way is read only when opening.       *)
LEMMA IntentFiles ==
    ASSUME FilesSound, disk' = [disk EXCEPT !.intent = "none"],
           UNCHANGED <<state, attempts, faults, accepted>>
    PROVE  FilesSound' /\ SameFiles /\ disk'.made = disk.made
<1>1. /\ SameFiles /\ DOMAIN disk' = Fields /\ disk'.made = disk.made
      /\ disk'.intent = "none" /\ disk'.store = disk.store
  BY DEF FilesSound, Fields, SameFiles
<1>2. FilesTyped'
  BY <1>1 DEF FilesSound, FilesTyped, SameFiles
<1>3. marker' = marker /\ \A g : Archived(g)' = Archived(g)
  BY <1>1 DEF marker, Archived, SameFiles
<1>4. MarkerSound => MarkerSound'
  BY <1>1, <1>3 DEF MarkerSound, BindingSound, SameFiles
<1>5. EventsSound'
  BY <1>1, <1>3 DEF FilesSound, EventsSound, SameFiles
<1>6. (OneGeneration /\ EvidenceFits /\ NoEmptyReplacement)'
  BY <1>1, <1>3 DEF FilesSound, OneGeneration, EvidenceFits, NoEmptyReplacement, Agrees,
     Documents, SameFiles
<1>7. \A b : BindingSound(b) => BindingSound(b)'
  BY DEF BindingSound
<1> QED BY <1>1, <1>2, <1>3, <1>4, <1>5, <1>6, <1>7 DEF FilesSound, StateSound, SameFiles

LEMMA InitDoneSound == ASSUME Inv, NEW p \in Procs, InitDone(p) PROVE Inv'
<1>1. FilesSound' /\ SameFiles /\ disk'.made = disk.made
  BY IntentFiles DEF Inv, InitDone, counters
<1>2. /\ OnlyMoves(p) /\ pc[p] = "init-done" /\ pc'[p] = "open"
      /\ lock'[p] = "none" /\ job'[p] = job[p]
  BY DEF Inv, ControlSound, LocksExclude, InitDone, At, Go, Take, OnlyMoves, Locks
<1>3. Held("open") = "none"
  BY DEF Held, Alone, Beginning, Using, Saving, Undoing
<1>4. Admits(p)
  BY <1>2, <1>3 DEF Admits, Beginning
<1>5. ProcessSound(p)
  BY DEF Inv
<1>6. ProcessSound(p)'
  BY <1>1, <1>2, <1>5 DEF ProcessSound, JobSound, Beginning, Using, Saving, Undoing
<1> QED BY <1>1, <1>2, <1>4, <1>6, StepSound DEF Effect

LEMMA FinishSound == ASSUME Inv, NEW p \in Procs, Finish(p) PROVE Inv'
<1>1. FilesSound' /\ SameFiles /\ disk'.made = disk.made
  BY IntentFiles DEF Inv, Finish, counters
<1>2. OnlyMoves(p) /\ pc[p] = "idle" /\ pc'[p] = "idle" /\ lock'[p] = lock[p] /\ job'[p] = job[p]
  BY DEF Inv, ControlSound, LocksExclude, Finish, At, OnlyMoves
<1>3. Admits(p)
  BY <1>2 DEF Inv, ControlSound, LocksExclude, Admits, Locks, Beginning
<1>4. ProcessSound(p)
  BY DEF Inv
<1>5. ProcessSound(p)'
  BY <1>1, <1>2, <1>4 DEF ProcessSound, JobSound, Beginning, Using, Saving, Undoing
<1> QED BY <1>1, <1>2, <1>3, <1>5, StepSound DEF Effect

-----------------------------------------------------------------------------
(* open, use, close                                                         *)

LEMMA OpenSound == ASSUME Inv, NEW p \in Procs, Open(p) PROVE Inv'
<1>1. FilesSound' /\ SameFiles /\ disk'.made = disk.made
  BY FilesStay, FaultsBounded DEF Inv, Open, counters, SameFiles
<1>2. /\ OnlyMoves(p) /\ pc[p] \in {"idle", "open"} /\ disk.made
      /\ pc'[p] \in {"recover-lock", "share"} /\ lock'[p] = lock[p]
      /\ job'[p] = [job[p] EXCEPT !.then = "share"]
  BY DEF Inv, ControlSound, LocksExclude, Open, Go, OnlyMoves
<1>3. \A s \in {"idle", "open", "recover-lock", "share"} : Held(s) = "none"
  BY DEF Held, Alone, Beginning, Using, Saving, Undoing
<1>4. lock[p] = "none"
  BY <1>2, <1>3 DEF Inv, ControlSound
<1>5. Admits(p)
  BY <1>2, <1>3, <1>4 DEF Admits, Beginning
<1>6. JobSound(p)'
  <2>1. JobSound(p)
    BY DEF Inv, ProcessSound
  <2> QED BY <1>2, <2>1 DEF JobSound, Undoing, Beginning
<1>7. ProcessSound(p)'
  BY <1>1, <1>2, <1>6 DEF ProcessSound, Beginning, Using, Saving, Undoing
<1> QED BY <1>1, <1>2, <1>5, <1>7, StepSound DEF Effect

LEMMA ShareSound == ASSUME Inv, NEW p \in Procs, Share(p) PROVE Inv'
<1>1. FilesSound' /\ SameFiles /\ disk'.made = disk.made
  BY FilesStay, FaultsBounded DEF Inv, Share, counters, SameFiles
<1>2. /\ OnlyMoves(p) /\ pc[p] = "share" /\ pc'[p] = "verify"
      /\ lock'[p] = "shared" /\ job'[p] = job[p]
  BY DEF Inv, ControlSound, LocksExclude, Share, At, Go, Take, OnlyMoves, Locks
<1>3. Held("verify") = "shared"
  BY DEF Held, Alone, Beginning, Using, Saving, Undoing
<1>4. Admits(p)
  BY <1>2, <1>3 DEF Share, Admits, Beginning
<1>5. ProcessSound(p)
  BY DEF Inv
<1>6. ProcessSound(p)'
  BY <1>1, <1>2, <1>5 DEF ProcessSound, JobSound, Beginning, Using, Saving, Undoing
<1> QED BY <1>1, <1>2, <1>4, <1>6, StepSound DEF Effect

LEMMA VerifySound == ASSUME Inv, NEW p \in Procs, Verify(p) PROVE Inv'
<1>1. FilesSound' /\ SameFiles /\ disk'.made = disk.made
  BY FilesStay, FaultsBounded DEF Inv, Verify, counters, SameFiles
<1>2. CASE Openable
  <2>1. /\ OnlyMoves(p) /\ pc[p] = "verify" /\ pc'[p] = "using"
        /\ lock'[p] = lock[p] /\ job'[p] = [NoJob EXCEPT !.old = disk.binding]
    BY <1>2 DEF Inv, ControlSound, LocksExclude, Verify, At, Go, OnlyMoves
  <2>2. Held("verify") = "shared" /\ Held("using") = "shared"
    BY DEF Held, Alone, Beginning, Using, Saving, Undoing
  <2>3. Admits(p)
    BY <2>1, <2>2 DEF Inv, ControlSound, Admits, Beginning
  <2>4. marker' = marker /\ disk' = disk /\ disk.made
    BY <2>1 DEF Inv, ProcessSound, Verify, marker
  <2>5. marker = None /\ disk.binding # None
    BY <1>2 DEF Openable, Agrees
  <2>6. UsingSound(p)'
    <3>1. job'[p].old = disk'.binding /\ disk'.binding # None /\ marker' = None
      BY <2>1, <2>4, <2>5 DEF NoJob
    <3> QED BY <2>1, <3>1 DEF UsingSound
  <2>7. JobSound(p)'
    BY <2>1 DEF JobSound, NoJob, Undoing, Beginning
  <2>8. ProcessSound(p)'
    BY <2>1, <2>4, <2>6, <2>7 DEF ProcessSound, Beginning, Using, Saving, Undoing
  <2> QED BY <1>1, <2>1, <2>3, <2>8, StepSound DEF Effect
<1>3. CASE ~Openable
  BY <1>3, LeaveSound, FaultsBounded DEF Inv, Verify, counters
<1> QED BY <1>2, <1>3

(* Children may come and go as long as none that accepted data is empty.   *)
LEMMA StoreFiles ==
    ASSUME FilesSound, DOMAIN disk' = Fields, disk'.made = disk.made, disk'.intent = disk.intent,
           disk'.config = disk.config, disk'.profile = disk.profile,
           disk'.binding = disk.binding, disk'.marker = disk.marker,
           disk'.history = disk.history, disk'.events = disk.events,
           disk'.store \in [Kids -> {"absent", "empty", "data"}],
           UNCHANGED <<state, attempts>>, faults' \in 0..MaxFaults,
           \/ accepted' = accepted
           \/ marker = None /\ disk.binding # None /\ accepted' \subseteq disk.binding.kids,
           \A k \in accepted' : disk'.store[k] # "empty"
    PROVE  FilesSound'
<1>1. disk.binding # None => BindingSound(disk.binding)' /\ BindingSound(disk.binding)
  BY DEF FilesSound, BindingSound
<1>2. FilesTyped'
  BY <1>1 DEF FilesSound, FilesTyped, BindingSound
<1>3. marker' = marker /\ \A g : Archived(g)' = Archived(g)
  BY DEF marker, Archived
<1>4. marker # None => MarkerSound'
  <2>1. marker # None => accepted' = accepted /\ MarkerSound
    BY DEF FilesSound
  <2> QED BY <1>3, <2>1 DEF MarkerSound, BindingSound
<1>5. EventsSound'
  BY <1>3 DEF FilesSound, EventsSound
<1>6. (OneGeneration /\ EvidenceFits /\ NoEmptyReplacement)'
  BY <1>3 DEF FilesSound, OneGeneration, EvidenceFits, NoEmptyReplacement, Agrees, Documents
<1>7. disk.binding = None => accepted' = {} /\ marker' = None /\ disk'.events = {}
  BY <1>3 DEF FilesSound
<1>8. state # None => StateSound'
  BY DEF FilesSound, StateSound
<1> QED BY <1>1, <1>2, <1>3, <1>4, <1>5, <1>6, <1>7, <1>8 DEF FilesSound

(* While no advancement is under way, children may be added to a binding.  *)
LEMMA BindingFiles ==
    ASSUME FilesSound, marker = None, disk.binding # None, NEW kids, kids \subseteq Kids,
           disk' = [disk EXCEPT !.binding =
                       [gen |-> disk.binding.gen, kids |-> disk.binding.kids \cup kids]],
           UNCHANGED <<state, attempts, faults, accepted>>
    PROVE  /\ FilesSound' /\ disk'.made = disk.made /\ marker' = None
           /\ disk'.binding = [gen |-> disk.binding.gen, kids |-> disk.binding.kids \cup kids]
           /\ disk'.binding # None
<1> DEFINE b == [gen |-> disk.binding.gen, kids |-> disk.binding.kids \cup kids]
<1>1. /\ DOMAIN disk' = Fields /\ disk'.made = disk.made /\ disk'.intent = disk.intent
      /\ disk'.config = disk.config /\ disk'.profile = disk.profile /\ disk'.binding = b
      /\ disk'.marker = disk.marker /\ disk'.history = disk.history
      /\ disk'.events = disk.events /\ disk'.store = disk.store
  BY DEF FilesSound, Fields
<1>2. BindingSound(disk.binding)
  BY DEF FilesSound
<1>3. b # None /\ BindingSound(disk.binding)'
  BY <1>1, <1>2 DEF BindingSound, None
<1>4. FilesTyped'
  BY <1>1, <1>3 DEF FilesSound, FilesTyped, BindingSound
<1>5. marker' = None /\ \A g : Archived(g)' = Archived(g)
  BY <1>1 DEF marker, Archived
<1>6. EventsSound'
  BY <1>1, <1>5 DEF FilesSound, EventsSound
<1>7. (OneGeneration /\ EvidenceFits /\ NoEmptyReplacement)'
  BY <1>1, <1>5 DEF FilesSound, OneGeneration, EvidenceFits, NoEmptyReplacement, Agrees, Documents
<1>8. state # None /\ StateSound'
  BY DEF FilesSound, StateSound
<1>9. disk'.made
  BY <1>1 DEF FilesSound, FilesTyped
<1> QED BY <1>1, <1>3, <1>4, <1>5, <1>6, <1>7, <1>8, <1>9 DEF FilesSound

LEMMA StoreOpenSound ==
    ASSUME Inv, NEW p \in Procs, NEW k \in Kids, StoreOpen(p, k) PROVE Inv'
<1>1. pc[p] = "using" /\ UsingSound(p) /\ JobSound(p) /\ disk.made
  BY DEF Inv, ProcessSound, StoreOpen, At, Using
<1>2. FilesSound /\ DOMAIN disk = Fields /\ disk.store \in [Kids -> {"absent", "empty", "data"}]
  BY DEF Inv, FilesSound, FilesTyped
<1>3. /\ SameFiles /\ DOMAIN disk' = Fields /\ disk'.made = disk.made /\ disk'.intent = disk.intent
      /\ disk'.store = [disk.store EXCEPT ![k] = IF @ = "absent" THEN "empty" ELSE @]
      /\ faults' = faults
  BY <1>2 DEF StoreOpen, SameFiles, counters, Fields
<1>4. disk'.store \in [Kids -> {"absent", "empty", "data"}]
  BY <1>2, <1>3
<1>5. \A x \in accepted : disk'.store[x] # "empty"
  <2>1. accepted \subseteq disk.binding.kids /\ accepted \subseteq Kids
        /\ \A x \in accepted : disk.store[x] # "empty"
    BY <1>1, <1>2 DEF FilesSound, BindingSound, UsingSound, NoEmptyReplacement
  <2>2. disk.store[k] = "absent" => k \notin accepted
    BY <2>1 DEF StoreOpen
  <2> QED BY <1>2, <1>3, <2>1, <2>2
<1>6. FilesSound'
  BY <1>2, <1>3, <1>4, <1>5, FaultsBounded, StoreFiles DEF SameFiles
<1>7. /\ OnlyMoves(p) /\ pc'[p] = "register" /\ lock'[p] = lock[p]
      /\ job'[p] = [job[p] EXCEPT !.kid = k, !.then = "accept"]
  BY DEF Inv, ControlSound, LocksExclude, StoreOpen, At, Go, OnlyMoves
<1>8. Held("using") = "shared" /\ Held("register") = "shared"
  BY DEF Held, Alone, Beginning, Using, Saving, Undoing
<1>9. Admits(p)
  BY <1>1, <1>7, <1>8 DEF Inv, ControlSound, Admits, Beginning
<1>10. UsingSound(p)' /\ JobSound(p)'
  <2>1. marker' = marker /\ disk'.binding = disk.binding
    BY <1>3 DEF SameFiles, marker
  <2>2. job'[p].kid = k /\ job'[p].then = "accept" /\ job'[p].old = job[p].old
        /\ DOMAIN job'[p] = {"then", "old", "kid", "read"}
    BY <1>1, <1>7 DEF JobSound
  <2> QED BY <1>1, <1>7, <2>1, <2>2 DEF UsingSound, JobSound, Undoing, Beginning
<1>11. ProcessSound(p)'
  BY <1>1, <1>3, <1>7, <1>10 DEF ProcessSound, Beginning, Using, Saving, Undoing
<1> QED BY <1>3, <1>6, <1>7, <1>9, <1>11, StepSound DEF Effect

LEMMA RegisterReadSound == ASSUME Inv, NEW p \in Procs, RegisterRead(p) PROVE Inv'
<1>1. pc[p] = "register" /\ UsingSound(p) /\ JobSound(p) /\ disk.made
  BY DEF Inv, ProcessSound, RegisterRead, At, Using
<1>2. FilesSound' /\ SameFiles /\ disk'.made = disk.made /\ disk' = disk
  BY FilesStay, FaultsBounded DEF Inv, RegisterRead, counters, SameFiles
<1>3. marker' = marker
  BY <1>2 DEF marker
<1>4. /\ OnlyMoves(p) /\ lock'[p] = lock[p]
      /\ \/ /\ pc'[p] = job[p].then /\ job'[p] = job[p]
            /\ job[p].kid \in disk.binding.kids
         \/ pc'[p] = "registering" /\ job'[p] = [job[p] EXCEPT !.read = disk.binding]
  BY DEF Inv, ControlSound, LocksExclude, RegisterRead, At, Go, OnlyMoves
<1>5. \A s \in Using : Held(s) = "shared"
  BY DEF Held, Alone, Beginning, Using, Saving, Undoing
<1>6. pc'[p] \in Using \ {"register"} /\ lock[p] = "shared"
  BY <1>1, <1>4, <1>5 DEF Inv, ControlSound, UsingSound, Using
<1>7. Admits(p)
  BY <1>4, <1>5, <1>6 DEF Admits, RegisterRead, Beginning, Using
<1>8. UsingSound(p)' /\ JobSound(p)'
  <2>1. job'[p].kid = job[p].kid /\ job'[p].then = job[p].then /\ job'[p].old = job[p].old
        /\ DOMAIN job'[p] = {"then", "old", "kid", "read"}
    BY <1>1, <1>4 DEF JobSound
  <2>2. pc'[p] = "registering" => job'[p].read = disk.binding
    BY <1>1, <1>4 DEF JobSound, UsingSound
  <2>3. pc'[p] = "accept" => job'[p].kid \in disk.binding.kids
    BY <1>4, <2>1
  <2> QED BY <1>1, <1>2, <1>3, <1>6, <2>1, <2>2, <2>3 DEF UsingSound, JobSound, Using, Undoing, Beginning
<1>9. ProcessSound(p)'
  BY <1>1, <1>2, <1>6, <1>8 DEF ProcessSound, Beginning, Using, Saving, Undoing
<1> QED BY <1>2, <1>4, <1>7, <1>9, StepSound DEF Effect

LEMMA RegisterWriteSound == ASSUME Inv, NEW p \in Procs, RegisterWrite(p) PROVE Inv'
<1>1. pc[p] = "registering" /\ UsingSound(p) /\ JobSound(p) /\ disk.made
  BY DEF Inv, ProcessSound, RegisterWrite, At, Using
<1>2. /\ disk.binding # None /\ marker = None
      /\ job[p].read = disk.binding /\ job[p].kid \in Kids /\ job[p].then \in {"accept", "closing"}
  BY <1>1 DEF UsingSound
<1> PICK k \in Kids : k = job[p].kid
  BY <1>2
<1>3. FilesSound /\ BindingSound(disk.binding)
  BY <1>2 DEF Inv, FilesSound
<1>4. disk' = [disk EXCEPT !.binding =
                 [gen |-> disk.binding.gen, kids |-> disk.binding.kids \cup {k}]]
  <2>1. [job[p].read EXCEPT !.kids = @ \cup {k}]
          = [gen |-> disk.binding.gen, kids |-> disk.binding.kids \cup {k}]
    BY <1>2, <1>3 DEF BindingSound
  <2> QED BY <2>1 DEF RegisterWrite
<1>5. /\ FilesSound' /\ disk'.made = disk.made /\ marker' = None
      /\ disk'.binding = [gen |-> disk.binding.gen, kids |-> disk.binding.kids \cup {k}]
      /\ disk'.binding # None
  <2> DEFINE added == {k}
  <2>1. added \subseteq Kids
    OBVIOUS
  <2>2. disk' = [disk EXCEPT !.binding =
                   [gen |-> disk.binding.gen, kids |-> disk.binding.kids \cup added]]
    BY <1>4
  <2>3. UNCHANGED <<state, attempts, faults, accepted>>
    BY DEF RegisterWrite, counters
  <2> HIDE DEF added
  <2>4. /\ FilesSound' /\ disk'.made = disk.made /\ marker' = None
        /\ disk'.binding = [gen |-> disk.binding.gen, kids |-> disk.binding.kids \cup added]
        /\ disk'.binding # None
    BY <1>2, <1>3, <2>1, <2>2, <2>3, BindingFiles
  <2> QED BY <2>4 DEF added
<1>6. /\ OnlyMoves(p) /\ lock'[p] = lock[p] /\ pc'[p] = job[p].then
      /\ job'[p] = [job[p] EXCEPT !.read = None]
  BY DEF Inv, ControlSound, LocksExclude, RegisterWrite, At, Go, OnlyMoves
<1>7. \A s \in Using : Held(s) = "shared"
  BY DEF Held, Alone, Beginning, Using, Saving, Undoing
<1>8. pc'[p] \in {"accept", "closing"} /\ lock[p] = "shared"
  BY <1>1, <1>2, <1>6, <1>7 DEF Inv, ControlSound, Using
<1>9. Admits(p)
  BY <1>6, <1>7, <1>8 DEF Admits, Beginning, Using
<1>10. UsingSound(p)' /\ JobSound(p)'
  <2>1. job'[p].kid = job[p].kid /\ job'[p].then = job[p].then /\ job'[p].old = job[p].old
        /\ DOMAIN job'[p] = {"then", "old", "kid", "read"}
    BY <1>1, <1>6 DEF JobSound
  <2> QED BY <1>1, <1>2, <1>5, <1>8, <2>1 DEF UsingSound, JobSound, Undoing, Beginning
<1>11. ProcessSound(p)'
  BY <1>1, <1>5, <1>8, <1>10 DEF ProcessSound, Beginning, Using, Saving, Undoing
<1>12. SharedChange(p)
  <2>1. \A q \in Procs \ {p} : pc[q] # "registering"
    BY <1>1 DEF Inv, ControlSound
  <2> QED BY <1>2, <1>5, <2>1 DEF SharedChange
<1> QED BY <1>5, <1>6, <1>8, <1>9, <1>11, <1>12, StepSound DEF Effect

LEMMA StoreAcceptSound == ASSUME Inv, NEW p \in Procs, StoreAccept(p) PROVE Inv'
<1>1. pc[p] = "accept" /\ UsingSound(p) /\ JobSound(p) /\ disk.made
  BY DEF Inv, ProcessSound, StoreAccept, At, Using
<1>2. /\ disk.binding # None /\ marker = None
      /\ job[p].kid \in Kids /\ job[p].kid \in disk.binding.kids
  BY <1>1 DEF UsingSound
<1>3. FilesSound /\ DOMAIN disk = Fields /\ disk.store \in [Kids -> {"absent", "empty", "data"}]
  BY DEF Inv, FilesSound, FilesTyped
<1>4. /\ DOMAIN disk' = Fields /\ disk'.made = disk.made /\ disk'.intent = disk.intent
      /\ disk'.config = disk.config /\ disk'.profile = disk.profile
      /\ disk'.binding = disk.binding /\ disk'.marker = disk.marker
      /\ disk'.history = disk.history /\ disk'.events = disk.events
      /\ disk'.store = [disk.store EXCEPT ![job[p].kid] = "data"]
      /\ accepted' = accepted \cup {job[p].kid} /\ UNCHANGED <<state, attempts, faults>>
  BY <1>3 DEF StoreAccept, Fields
<1>5. disk'.store \in [Kids -> {"absent", "empty", "data"}]
  BY <1>3, <1>4
<1>6. accepted' \subseteq disk.binding.kids /\ \A x \in accepted' : disk'.store[x] # "empty"
  <2>1. accepted \subseteq disk.binding.kids /\ accepted \subseteq Kids
        /\ \A x \in accepted : disk.store[x] # "empty"
    BY <1>2, <1>3 DEF FilesSound, BindingSound, NoEmptyReplacement
  <2> QED BY <1>2, <1>3, <1>4, <2>1
<1>7. FilesSound'
  BY <1>2, <1>3, <1>4, <1>5, <1>6, FaultsBounded, StoreFiles
<1>8. /\ OnlyMoves(p) /\ pc'[p] = "using" /\ lock'[p] = lock[p]
      /\ job'[p] = [NoJob EXCEPT !.old = job[p].old]
  BY DEF Inv, ControlSound, LocksExclude, StoreAccept, At, Go, OnlyMoves
<1>9. Held("using") = "shared" /\ Held("accept") = "shared"
  BY DEF Held, Alone, Beginning, Using, Saving, Undoing
<1>10. Admits(p) /\ lock[p] = "shared"
  BY <1>1, <1>8, <1>9 DEF Inv, ControlSound, Admits, Beginning
<1>11. UsingSound(p)' /\ JobSound(p)'
  <2>1. marker' = marker
    BY <1>4 DEF marker
  <2>2. job'[p].old = job[p].old /\ DOMAIN job'[p] = {"then", "old", "kid", "read"}
    BY <1>8 DEF NoJob
  <2> QED BY <1>1, <1>4, <1>8, <2>1, <2>2 DEF UsingSound, JobSound, Undoing, Beginning
<1>12. ProcessSound(p)'
  BY <1>1, <1>4, <1>8, <1>11 DEF ProcessSound, Beginning, Using, Saving, Undoing
<1>13. SharedChange(p)
  BY <1>2, <1>4 DEF SharedChange, marker
<1> QED BY <1>4, <1>7, <1>8, <1>10, <1>12, <1>13, StepSound DEF Effect

LEMMA CaptureSound == ASSUME Inv, NEW p \in Procs, NEW x, Capture(p, x) PROVE Inv'
<1>1. pc[p] = "using" /\ UsingSound(p) /\ JobSound(p) /\ disk.made
  BY DEF Inv, ProcessSound, Capture, At, Using
<1>2. disk.binding # None /\ marker = None /\ FilesSound
  BY <1>1 DEF Inv, UsingSound
<1>3. state # None /\ StateSound
  BY <1>2 DEF FilesSound
<1>4. /\ state' = [gen |-> state.gen, evidence |-> state.evidence \cup {x}]
      /\ UNCHANGED <<disk, lock, pc, job, attempts, faults, accepted>>
  BY <1>3 DEF Capture, StateSound, counters
<1>5. state' # None /\ StateSound'
  BY <1>3, <1>4 DEF StateSound, None
<1>6. marker' = None /\ \A g : Archived(g)' = Archived(g)
  BY <1>2, <1>4 DEF marker, Archived
<1>7. EvidenceFits'
  BY <1>2, <1>3, <1>4 DEF FilesSound, EvidenceFits, StateCompatible, Capture
<1>8. EventsSound' /\ OneGeneration' /\ NoEmptyReplacement' /\ FilesTyped'
  BY <1>2, <1>3, <1>4, <1>5, <1>6 DEF FilesSound, EventsSound, OneGeneration, NoEmptyReplacement,
     FilesTyped, Agrees, Documents
<1>9. BindingSound(disk.binding)'
  BY <1>2, <1>4 DEF FilesSound, BindingSound
<1>10. FilesSound'
  BY <1>2, <1>4, <1>5, <1>6, <1>7, <1>8, <1>9 DEF FilesSound
<1>11. OnlyMoves(p) /\ Admits(p) /\ lock[p] = "shared"
  <2>1. Held("using") = "shared"
    BY DEF Held, Alone, Beginning, Using, Saving, Undoing
  <2> QED BY <1>1, <1>4, <2>1 DEF Inv, ControlSound, LocksExclude, OnlyMoves, Admits, Beginning
<1>12. ProcessSound(p)'
  <2>1. UsingSound(p)' /\ JobSound(p)'
    BY <1>1, <1>2, <1>4, <1>6 DEF UsingSound, JobSound
  <2> QED BY <1>1, <1>4, <2>1 DEF ProcessSound, Beginning, Using, Saving, Undoing
<1>13. SharedChange(p)
  BY <1>2, <1>4, <1>6 DEF SharedChange
<1> QED BY <1>4, <1>10, <1>11, <1>12, <1>13, StepSound DEF Effect

LEMMA CloseSound == ASSUME Inv, NEW p \in Procs, Close(p) PROVE Inv'
<1>1. pc[p] \in {"using", "closing"} /\ UsingSound(p) /\ JobSound(p) /\ disk.made
  BY DEF Inv, ProcessSound, Close, Using
<1>2. CASE Unregistered = {}
  BY <1>2, LeaveSound, FaultsBounded DEF Inv, Close, counters
<1>3. CASE Unregistered # {}
  <2>1. PICK k \in Unregistered : job' = [job EXCEPT ![p].kid = k, ![p].then = "closing"]
    BY <1>3 DEF Close
  <2>2. k \in Kids
    BY <2>1 DEF Unregistered
  <2>3. FilesSound' /\ SameFiles /\ disk' = disk
    BY FilesStay, FaultsBounded DEF Inv, Close, counters, SameFiles
  <2>4. /\ OnlyMoves(p) /\ pc'[p] = "register" /\ lock'[p] = lock[p]
        /\ job'[p] = [job[p] EXCEPT !.kid = k, !.then = "closing"]
    BY <1>3, <2>1 DEF Inv, ControlSound, LocksExclude, Close, Go, OnlyMoves
  <2>5. \A s \in Using : Held(s) = "shared"
    BY DEF Held, Alone, Beginning, Using, Saving, Undoing
  <2>6. Admits(p)
    BY <1>1, <2>4, <2>5 DEF Inv, ControlSound, Admits, Beginning, Using
  <2>7. UsingSound(p)' /\ JobSound(p)'
    <3>1. job'[p].kid = k /\ job'[p].then = "closing" /\ job'[p].old = job[p].old
          /\ DOMAIN job'[p] = {"then", "old", "kid", "read"}
      BY <1>1, <2>4 DEF JobSound
    <3>2. marker' = marker
      BY <2>3 DEF marker
    <3> QED BY <1>1, <2>2, <2>3, <2>4, <3>1, <3>2 DEF UsingSound, JobSound, Undoing, Beginning
  <2>8. ProcessSound(p)'
    BY <1>1, <2>3, <2>4, <2>7 DEF ProcessSound, Beginning, Using, Saving, Undoing
  <2> QED BY <2>3, <2>4, <2>6, <2>8, StepSound DEF Effect
<1> QED BY <1>2, <1>3

LEMMA LoseSound == ASSUME Inv, NEW k \in Kids, Lose(k) PROVE Inv'
<1>1. FilesSound /\ DOMAIN disk = Fields /\ disk.store \in [Kids -> {"absent", "empty", "data"}]
  BY DEF Inv, FilesSound, FilesTyped
<1>2. /\ DOMAIN disk' = Fields /\ disk'.made = disk.made /\ disk'.intent = disk.intent /\ SameFiles
      /\ disk'.store = [disk.store EXCEPT ![k] = "absent"] /\ UNCHANGED <<lock, pc, job>>
  BY <1>1 DEF Lose, SameFiles, Fields
<1>3. faults' \in 0..MaxFaults
  BY <1>1, FaultsBounded, BoundsAreNat DEF Lose
<1>4. FilesSound'
  <2>1. \A x \in accepted : x \in Kids /\ disk.store[x] # "empty"
    BY <1>1 DEF FilesSound, FilesTyped, NoEmptyReplacement
  <2>2. /\ disk'.store \in [Kids -> {"absent", "empty", "data"}]
        /\ \A x \in accepted : disk'.store[x] # "empty"
    BY <1>1, <1>2, <2>1
  <2> QED BY <1>1, <1>2, <1>3, <2>2, StoreFiles DEF SameFiles
<1>5. ControlSound'
  BY <1>2 DEF Inv, ControlSound, LocksExclude
<1>6. ASSUME NEW p \in Procs PROVE ProcessSound(p)'
  <2>1. ProcessSound(p) /\ pc[p] \in {"idle", "using"}
    BY DEF Inv, Lose
  <2>2. marker' = marker
    BY <1>2 DEF SameFiles, marker
  <2> QED BY <1>2, <2>1, <2>2 DEF SameFiles, ProcessSound, UsingSound, JobSound, Beginning,
       Using, Saving, Undoing
<1> QED BY <1>4, <1>5, <1>6 DEF Inv

-----------------------------------------------------------------------------
(* Steps under a marker                                                     *)

(* Under a marker the generation may be written piece by piece, as long as *)
(* archives of earlier advancements stay.                                  *)
LEMMA SagaFiles ==
    ASSUME FilesSound, marker # None, DOMAIN disk' = Fields, disk'.marker = disk.marker,
           disk'.made = disk.made, disk'.intent = disk.intent, disk'.store = disk.store,
           disk'.profile \in Profiles \cup {None},
           disk'.binding \in {disk.binding, marker.old, marker.new},
           \/ state' = state
           \/ state' = [state EXCEPT !.gen = marker.old.gen]
           \/ state' = [state EXCEPT !.gen = marker.new.gen],
           \A g \in DOMAIN disk'.history : disk'.history[g] \in {"partial", "full"},
           \A g : Archived(g) = "full" /\ g \notin marker.created => Archived(g)' = "full",
           disk'.events \subseteq disk.events \cup {marker.event},
           UNCHANGED <<attempts, faults, accepted>>
    PROVE  FilesSound' /\ marker' = marker
<1>1. marker' = marker /\ MarkerSound /\ disk.binding # None /\ BindingSound(disk.binding)
      /\ state # None /\ StateSound /\ disk.made
  BY DEF marker, FilesSound, FilesTyped
<1>2. /\ BindingSound(marker.old) /\ marker.old # None
      /\ BindingSound(marker.new) /\ marker.new # None
  BY <1>1 DEF MarkerSound, BindingSound, None
<1>3. disk'.binding # None /\ BindingSound(disk.binding)'
  BY <1>1, <1>2 DEF BindingSound
<1>4. state' # None /\ StateSound' /\ state'.evidence = state.evidence
  <2>1. state' = state \/ state' = [gen |-> marker.old.gen, evidence |-> state.evidence]
                       \/ state' = [gen |-> marker.new.gen, evidence |-> state.evidence]
    BY <1>1 DEF StateSound
  <2> QED BY <1>1, <2>1 DEF StateSound, MarkerSound, BindingSound, None
<1>5. MarkerSound'
  BY <1>1, <1>4 DEF MarkerSound, BindingSound
<1>6. FilesTyped'
  BY <1>3 DEF FilesSound, FilesTyped, BindingSound
<1>7. EventsSound'
  <2>1. attempts \in Nat /\ attempts # 0 /\ marker.event.id = attempts
    BY <1>1, BoundsAreNat DEF FilesSound, FilesTyped, MarkerSound
  <2>2. ASSUME NEW x \in disk'.events PROVE x.id \in 1..attempts
    BY <2>1 DEF FilesSound, EventsSound
  <2>3. ASSUME NEW x \in disk'.events, x # marker.event
        PROVE  /\ Archived(x.from)' = "full" /\ Archived(x.to)' = "full"
               /\ x.from \notin marker.created /\ x.to \notin marker.created
    <3>1. x \in disk.events
      BY <2>3
    <3> QED BY <2>3, <3>1 DEF FilesSound, EventsSound
  <2> QED BY <1>1, <2>2, <2>3 DEF EventsSound
<1>8. OneGeneration' /\ EvidenceFits' /\ NoEmptyReplacement'
  BY <1>1 DEF OneGeneration, EvidenceFits, FilesSound, NoEmptyReplacement
<1> QED BY <1>1, <1>3, <1>4, <1>5, <1>6, <1>7, <1>8 DEF FilesSound

(* The marker goes when everything is of one of its two generations.       *)
LEMMA MarkerEnds ==
    ASSUME FilesSound, marker # None, disk' = [disk EXCEPT !.marker = None],
           UNCHANGED <<state, attempts, faults, accepted>>,
           disk.binding \in {marker.old, marker.new},
           disk.config = disk.binding.gen.config, disk.profile = disk.binding.gen.profile,
           state.gen = disk.binding.gen,
           \A x \in disk.events : Archived(x.from) = "full" /\ Archived(x.to) = "full"
    PROVE  /\ FilesSound' /\ marker' = None /\ disk'.made = disk.made
           /\ disk'.binding = disk.binding /\ disk'.events = disk.events
<1>1. /\ DOMAIN disk' = Fields /\ disk'.made = disk.made /\ disk'.intent = disk.intent
      /\ disk'.config = disk.config /\ disk'.profile = disk.profile /\ disk'.binding = disk.binding
      /\ disk'.marker = None /\ disk'.history = disk.history
      /\ disk'.events = disk.events /\ disk'.store = disk.store
  BY DEF FilesSound, Fields
<1>2. marker' = None /\ \A g : Archived(g)' = Archived(g)
  BY <1>1 DEF marker, Archived
<1>3. MarkerSound /\ BindingSound(disk.binding) /\ disk.binding # None /\ state # None /\ StateSound
  BY DEF FilesSound
<1>4. Documents = disk.binding.gen
  BY <1>3 DEF Documents, BindingSound, GenSound
<1>5. OneGeneration'
  BY <1>1, <1>3, <1>4 DEF OneGeneration, Agrees, Documents
<1>6. EvidenceFits'
  BY <1>3 DEF EvidenceFits, MarkerSound
<1>7. FilesTyped' /\ NoEmptyReplacement' /\ EventsSound'
  BY <1>1, <1>2 DEF FilesSound, FilesTyped, NoEmptyReplacement, EventsSound
<1>8. BindingSound(disk.binding)' /\ StateSound'
  BY <1>1, <1>3 DEF BindingSound, StateSound
<1> QED BY <1>1, <1>2, <1>3, <1>5, <1>6, <1>7, <1>8 DEF FilesSound

(* Control within a saga or a recovery.                                    *)
LEMMA SagaWrite ==
    ASSUME Inv, NEW p \in Procs, NEW there, marker # None,
           \/ pc[p] \in Saving /\ there \in Saving /\ SavingSound(p)'
           \/ pc[p] \in Undoing /\ there \in Undoing \ {"recover"} /\ UndoingSound(p)',
           Go(p, there), UNCHANGED <<lock, job>>, FilesSound', disk'.made = disk.made
    PROVE  Inv'
<1>1. Held(there) = "exclusive" /\ Held(pc[p]) = "exclusive" /\ there # "registering"
      /\ there \notin Beginning
  BY DEF Held, Alone, Beginning, Saving, Undoing
<1>2. OnlyMoves(p) /\ Admits(p) /\ pc'[p] = there /\ job'[p] = job[p]
  BY <1>1, GoOn
<1>3. JobSound(p) /\ disk.made /\ lock[p] = "exclusive" /\ disk.binding # None
  BY <1>1 DEF Inv, ControlSound, ProcessSound, FilesSound, Saving, Undoing
<1>4. JobSound(p)'
  BY <1>2, <1>3 DEF JobSound, Saving, Undoing, Beginning
<1>5. ProcessSound(p)'
  BY <1>2, <1>3, <1>4 DEF ProcessSound, Beginning, Using, Saving, Undoing
<1> QED BY <1>2, <1>3, <1>5, StepSound DEF Effect

-----------------------------------------------------------------------------
(* recovery                                                                 *)

LEMMA RecoverLockSound == ASSUME Inv, NEW p \in Procs, RecoverLock(p) PROVE Inv'
<1>1. FilesSound' /\ SameFiles /\ disk'.made = disk.made
  BY FilesStay, FaultsBounded DEF Inv, RecoverLock, counters, SameFiles
<1>2. /\ OnlyMoves(p) /\ pc[p] = "recover-lock" /\ pc'[p] = "recover"
      /\ lock'[p] = "exclusive" /\ job'[p] = job[p]
  BY DEF Inv, ControlSound, LocksExclude, RecoverLock, At, Go, Take, OnlyMoves, Locks
<1>3. Held("recover") = "exclusive"
  BY DEF Held, Alone, Undoing
<1>4. Admits(p)
  BY <1>2, <1>3 DEF RecoverLock, Admits, Beginning
<1>5. ProcessSound(p)
  BY DEF Inv
<1>6. ProcessSound(p)'
  BY <1>1, <1>2, <1>5 DEF ProcessSound, JobSound, Beginning, Using, Saving, Undoing
<1> QED BY <1>1, <1>2, <1>4, <1>6, StepSound DEF Effect

LEMMA ResumeStep ==
    ASSUME Inv, NEW p \in Procs, pc[p] \in Undoing, Resume(p), disk'.made = disk.made
    PROVE  OnlyMoves(p) /\ Admits(p) /\ ProcessSound(p)' /\ lock[p] = "exclusive"
<1>1. /\ JobSound(p) /\ disk.made /\ lock[p] = "exclusive"
      /\ job[p].then \in {"share", "adv-read", "failed"}
  BY DEF Inv, ControlSound, ProcessSound, JobSound, Held, Alone, Undoing
<1>2. CASE job[p].then = "share"
  <2>1. Take(p, "none") /\ Go(p, "share") /\ UNCHANGED job
    BY <1>2 DEF Resume
  <2>2. OnlyMoves(p) /\ pc'[p] = "share" /\ lock'[p] = "none" /\ job'[p] = job[p]
    BY <2>1 DEF Inv, ControlSound, LocksExclude, Go, Take, OnlyMoves, Locks
  <2>3. Held("share") = "none"
    BY DEF Held, Alone, Beginning, Using, Saving, Undoing
  <2>4. Admits(p)
    BY <2>2, <2>3 DEF Admits, Beginning
  <2>5. ProcessSound(p)'
    BY <1>1, <1>2, <2>2 DEF ProcessSound, JobSound, Beginning, Using, Saving, Undoing
  <2> QED BY <1>1, <2>2, <2>4, <2>5
<1>3. CASE job[p].then = "adv-read"
  <2>1. Go(p, "adv-read") /\ UNCHANGED <<lock, job>>
    BY <1>3 DEF Resume
  <2>2. Held("adv-read") = Held(pc[p]) /\ "adv-read" \notin Beginning
    BY DEF Held, Alone, Beginning, Undoing
  <2>3. OnlyMoves(p) /\ Admits(p) /\ pc'[p] = "adv-read" /\ job'[p] = job[p]
    BY <2>1, <2>2, GoOn
  <2>4. ProcessSound(p)'
    BY <1>1, <1>3, <2>3 DEF ProcessSound, JobSound, Beginning, Using, Saving, Undoing
  <2> QED BY <1>1, <2>3, <2>4
<1>4. CASE job[p].then = "failed"
  BY <1>1, <1>4, LeaveStep DEF Resume
<1> QED BY <1>1, <1>2, <1>3, <1>4

LEMMA RecoverStateSound == ASSUME Inv, NEW p \in Procs, RecoverState(p) PROVE Inv'
<1>1. pc[p] = "recover" /\ pc[p] \in Undoing /\ disk' = disk
      /\ UNCHANGED <<attempts, faults, accepted>>
  BY DEF RecoverState, At, Undoing, counters
<1>2. CASE marker = None
  <2>1. Resume(p) /\ UNCHANGED state
    BY <1>2 DEF RecoverState
  <2>2. FilesSound' /\ SameFiles
    BY <1>1, <2>1, FilesStay, FaultsBounded DEF Inv, SameFiles
  <2> QED BY <1>1, <2>1, <2>2, ResumeStep, StepSound DEF Effect
<1>3. CASE marker # None /\ state.gen \in {marker.old.gen, marker.new.gen}
  <2>1. /\ state' = [state EXCEPT !.gen = marker.old.gen]
        /\ Go(p, "undo-config") /\ UNCHANGED <<lock, job>>
    BY <1>3 DEF RecoverState
  <2>2. FilesSound' /\ marker' = marker
    <3>1. \A g : Archived(g)' = Archived(g)
      BY <1>1 DEF Archived
    <3> QED BY <1>1, <1>3, <2>1, <3>1, SagaFiles DEF Inv, FilesSound, FilesTyped
  <2>3. UndoingSound(p)'
    <3>1. pc'[p] = "undo-config"
      BY <2>1 DEF Inv, ControlSound, Go
    <3>2. state'.gen = marker.old.gen
      BY <1>3, <2>1 DEF Inv, FilesSound, StateSound
    <3> QED BY <1>3, <2>2, <3>1, <3>2 DEF UndoingSound
  <2> QED BY <1>1, <1>3, <2>1, <2>2, <2>3, SagaWrite DEF Undoing
<1>4. CASE marker # None /\ state.gen \notin {marker.old.gen, marker.new.gen}
  BY <1>1, <1>4, LeaveSound, FaultsBounded DEF Inv, RecoverState
<1> QED BY <1>2, <1>3, <1>4

(* Each write of a recovery brings back one part of the generation.        *)
LEMMA UndoSound ==
    ASSUME Inv, NEW p \in Procs,
           UndoConfig(p) \/ UndoProfile(p) \/ UndoBinding(p) \/ UndoEvent(p) \/ UndoHistory(p)
    PROVE  Inv'
<1>1. pc[p] \in {"undo-config", "undo-profile", "undo-binding", "undo-event", "undo-history"}
  BY DEF UndoConfig, UndoProfile, UndoBinding, UndoEvent, UndoHistory, Write, At
<1>2. UndoingSound(p) /\ marker # None /\ FilesSound
  BY <1>1 DEF Inv, ProcessSound, UndoingSound, Undoing
<1>3. DOMAIN disk = Fields /\ MarkerSound /\ disk.profile \in Profiles \cup {None}
      /\ \A g \in DOMAIN disk.history : disk.history[g] \in {"partial", "full"}
  BY <1>2 DEF FilesSound, FilesTyped
<1>4. /\ DOMAIN disk' = Fields /\ disk'.marker = disk.marker /\ disk'.made = disk.made
      /\ disk'.intent = disk.intent /\ disk'.store = disk.store
      /\ UNCHANGED <<state, lock, job, attempts, faults, accepted>>
  BY <1>3 DEF UndoConfig, UndoProfile, UndoBinding, UndoEvent, UndoHistory, Write, counters, Fields
<1>5. marker' = marker
  BY <1>4 DEF marker
<1>6. marker.old.gen.profile \in Profiles
  BY <1>3 DEF MarkerSound, BindingSound, GenSound
<1>7. CASE UndoConfig(p)
  <2>1. /\ disk'.config = marker.old.gen.config /\ disk'.profile = disk.profile
        /\ disk'.binding = disk.binding /\ disk'.history = disk.history
        /\ disk'.events = disk.events /\ Go(p, "undo-profile") /\ pc[p] = "undo-config"
    BY <1>3, <1>7 DEF UndoConfig, Write, At, Fields
  <2>2. FilesSound'
    <3>1. \A g : Archived(g)' = Archived(g)
      BY <2>1 DEF Archived
    <3> QED BY <1>2, <1>3, <1>4, <2>1, <3>1, SagaFiles
  <2>3. UndoingSound(p)'
    BY <1>2, <1>4, <1>5, <2>1 DEF Inv, ControlSound, UndoingSound, Go
  <2> QED BY <1>2, <1>4, <2>1, <2>2, <2>3, SagaWrite DEF Undoing
<1>8. CASE UndoProfile(p)
  <2>1. /\ disk'.profile = marker.old.gen.profile /\ disk'.config = disk.config
        /\ disk'.binding = disk.binding /\ disk'.history = disk.history
        /\ disk'.events = disk.events /\ Go(p, "undo-binding") /\ pc[p] = "undo-profile"
    BY <1>3, <1>8 DEF UndoProfile, Write, At, Fields
  <2>2. FilesSound'
    <3>1. \A g : Archived(g)' = Archived(g)
      BY <2>1 DEF Archived
    <3> QED BY <1>2, <1>3, <1>4, <1>6, <2>1, <3>1, SagaFiles
  <2>3. UndoingSound(p)'
    BY <1>2, <1>4, <1>5, <2>1 DEF Inv, ControlSound, UndoingSound, Go
  <2> QED BY <1>2, <1>4, <2>1, <2>2, <2>3, SagaWrite DEF Undoing
<1>9. CASE UndoBinding(p)
  <2>1. /\ disk'.binding = marker.old /\ disk'.config = disk.config
        /\ disk'.profile = disk.profile /\ disk'.history = disk.history
        /\ disk'.events = disk.events /\ Go(p, "undo-event") /\ pc[p] = "undo-binding"
    BY <1>3, <1>9 DEF UndoBinding, Write, At, Fields
  <2>2. FilesSound'
    <3>1. \A g : Archived(g)' = Archived(g)
      BY <2>1 DEF Archived
    <3> QED BY <1>2, <1>3, <1>4, <2>1, <3>1, SagaFiles
  <2>3. UndoingSound(p)'
    BY <1>2, <1>4, <1>5, <2>1 DEF Inv, ControlSound, UndoingSound, Go
  <2> QED BY <1>2, <1>4, <2>1, <2>2, <2>3, SagaWrite DEF Undoing
<1>10. CASE UndoEvent(p)
  <2>1. /\ disk'.events = disk.events \ {marker.event} /\ disk'.config = disk.config
        /\ disk'.profile = disk.profile /\ disk'.history = disk.history
        /\ disk'.binding = disk.binding /\ Go(p, "undo-history") /\ pc[p] = "undo-event"
    BY <1>3, <1>10 DEF UndoEvent, Write, At, Fields
  <2>2. FilesSound'
    <3>1. \A g : Archived(g)' = Archived(g)
      BY <2>1 DEF Archived
    <3> QED BY <1>2, <1>3, <1>4, <2>1, <3>1, SagaFiles
  <2>3. UndoingSound(p)'
    BY <1>2, <1>4, <1>5, <2>1 DEF Inv, ControlSound, UndoingSound, Go
  <2> QED BY <1>2, <1>4, <2>1, <2>2, <2>3, SagaWrite DEF Undoing
<1>11. CASE UndoHistory(p)
  <2>1. /\ disk'.history = Without(disk.history, marker.created) /\ disk'.config = disk.config
        /\ disk'.profile = disk.profile /\ disk'.events = disk.events
        /\ disk'.binding = disk.binding /\ Go(p, "undo-marker") /\ pc[p] = "undo-history"
    BY <1>3, <1>11 DEF UndoHistory, Write, At, Fields
  <2>2. FilesSound'
    <3>1. \A g : g \notin marker.created => Archived(g)' = Archived(g)
      BY <2>1 DEF Archived, Without
    <3>2. \A g \in DOMAIN disk'.history : disk'.history[g] \in {"partial", "full"}
      BY <1>3, <2>1 DEF Without
    <3> QED BY <1>2, <1>3, <1>4, <2>1, <3>1, <3>2, SagaFiles
  <2>3. UndoingSound(p)'
    BY <1>2, <1>4, <1>5, <2>1 DEF Inv, ControlSound, UndoingSound, Go
  <2> QED BY <1>2, <1>4, <2>1, <2>2, <2>3, SagaWrite DEF Undoing
<1> QED BY <1>7, <1>8, <1>9, <1>10, <1>11

LEMMA UndoMarkerSound == ASSUME Inv, NEW p \in Procs, UndoMarker(p) PROVE Inv'
<1>1. pc[p] = "undo-marker" /\ UndoingSound(p) /\ FilesSound
  BY DEF Inv, ProcessSound, UndoMarker, At, Undoing
<1>2. /\ marker # None /\ disk.binding = marker.old /\ state.gen = disk.binding.gen
      /\ disk.config = disk.binding.gen.config /\ disk.profile = disk.binding.gen.profile
      /\ marker.event \notin disk.events
  BY <1>1 DEF UndoingSound
<1>3. \A x \in disk.events : Archived(x.from) = "full" /\ Archived(x.to) = "full"
  BY <1>1, <1>2 DEF FilesSound, EventsSound
<1>4. disk' = [disk EXCEPT !.marker = None] /\ UNCHANGED <<state, attempts, faults, accepted>>
  BY DEF UndoMarker, counters
<1>5. FilesSound' /\ disk'.made = disk.made
  BY <1>1, <1>2, <1>3, <1>4, MarkerEnds
<1>6. OnlyMoves(p) /\ Admits(p) /\ ProcessSound(p)' /\ lock[p] = "exclusive"
  BY <1>1, <1>5, ResumeStep DEF UndoMarker, Undoing
<1>7. disk.binding # None
  BY <1>1, <1>2 DEF FilesSound
<1> QED BY <1>5, <1>6, <1>7, StepSound DEF Effect

-----------------------------------------------------------------------------
(* profile advance                                                          *)

LEMMA AdvanceLockSound == ASSUME Inv, NEW p \in Procs, AdvanceLock(p) PROVE Inv'
<1>1. FilesSound' /\ SameFiles /\ disk'.made = disk.made
  BY FilesStay, FaultsBounded DEF Inv, AdvanceLock, counters, SameFiles
<1>2. /\ OnlyMoves(p) /\ pc[p] = "idle" /\ pc'[p] = "recover"
      /\ lock'[p] = "exclusive" /\ job'[p] = [job[p] EXCEPT !.then = "adv-read"]
  BY DEF Inv, ControlSound, LocksExclude, AdvanceLock, At, Go, Take, OnlyMoves, Locks
<1>3. Held("recover") = "exclusive"
  BY DEF Held, Alone, Undoing
<1>4. Admits(p)
  BY <1>2, <1>3 DEF AdvanceLock, Admits, Beginning
<1>5. JobSound(p) /\ disk.made
  BY DEF Inv, ProcessSound, AdvanceLock
<1>6. JobSound(p)'
  BY <1>2, <1>5 DEF JobSound, Beginning
<1>7. ProcessSound(p)'
  BY <1>1, <1>2, <1>5, <1>6 DEF ProcessSound, Beginning, Using, Saving, Undoing
<1> QED BY <1>1, <1>2, <1>4, <1>7, StepSound DEF Effect

(* The children a nested close registers.                                  *)
LEMMA ClosingFiles ==
    ASSUME FilesSound, Openable, disk' = [disk EXCEPT !.binding.kids = @ \cup Unregistered],
           UNCHANGED <<state, attempts, faults, accepted>>
    PROVE  /\ FilesSound' /\ disk'.made = disk.made /\ marker' = None
           /\ disk'.binding # None /\ disk'.binding.gen = disk.binding.gen
<1> PICK added : added = Unregistered
  OBVIOUS
<1>1. added \subseteq Kids
  BY DEF Unregistered
<1>2. marker = None /\ disk.binding # None /\ BindingSound(disk.binding)
  BY DEF Openable, Agrees, FilesSound
<1>3. disk' = [disk EXCEPT !.binding =
                 [gen |-> disk.binding.gen, kids |-> disk.binding.kids \cup added]]
  <2>1. [disk.binding EXCEPT !.kids = @ \cup added]
          = [gen |-> disk.binding.gen, kids |-> disk.binding.kids \cup added]
    BY <1>2, SMTT(30) DEF BindingSound
  <2>2. disk' = [disk EXCEPT !.binding = [disk.binding EXCEPT !.kids = @ \cup added]]
    BY DEF FilesSound, Fields
  <2> QED BY <2>1, <2>2
<1>4. /\ FilesSound' /\ disk'.made = disk.made /\ marker' = None
      /\ disk'.binding = [gen |-> disk.binding.gen, kids |-> disk.binding.kids \cup added]
      /\ disk'.binding # None
  BY <1>1, <1>2, <1>3, BindingFiles
<1> QED BY <1>4

LEMMA AdvanceReadSound == ASSUME Inv, NEW p \in Procs, AdvanceRead(p) PROVE Inv'
<1>1. pc[p] = "adv-read" /\ JobSound(p) /\ disk.made /\ FilesSound
  BY DEF Inv, ProcessSound, AdvanceRead, At
<1>2. CASE Openable
  <2>1. /\ disk' = [disk EXCEPT !.binding.kids = @ \cup Unregistered]
        /\ UNCHANGED <<state, lock, attempts, faults, accepted>>
        /\ job' = [job EXCEPT ![p].old = disk.binding] /\ Go(p, "adv-check")
    BY <1>2 DEF AdvanceRead, counters
  <2>2. /\ FilesSound' /\ disk'.made = disk.made /\ marker' = None
        /\ disk'.binding # None /\ disk'.binding.gen = disk.binding.gen
    BY <1>1, <1>2, <2>1, ClosingFiles
  <2>3. /\ OnlyMoves(p) /\ pc'[p] = "adv-check" /\ lock'[p] = lock[p]
        /\ job'[p] = [job[p] EXCEPT !.old = disk.binding]
    BY <2>1 DEF Inv, ControlSound, LocksExclude, Go, OnlyMoves
  <2>4. Held("adv-check") = "exclusive" /\ Held("adv-read") = "exclusive"
    BY DEF Held, Alone
  <2>5. Admits(p) /\ lock[p] = "exclusive"
    BY <1>1, <2>3, <2>4 DEF Inv, ControlSound, Admits, Beginning
  <2>6. disk.binding # None /\ BindingSound(disk.binding)
    BY <1>1, <1>2 DEF Openable, Agrees, FilesSound
  <2>7. job'[p].old = disk.binding /\ DOMAIN job'[p] = {"then", "old", "kid", "read"}
    BY <1>1, <2>3 DEF JobSound
  <2>8. BindingSound(job[p].old)' /\ job'[p].old.gen = disk'.binding.gen /\ JobSound(p)'
    BY <2>1, <2>2, <2>3, <2>6, <2>7 DEF BindingSound, JobSound, Undoing, Beginning
  <2>9. ProcessSound(p)'
    BY <1>1, <2>2, <2>3, <2>8 DEF ProcessSound, Beginning, Using, Saving, Undoing
  <2> QED BY <2>2, <2>3, <2>5, <2>6, <2>9, StepSound DEF Effect
<1>3. CASE ~Openable
  BY <1>3, LeaveSound, FaultsBounded DEF Inv, AdvanceRead, counters
<1> QED BY <1>2, <1>3

LEMMA AdvanceVerifySound == ASSUME Inv, NEW p \in Procs, AdvanceVerify(p) PROVE Inv'
<1>1. pc[p] = "adv-verify" /\ FilesSound
  BY DEF Inv, AdvanceVerify, At
<1>2. CASE Openable
  <2>1. /\ disk' = [disk EXCEPT !.binding.kids = @ \cup Unregistered]
        /\ UNCHANGED <<state, attempts, faults, accepted>>
    BY <1>2 DEF AdvanceVerify, counters
  <2>2. FilesSound' /\ disk'.made = disk.made /\ disk.binding # None
    BY <1>1, <1>2, <2>1, ClosingFiles DEF Openable, Agrees
  <2>3. OnlyMoves(p) /\ Admits(p) /\ ProcessSound(p)'
    BY LeaveStep DEF AdvanceVerify
  <2>4. lock[p] = "exclusive"
    BY <1>1 DEF Inv, ControlSound, Held, Alone
  <2> QED BY <2>2, <2>3, <2>4, StepSound DEF Effect
<1>3. CASE ~Openable
  BY <1>3, LeaveSound, FaultsBounded DEF Inv, AdvanceVerify, counters
<1> QED BY <1>2, <1>3

(* The marker announces a move that was checked under the lock.            *)
LEMMA MarkerBegins ==
    ASSUME FilesSound, marker = None, disk.binding # None,
           NEW old, BindingSound(old), old.gen = disk.binding.gen,
           NEW new, new \in Targets(old.gen), new # old.gen,
           Admitted(old.gen, new, state.evidence),
           attempts < MaxAttempts, attempts' = attempts + 1,
           disk' = [disk EXCEPT !.marker =
                 [old     |-> old,
                  new     |-> [gen |-> new, kids |-> old.kids],
                  created |-> {g \in {old.gen, new} : Archived(g) = "absent"},
                  event   |-> [id |-> attempts + 1, from |-> old.gen, to |-> new]]],
           UNCHANGED <<state, faults, accepted>>
    PROVE  /\ FilesSound' /\ marker' # None /\ marker'.old = old /\ marker'.new.gen = new
           /\ disk'.made = disk.made /\ disk'.binding = disk.binding /\ disk'.events = disk.events
           /\ marker'.event \notin disk.events
<1>1. /\ DOMAIN disk' = Fields /\ disk'.made = disk.made /\ disk'.intent = disk.intent
      /\ disk'.config = disk.config /\ disk'.profile = disk.profile /\ disk'.binding = disk.binding
      /\ disk'.history = disk.history /\ disk'.events = disk.events /\ disk'.store = disk.store
  BY DEF FilesSound, Fields
<1>2. /\ marker'.old = old /\ marker'.new = [gen |-> new, kids |-> old.kids]
      /\ marker'.created = {g \in {old.gen, new} : Archived(g) = "absent"}
      /\ marker'.event = [id |-> attempts + 1, from |-> old.gen, to |-> new]
      /\ marker' # None
  BY DEF FilesSound, Fields, marker, None
<1>3. attempts \in Nat /\ attempts' # 0 /\ attempts' \in 0..MaxAttempts
  BY BoundsAreNat DEF FilesSound, FilesTyped
<1>4. \A x \in disk.events : x.id \in 1..attempts /\ x # marker'.event
  <2>1. \A x \in disk.events : x.id \in 1..attempts
    BY DEF FilesSound, EventsSound
  <2>2. marker'.event.id = attempts + 1
    BY <1>2
  <2> QED BY <1>3, <2>1, <2>2
<1>5. MarkerSound'
  <2>1. BindingSound(marker.old)'
    BY <1>2 DEF BindingSound
  <2>2. GenSound(new)
    BY TargetsAreSound DEF BindingSound
  <2>3. Permitted(old.gen, new) /\ StateCompatible(state.evidence, new.profile)
    BY DEF Admitted, Permitted
  <2>4. StateCompatible(state.evidence, old.gen.profile)
    BY DEF FilesSound, OneGeneration, Agrees, EvidenceFits
  <2> QED BY <1>2, <1>3, <2>1, <2>2, <2>3, <2>4 DEF MarkerSound
<1>6. FilesTyped'
  BY <1>1, <1>3 DEF FilesSound, FilesTyped
<1>7. EventsSound'
  <2>1. \A g : Archived(g)' = Archived(g)
    BY <1>1 DEF Archived
  <2>2. \A x \in disk.events : Archived(x.from) = "full" /\ Archived(x.to) = "full"
    BY DEF FilesSound, EventsSound
  <2>3. \A x \in disk.events : x.id \in 1..attempts'
    BY <1>3, <1>4
  <2> QED BY <1>1, <1>2, <2>1, <2>2, <2>3 DEF EventsSound
<1>8. OneGeneration' /\ EvidenceFits' /\ NoEmptyReplacement'
  BY <1>1, <1>2 DEF FilesSound, OneGeneration, EvidenceFits, NoEmptyReplacement
<1>9. BindingSound(disk.binding)' /\ (state # None => StateSound') /\ disk'.made /\ state # None
  BY <1>1 DEF FilesSound, FilesTyped, BindingSound, StateSound
<1>10. state' = state /\ accepted' = accepted /\ disk'.binding # None /\ marker'.event \notin disk.events
  BY <1>1, <1>4
<1>11. FilesSound'
  BY <1>1, <1>5, <1>6, <1>7, <1>8, <1>9, <1>10 DEF FilesSound
<1>12. marker'.new.gen = new
  BY <1>2
<1> QED BY <1>1, <1>2, <1>10, <1>11, <1>12

LEMMA AdvanceCheckSound ==
    ASSUME Inv, NEW p \in Procs, NEW new, new \in Targets(job[p].old.gen), AdvanceCheck(p, new)
    PROVE  Inv'
<1> PICK old : old = job[p].old
  OBVIOUS
<1>1. pc[p] = "adv-check" /\ JobSound(p) /\ disk.made /\ FilesSound
      /\ marker = None /\ disk.binding # None /\ BindingSound(old) /\ old.gen = disk.binding.gen
  BY DEF Inv, ProcessSound, AdvanceCheck, At
<1>2. CASE new = old.gen \/ ~Admitted(old.gen, new, state.evidence)
  BY <1>2, LeaveSound, FaultsBounded DEF Inv, AdvanceCheck
<1>3. CASE new # old.gen /\ Admitted(old.gen, new, state.evidence)
  <2>1. /\ attempts < MaxAttempts /\ attempts' = attempts + 1
        /\ disk' = [disk EXCEPT !.marker =
                 [old     |-> old,
                  new     |-> [gen |-> new, kids |-> old.kids],
                  created |-> {g \in {old.gen, new} : Archived(g) = "absent"},
                  event   |-> [id |-> attempts + 1, from |-> old.gen, to |-> new]]]
        /\ UNCHANGED <<state, lock, job, faults, accepted>> /\ Go(p, "archive-old")
    BY <1>3 DEF AdvanceCheck
  <2>2. /\ FilesSound' /\ marker' # None /\ disk'.made = disk.made
        /\ disk'.binding = disk.binding
    BY <1>1, <1>3, <2>1, MarkerBegins
  <2>3. Held("archive-old") = "exclusive" /\ Held("adv-check") = "exclusive"
        /\ "archive-old" \notin Beginning
    BY DEF Held, Alone, Saving, Beginning
  <2>4. OnlyMoves(p) /\ Admits(p) /\ pc'[p] = "archive-old" /\ job'[p] = job[p]
        /\ lock[p] = "exclusive"
    BY <1>1, <2>1, <2>3, GoOn DEF Inv, ControlSound
  <2>5. SavingSound(p)' /\ JobSound(p)'
    BY <1>1, <2>2, <2>4 DEF SavingSound, JobSound, Undoing, Beginning
  <2>6. ProcessSound(p)'
    BY <1>1, <2>2, <2>4, <2>5 DEF ProcessSound, Beginning, Using, Saving, Undoing
  <2> QED BY <1>1, <2>2, <2>4, <2>6, StepSound DEF Effect
<1> QED BY <1>2, <1>3

LEMMA ArchiveFiles ==
    ASSUME FilesSound, marker # None, NEW g, NEW x \in {"partial", "full"},
           x = "full" \/ Archived(g) = "absent",
           disk' = [disk EXCEPT !.history = WithArchive(@, g, x)],
           UNCHANGED <<state, attempts, faults, accepted>>
    PROVE  /\ FilesSound' /\ marker' = marker /\ disk'.made = disk.made
           /\ Archived(g)' = x /\ \A h : Archived(h) = "full" => Archived(h)' = "full"
<1>1. /\ DOMAIN disk' = Fields /\ disk'.made = disk.made /\ disk'.intent = disk.intent
      /\ disk'.config = disk.config /\ disk'.profile = disk.profile /\ disk'.binding = disk.binding
      /\ disk'.marker = disk.marker /\ disk'.events = disk.events /\ disk'.store = disk.store
      /\ disk'.history = WithArchive(disk.history, g, x)
  BY DEF FilesSound, Fields
<1>2. /\ \A h : h # g => Archived(h)' = Archived(h)
      /\ Archived(g)' = x
  BY <1>1 DEF Archived, WithArchive
<1>3. \A h : Archived(h) = "full" => Archived(h)' = "full"
  BY <1>2
<1>4. \A h \in DOMAIN disk'.history : disk'.history[h] \in {"partial", "full"}
  BY <1>1 DEF FilesSound, FilesTyped, WithArchive
<1>5. disk.profile \in Profiles \cup {None}
  BY DEF FilesSound, FilesTyped
<1> QED BY <1>1, <1>2, <1>3, <1>4, <1>5, SagaFiles

(* Both generations are archived in the same way, one after the other.     *)
LEMMA ArchiveSound ==
    ASSUME Inv, NEW p \in Procs, marker # None, NEW g, NEW here, NEW fill, NEW there,
           \/ /\ g = marker.old.gen /\ here = "archive-old"
              /\ fill = "fill-old" /\ there = "archive-new"
           \/ /\ g = marker.new.gen /\ here = "archive-new"
              /\ fill = "fill-new" /\ there = "put-config",
           Archive(p, g, here, fill, there) \/ ArchiveFill(p, g, fill, there)
    PROVE  Inv'
<1>1. /\ pc[p] \in {here, fill} /\ pc[p] \in Saving /\ {here, fill, there} \subseteq Saving
      /\ FilesSound /\ DOMAIN pc = Procs
  BY DEF Inv, ControlSound, Archive, ArchiveFill, Write, At, Saving
<1>2. SavingSound(p)
  BY <1>1 DEF Inv, ProcessSound
<1>3. CASE Archive(p, g, here, fill, there) /\ Archived(g) = "absent"
  <2>1. /\ disk' = [disk EXCEPT !.history = WithArchive(@, g, "partial")] /\ Go(p, fill)
        /\ pc[p] = here /\ UNCHANGED <<state, lock, job, attempts, faults, accepted>>
    BY <1>3 DEF Archive, At, counters
  <2>2. /\ FilesSound' /\ marker' = marker /\ disk'.made = disk.made
        /\ \A h : Archived(h) = "full" => Archived(h)' = "full"
    BY <1>1, <1>3, <2>1, ArchiveFiles
  <2>3. SavingSound(p)'
    BY <1>1, <1>2, <2>1, <2>2 DEF SavingSound, Go
  <2> QED BY <1>1, <2>1, <2>2, <2>3, SagaWrite
<1>4. CASE ArchiveFill(p, g, fill, there)
  <2>1. /\ disk' = [disk EXCEPT !.history = WithArchive(@, g, "full")] /\ Go(p, there)
        /\ pc[p] = fill /\ UNCHANGED <<state, lock, job, attempts, faults, accepted>>
    BY <1>4 DEF ArchiveFill, Write, At, counters
  <2>2. /\ FilesSound' /\ marker' = marker /\ disk'.made = disk.made
        /\ Archived(g)' = "full" /\ \A h : Archived(h) = "full" => Archived(h)' = "full"
    BY <1>1, <2>1, ArchiveFiles
  <2>3. SavingSound(p)'
    BY <1>1, <1>2, <2>1, <2>2 DEF SavingSound, Go
  <2> QED BY <1>1, <2>1, <2>2, <2>3, SagaWrite
<1>5. CASE Archive(p, g, here, fill, there) /\ Archived(g) = "full"
  <2>1. /\ Go(p, there) /\ pc[p] = here
        /\ UNCHANGED <<disk, state, lock, job, attempts, faults, accepted>>
    BY <1>5 DEF Archive, At, counters
  <2>2. FilesSound' /\ marker' = marker /\ \A h : Archived(h)' = Archived(h)
    BY <1>1, <2>1, FilesStay, FaultsBounded DEF marker, Archived
  <2>3. SavingSound(p)'
    BY <1>1, <1>2, <1>5, <2>1, <2>2 DEF SavingSound, Go
  <2> QED BY <1>1, <2>1, <2>2, <2>3, SagaWrite
<1>6. CASE Archive(p, g, here, fill, there) /\ Archived(g) = "partial"
  BY <1>1, <1>6, RollsBack, FaultsBounded DEF Archive, counters
<1>7. Archived(g) \in {"absent", "partial", "full"}
  BY <1>1 DEF Archived, FilesSound, FilesTyped
<1> QED BY <1>3, <1>4, <1>5, <1>6, <1>7

LEMMA ArchiveStepSound == ASSUME Inv, NEW p \in Procs, ArchiveStep(p) PROVE Inv'
<1> PICK old : old = marker.old.gen
  OBVIOUS
<1> PICK new : new = marker.new.gen
  OBVIOUS
<1>1. CASE \/ Archive(p, old, "archive-old", "fill-old", "archive-new")
           \/ ArchiveFill(p, old, "fill-old", "archive-new")
  BY <1>1, ArchiveSound DEF ArchiveStep
<1>2. CASE \/ Archive(p, new, "archive-new", "fill-new", "put-config")
           \/ ArchiveFill(p, new, "fill-new", "put-config")
  BY <1>2, ArchiveSound DEF ArchiveStep
<1>3. \/ Archive(p, old, "archive-old", "fill-old", "archive-new")
      \/ ArchiveFill(p, old, "fill-old", "archive-new")
      \/ Archive(p, new, "archive-new", "fill-new", "put-config")
      \/ ArchiveFill(p, new, "fill-new", "put-config")
  BY DEF ArchiveStep, Archive, ArchiveFill
<1> QED BY <1>1, <1>2, <1>3

LEMMA PutSound ==
    ASSUME Inv, NEW p \in Procs,
           PutConfig(p) \/ PutProfile(p) \/ PutBinding(p) \/ Rebind(p) \/ PutEvent(p)
    PROVE  Inv'
<1>1. pc[p] \in {"put-config", "put-profile", "put-binding", "rebind", "put-event"}
  BY DEF PutConfig, PutProfile, PutBinding, Rebind, PutEvent, Write, At
<1>2. SavingSound(p) /\ marker # None /\ FilesSound
  BY <1>1 DEF Inv, ProcessSound, SavingSound, Saving
<1>3. DOMAIN disk = Fields /\ MarkerSound /\ disk.profile \in Profiles \cup {None}
      /\ StateSound /\ \A g \in DOMAIN disk.history : disk.history[g] \in {"partial", "full"}
  BY <1>2 DEF FilesSound, FilesTyped
<1>4. /\ DOMAIN disk' = Fields /\ disk'.marker = disk.marker /\ disk'.made = disk.made
      /\ disk'.intent = disk.intent /\ disk'.store = disk.store
      /\ disk'.history = disk.history
      /\ UNCHANGED <<lock, job, attempts, faults, accepted>>
  BY <1>3 DEF PutConfig, PutProfile, PutBinding, Rebind, PutEvent, Write, counters, Fields
<1>5. marker' = marker /\ \A g : Archived(g)' = Archived(g)
  BY <1>4 DEF marker, Archived
<1>6. marker.new.gen.profile \in Profiles
  BY <1>3 DEF MarkerSound, GenSound
<1>7. CASE PutConfig(p)
  <2>1. /\ disk'.config = marker.new.gen.config /\ disk'.profile = disk.profile
        /\ disk'.binding = disk.binding /\ state' = state
        /\ disk'.events = disk.events /\ Go(p, "put-profile") /\ pc[p] = "put-config"
    BY <1>3, <1>7 DEF PutConfig, Write, At, Fields
  <2>2. FilesSound'
    BY <1>2, <1>3, <1>4, <1>5, <2>1, SagaFiles
  <2>3. SavingSound(p)'
    BY <1>2, <1>5, <2>1 DEF Inv, ControlSound, SavingSound, Go
  <2> QED BY <1>2, <1>4, <2>1, <2>2, <2>3, SagaWrite DEF Saving
<1>8. CASE PutProfile(p)
  <2>1. /\ disk'.profile = marker.new.gen.profile /\ disk'.config = disk.config
        /\ disk'.binding = disk.binding /\ state' = state
        /\ disk'.events = disk.events /\ Go(p, "put-binding") /\ pc[p] = "put-profile"
    BY <1>3, <1>8 DEF PutProfile, Write, At, Fields
  <2>2. FilesSound'
    BY <1>2, <1>3, <1>4, <1>5, <1>6, <2>1, SagaFiles
  <2>3. SavingSound(p)'
    BY <1>2, <1>5, <2>1 DEF Inv, ControlSound, SavingSound, Go
  <2> QED BY <1>2, <1>4, <2>1, <2>2, <2>3, SagaWrite DEF Saving
<1>9. CASE PutBinding(p)
  <2>1. /\ disk'.binding = marker.new /\ disk'.config = disk.config
        /\ disk'.profile = disk.profile /\ state' = state
        /\ disk'.events = disk.events /\ Go(p, "rebind") /\ pc[p] = "put-binding"
    BY <1>3, <1>9 DEF PutBinding, Write, At, Fields
  <2>2. FilesSound'
    BY <1>2, <1>3, <1>4, <1>5, <2>1, SagaFiles
  <2>3. SavingSound(p)'
    BY <1>2, <1>5, <2>1 DEF Inv, ControlSound, SavingSound, Go
  <2> QED BY <1>2, <1>4, <2>1, <2>2, <2>3, SagaWrite DEF Saving
<1>10. CASE Rebind(p)
  <2>1. /\ state' = [state EXCEPT !.gen = marker.new.gen] /\ disk' = disk
        /\ Go(p, "put-event") /\ pc[p] = "rebind"
    BY <1>10 DEF Rebind, At
  <2>2. FilesSound'
    BY <1>2, <1>3, <1>4, <1>5, <2>1, SagaFiles
  <2>3. SavingSound(p)'
    <3>1. state'.gen = marker.new.gen
      BY <1>3, <2>1 DEF StateSound
    <3> QED BY <1>2, <1>5, <2>1, <3>1 DEF Inv, ControlSound, SavingSound, Go
  <2> QED BY <1>2, <1>4, <2>1, <2>2, <2>3, SagaWrite DEF Saving
<1>11. CASE PutEvent(p)
  <2>1. /\ disk'.events = disk.events \cup {marker.event} /\ disk'.config = disk.config
        /\ disk'.profile = disk.profile /\ disk'.binding = disk.binding /\ state' = state
        /\ Go(p, "clear") /\ pc[p] = "put-event"
    BY <1>3, <1>11 DEF PutEvent, Write, At, Fields
  <2>2. FilesSound'
    BY <1>2, <1>3, <1>4, <1>5, <2>1, SagaFiles
  <2>3. SavingSound(p)'
    BY <1>2, <1>5, <2>1 DEF Inv, ControlSound, SavingSound, Go
  <2> QED BY <1>2, <1>4, <2>1, <2>2, <2>3, SagaWrite DEF Saving
<1> QED BY <1>7, <1>8, <1>9, <1>10, <1>11

LEMMA ClearFiles ==
    ASSUME Inv, NEW p \in Procs, Clear(p)
    PROVE  /\ FilesSound' /\ marker' = None /\ disk'.made = disk.made /\ marker # None
           /\ disk.binding = marker.new /\ disk'.binding = disk.binding
           /\ disk'.events = disk.events /\ marker.event \in disk.events
<1>1. pc[p] = "clear" /\ SavingSound(p) /\ FilesSound
  BY DEF Inv, ProcessSound, Clear, Write, At, Saving
<1>2. /\ marker # None /\ disk.binding = marker.new /\ state.gen = disk.binding.gen
      /\ disk.config = disk.binding.gen.config /\ disk.profile = disk.binding.gen.profile
      /\ marker.event \in disk.events
      /\ Archived(marker.old.gen) = "full" /\ Archived(marker.new.gen) = "full"
  BY <1>1 DEF SavingSound
<1>3. \A x \in disk.events : Archived(x.from) = "full" /\ Archived(x.to) = "full"
  <2>1. marker.event.from = marker.old.gen /\ marker.event.to = marker.new.gen
    BY <1>1, <1>2 DEF FilesSound, MarkerSound
  <2> QED BY <1>1, <1>2, <2>1 DEF FilesSound, EventsSound
<1>4. disk' = [disk EXCEPT !.marker = None] /\ UNCHANGED <<state, attempts, faults, accepted>>
  BY DEF Clear, Write, counters
<1> QED BY <1>1, <1>2, <1>3, <1>4, MarkerEnds

LEMMA ClearSound == ASSUME Inv, NEW p \in Procs, Clear(p) PROVE Inv'
<1>1. FilesSound' /\ disk'.made = disk.made /\ disk.binding # None
  BY ClearFiles DEF Inv, FilesSound
<1>2. pc[p] = "clear" /\ JobSound(p) /\ disk.made /\ lock[p] = "exclusive"
  BY DEF Inv, ControlSound, Held, Alone, ProcessSound, Clear, Write, At, Saving
<1>3. Held("adv-verify") = "exclusive" /\ Held("clear") = "exclusive" /\ "adv-verify" \notin Beginning
  BY DEF Held, Alone, Saving, Beginning
<1>4. OnlyMoves(p) /\ Admits(p) /\ pc'[p] = "adv-verify" /\ job'[p] = job[p]
  BY <1>2, <1>3, GoOn DEF Clear, Write
<1>5. ProcessSound(p)'
  BY <1>1, <1>2, <1>4 DEF ProcessSound, JobSound, Beginning, Using, Saving, Undoing
<1> QED BY <1>1, <1>2, <1>4, <1>5, StepSound DEF Effect

-----------------------------------------------------------------------------
(* The invariant                                                            *)

LEMMA StepsSound == ASSUME Inv, NEW p \in Procs, Step(p) PROVE Inv'
<1>1. CASE InitStep(p)
  BY <1>1, InitBeginSound, InitLockSound, InitFilesSound, InitBindingSound, InitDoneSound
     DEF InitStep
<1>2. CASE RecoverStep(p)
  BY <1>2, RecoverLockSound, RecoverStateSound, UndoSound, UndoMarkerSound DEF RecoverStep
<1>3. CASE HandleStep(p)
  BY <1>3, ShareSound, VerifySound, RegisterReadSound, RegisterWriteSound, StoreAcceptSound,
     CloseSound DEF HandleStep
<1>4. CASE AdvanceStep(p)
  BY <1>4, AdvanceReadSound, ArchiveStepSound, PutSound, ClearSound, AdvanceVerifySound
     DEF AdvanceStep
<1> QED BY <1>1, <1>2, <1>3, <1>4 DEF Step

LEMMA AsksSound == ASSUME Inv, NEW p \in Procs, Asks(p) PROVE Inv'
<1>1. CASE Open(p) \/ Finish(p) \/ AdvanceLock(p)
  BY <1>1, OpenSound, FinishSound, AdvanceLockSound
<1>2. CASE \E k \in Kids : StoreOpen(p, k)
  BY <1>2, StoreOpenSound
<1>3. CASE \E r \in Requests : \E e \in ProfilesFor[r] : Capture(p, e.required)
  BY <1>3, CaptureSound
<1>4. CASE \E new \in Targets(job[p].old.gen) : AdvanceCheck(p, new)
  BY <1>4, AdvanceCheckSound
<1> QED BY <1>1, <1>2, <1>3, <1>4 DEF Asks

LEMMA NextSound == ASSUME Inv, [Next]_vars PROVE Inv'
<1>1. ASSUME NEW p \in Procs,
             Step(p) \/ Asks(p) \/ SavingFails(p) \/ Dies(p) \/ TimesOut(p)
      PROVE  Inv'
  BY <1>1, StepsSound, AsksSound, SavingFailsSound, DiesSound, TimesOutSound
<1>2. ASSUME NEW k \in Kids, Lose(k) PROVE Inv'
  BY <1>2, LoseSound
<1>3. CASE UNCHANGED vars
  <2>1. UNCHANGED <<disk, state, lock, pc, job, attempts, faults, accepted>>
    BY <1>3 DEF vars
  <2>2. FilesSound'
    BY <2>1, FilesStay, FaultsBounded DEF Inv
  <2>3. ControlSound'
    BY <2>1 DEF Inv, ControlSound, LocksExclude
  <2>4. ASSUME NEW p \in Procs PROVE ProcessSound(p)'
    <3>1. marker' = marker /\ \A g : Archived(g)' = Archived(g)
      BY <2>1 DEF marker, Archived
    <3>2. /\ BindingSound(job[p].old) => BindingSound(job[p].old)'
          /\ BeginningSound(p) => BeginningSound(p)'
          /\ JobSound(p) => JobSound(p)'
      BY <2>1 DEF BindingSound, BeginningSound, JobSound
    <3>3. /\ UsingSound(p) => UsingSound(p)'
          /\ SavingSound(p) => SavingSound(p)'
          /\ UndoingSound(p) => UndoingSound(p)'
      BY <2>1, <3>1 DEF UsingSound, SavingSound, UndoingSound
    <3> QED BY <2>1, <3>1, <3>2, <3>3 DEF Inv, ProcessSound
  <2> QED BY <2>2, <2>3, <2>4 DEF Inv
<1> QED BY <1>1, <1>2, <1>3 DEF Next

(* The invariant says what one who opens the Workspace relies on.          *)
LEMMA InvIsEnough == Inv => GenerationSound
<1> SUFFICES ASSUME Inv PROVE GenerationSound
  OBVIOUS
<1>1. TypeOK /\ OneGeneration /\ EvidenceFits /\ NoEmptyReplacement /\ HistoryComplete
  BY DEF Inv, ControlSound, FilesSound, TypeOK, EventsSound, HistoryComplete
<1>2. HandleStable
  <2>1. ASSUME NEW p \in Procs, lock[p] = "shared", job[p].old # None
        PROVE  /\ disk.binding.gen = job[p].old.gen /\ state.gen = job[p].old.gen
               /\ marker = None
    <3>1. pc[p] \in Using \cup {"verify"}
      BY <2>1 DEF Inv, ControlSound, Held
    <3>2. pc[p] # "verify"
      BY <2>1 DEF Inv, ProcessSound, JobSound
    <3>3. marker = None /\ disk.binding # None /\ job[p].old.gen = disk.binding.gen
      BY <3>1, <3>2 DEF Inv, ProcessSound, UsingSound
    <3>4. state.gen = disk.binding.gen
      BY <3>3 DEF Inv, FilesSound, OneGeneration, Agrees
    <3> QED BY <3>3, <3>4
  <2> QED BY <2>1 DEF HandleStable
<1>3. PreparedFits
  <2>1. ASSUME state # None PROVE ConfigSound(state.gen.config)
    BY <2>1 DEF Inv, FilesSound, StateSound, GenSound
  <2> QED BY <2>1, PreparedIsAllowed DEF PreparedFits
<1> QED BY <1>1, <1>2, <1>3 DEF GenerationSound

-----------------------------------------------------------------------------
(* The generation the next open is in                                       *)

(* A step under which nothing anybody could open comes or goes.            *)
Quiet ==
    /\ disk'.marker = disk.marker
    /\ marker = None =>
          /\ disk'.events = disk.events
          /\ disk.binding = None =>
                disk'.binding = None \/ (disk'.binding # None /\ disk'.binding.gen = First)
          /\ disk.binding # None =>
                disk'.binding # None /\ disk'.binding.gen = disk.binding.gen
    /\ marker # None =>
          \A x : x # marker.event => (x \in disk'.events <=> x \in disk.events)

LEMMA QuietIsInvisible == ASSUME Quiet PROVE UNCHANGED <<Visible, Recorded>>
<1>1. marker' = marker
  BY DEF Quiet, marker
<1>2. Visible' = Visible
  BY <1>1 DEF Quiet, Visible
<1>3. {y \in disk.events : marker = None \/ y # marker.event}' =
         {y \in disk.events : marker = None \/ y # marker.event}
  BY <1>1 DEF Quiet
<1>4. Recorded' = Recorded
  BY <1>3 DEF Recorded
<1> QED BY <1>2, <1>4

LEMMA UntouchedIsQuiet ==
    ASSUME disk'.marker = disk.marker, disk'.events = disk.events, disk'.binding = disk.binding
    PROVE  Quiet
  BY DEF Quiet

LEMMA QuietInit == ASSUME Inv, NEW p \in Procs, InitStep(p) PROVE Quiet
<1>1. DOMAIN disk = Fields
  BY DEF Inv, FilesSound
<1>2. CASE InitBinding(p)
  <2>1. disk.binding = None /\ marker = None
    BY <1>2 DEF Inv, ProcessSound, BeginningSound, Beginning, InitBinding, Write, At, FilesSound
  <2>2. /\ disk'.marker = disk.marker /\ disk'.events = disk.events
        /\ disk'.binding = [gen |-> First, kids |-> {}]
    BY <1>1, <1>2 DEF InitBinding, Write, Fields
  <2>3. disk'.binding # None /\ disk'.binding.gen = First
    BY <2>2 DEF None
  <2> QED BY <2>1, <2>2, <2>3 DEF Quiet
<1>3. CASE InitBegin(p) \/ InitIntent(p) \/ InitConfig(p) \/ InitProfile(p) \/ InitStarted(p)
  BY <1>1, <1>3, UntouchedIsQuiet
     DEF InitBegin, InitIntent, InitConfig, InitProfile, InitStarted, Write, Fields
<1>4. CASE InitLock(p) \/ InitState(p) \/ InitDone(p)
  BY <1>1, <1>4, UntouchedIsQuiet DEF InitLock, InitState, InitDone, Fields
<1> QED BY <1>2, <1>3, <1>4 DEF InitStep

LEMMA QuietRecover == ASSUME Inv, NEW p \in Procs, RecoverStep(p), ~UndoMarker(p) PROVE Quiet
<1>1. DOMAIN disk = Fields
  BY DEF Inv, FilesSound
<1>2. CASE UndoBinding(p) \/ UndoEvent(p)
  <2>1. marker # None
    BY <1>2 DEF Inv, ProcessSound, UndoingSound, Undoing, UndoBinding, UndoEvent, Write, At
  <2>2. /\ disk'.marker = disk.marker
        /\ disk'.events = disk.events \/ disk'.events = disk.events \ {marker.event}
    BY <1>1, <1>2 DEF UndoBinding, UndoEvent, Write, Fields
  <2> QED BY <2>1, <2>2 DEF Quiet
<1>3. CASE UndoConfig(p) \/ UndoProfile(p) \/ UndoHistory(p)
  BY <1>1, <1>3, UntouchedIsQuiet DEF UndoConfig, UndoProfile, UndoHistory, Write, Fields
<1>4. CASE RecoverLock(p) \/ RecoverState(p)
  BY <1>4, UntouchedIsQuiet DEF RecoverLock, RecoverState
<1> QED BY <1>2, <1>3, <1>4 DEF RecoverStep

LEMMA QuietHandle == ASSUME Inv, NEW p \in Procs, HandleStep(p) PROVE Quiet
<1>1. DOMAIN disk = Fields
  BY DEF Inv, FilesSound
<1>2. CASE RegisterWrite(p)
  <2>1. marker = None /\ disk.binding # None /\ job[p].read = disk.binding
    BY <1>2 DEF Inv, ProcessSound, UsingSound, Using, RegisterWrite, At
  <2>2. /\ disk'.marker = disk.marker /\ disk'.events = disk.events
        /\ disk'.binding = [disk.binding EXCEPT !.kids = @ \cup {job[p].kid}]
    BY <1>1, <1>2, <2>1 DEF RegisterWrite, Fields
  <2>3. disk.binding = [gen |-> disk.binding.gen, kids |-> disk.binding.kids]
    BY <2>1 DEF Inv, FilesSound, BindingSound
  <2>4. disk'.binding # None /\ disk'.binding.gen = disk.binding.gen
    BY <2>2, <2>3 DEF None
  <2> QED BY <2>1, <2>2, <2>4 DEF Quiet
<1>3. CASE StoreAccept(p)
  BY <1>1, <1>3, UntouchedIsQuiet DEF StoreAccept, Fields
<1>4. CASE Share(p) \/ Verify(p) \/ RegisterRead(p) \/ Close(p)
  BY <1>4, UntouchedIsQuiet DEF Share, Verify, RegisterRead, Close
<1> QED BY <1>2, <1>3, <1>4 DEF HandleStep

LEMMA QuietAdvance == ASSUME Inv, NEW p \in Procs, AdvanceStep(p), ~Clear(p) PROVE Quiet
<1>1. DOMAIN disk = Fields
  BY DEF Inv, FilesSound
<1>2. CASE AdvanceRead(p) \/ AdvanceVerify(p)
  <2>1. CASE ~Openable
    BY <1>2, <2>1, UntouchedIsQuiet DEF AdvanceRead, AdvanceVerify
  <2>2. CASE Openable
    <3>1. marker = None /\ disk.binding # None
      BY <2>2 DEF Openable, Agrees
    <3>2. disk' = [disk EXCEPT !.binding.kids = @ \cup Unregistered]
      BY <1>2, <2>2 DEF AdvanceRead, AdvanceVerify
    <3>3. /\ disk'.marker = disk.marker /\ disk'.events = disk.events
          /\ disk'.binding = [disk.binding EXCEPT !.kids = @ \cup Unregistered]
      BY <1>1, <3>2 DEF Fields
    <3>4. disk.binding = [gen |-> disk.binding.gen, kids |-> disk.binding.kids]
      BY <3>1 DEF Inv, FilesSound, BindingSound
    <3>5. disk'.binding # None /\ disk'.binding.gen = disk.binding.gen
      BY <3>3, <3>4 DEF None
    <3> QED BY <3>1, <3>3, <3>5 DEF Quiet
  <2> QED BY <2>1, <2>2
<1>3. CASE PutBinding(p) \/ PutEvent(p)
  <2>1. marker # None
    BY <1>3 DEF Inv, ProcessSound, SavingSound, Saving, PutBinding, PutEvent, Write, At
  <2>2. /\ disk'.marker = disk.marker
        /\ disk'.events = disk.events \/ disk'.events = disk.events \cup {marker.event}
    BY <1>1, <1>3 DEF PutBinding, PutEvent, Write, Fields
  <2> QED BY <2>1, <2>2 DEF Quiet
<1>4. CASE ArchiveStep(p) \/ PutConfig(p) \/ PutProfile(p)
  <2>1. CASE ArchiveStep(p)
    <3>1. ASSUME NEW g, NEW here, NEW fill, NEW there, Archive(p, g, here, fill, there)
          PROVE  Quiet
      <4>1. \/ disk' = disk
            \/ disk' = [disk EXCEPT !.history = WithArchive(@, g, "partial")]
        BY <1>1, <3>1 DEF Inv, FilesSound, FilesTyped, Archive, Archived
      <4> QED BY <1>1, <4>1, UntouchedIsQuiet DEF Fields
    <3>2. ASSUME NEW g, NEW here, NEW there, ArchiveFill(p, g, here, there) PROVE Quiet
      BY <1>1, <3>2, UntouchedIsQuiet DEF ArchiveFill, Write, Fields
    <3> QED BY <2>1, <3>1, <3>2 DEF ArchiveStep
  <2>2. CASE PutConfig(p) \/ PutProfile(p)
    BY <1>1, <2>2, UntouchedIsQuiet DEF PutConfig, PutProfile, Write, Fields
  <2> QED BY <1>4, <2>1, <2>2
<1>5. CASE Rebind(p)
  BY <1>5, UntouchedIsQuiet DEF Rebind
<1> QED BY <1>2, <1>3, <1>4, <1>5 DEF AdvanceStep

LEMMA QuietAsks ==
    ASSUME Inv, NEW p \in Procs, Asks(p), At(p, "adv-check") => disk' = disk PROVE Quiet
<1>1. DOMAIN disk = Fields
  BY DEF Inv, FilesSound
<1>2. CASE Open(p) \/ AdvanceLock(p)
  BY <1>2, UntouchedIsQuiet DEF Open, AdvanceLock
<1>3. CASE Finish(p)
  BY <1>1, <1>3, UntouchedIsQuiet DEF Finish, Fields
<1>4. CASE \E k \in Kids : StoreOpen(p, k)
  BY <1>1, <1>4, UntouchedIsQuiet DEF StoreOpen, Fields
<1>5. CASE \E r \in Requests : \E e \in ProfilesFor[r] : Capture(p, e.required)
  BY <1>5, UntouchedIsQuiet DEF Capture
<1>6. CASE At(p, "adv-check")
  BY <1>6, UntouchedIsQuiet
<1> QED BY <1>2, <1>3, <1>4, <1>5, <1>6 DEF Asks

LEMMA AnnouncingIsInvisible ==
    ASSUME Inv, NEW p \in Procs, NEW new \in Targets(job[p].old.gen), AdvanceCheck(p, new)
    PROVE  UNCHANGED <<Visible, Recorded>>
<1> PICK old : old = job[p].old
  OBVIOUS
<1>1. /\ FilesSound /\ marker = None /\ disk.binding # None
      /\ BindingSound(old) /\ old.gen = disk.binding.gen
  BY DEF Inv, ProcessSound, AdvanceCheck, At
<1>2. CASE new = old.gen \/ ~Admitted(old.gen, new, state.evidence)
  BY <1>2, UntouchedIsQuiet, QuietIsInvisible DEF AdvanceCheck
<1>3. CASE new # old.gen /\ Admitted(old.gen, new, state.evidence)
  <2>1. /\ attempts < MaxAttempts /\ attempts' = attempts + 1
        /\ disk' = [disk EXCEPT !.marker =
                 [old     |-> old,
                  new     |-> [gen |-> new, kids |-> old.kids],
                  created |-> {g \in {old.gen, new} : Archived(g) = "absent"},
                  event   |-> [id |-> attempts + 1, from |-> old.gen, to |-> new]]]
        /\ UNCHANGED <<state, faults, accepted>>
    BY <1>3 DEF AdvanceCheck
  <2>2. /\ marker' # None /\ marker'.old = old /\ disk'.events = disk.events
        /\ marker'.event \notin disk.events
    BY <1>1, <1>3, <2>1, MarkerBegins
  <2>3. Visible' = Visible
    BY <1>1, <2>2 DEF Visible
  <2>4. {y \in disk.events : marker = None \/ y # marker.event}' =
           {y \in disk.events : marker = None \/ y # marker.event}
    BY <1>1, <2>2
  <2> QED BY <2>3, <2>4 DEF Recorded
<1> QED BY <1>2, <1>3

LEMMA UndoneIsInvisible ==
    ASSUME Inv, NEW p \in Procs, UndoMarker(p) PROVE UNCHANGED <<Visible, Recorded>>
<1>1. /\ FilesSound /\ marker # None /\ disk.binding = marker.old /\ marker.event \notin disk.events
      /\ disk.binding # None
  BY DEF Inv, ProcessSound, UndoingSound, Undoing, UndoMarker, At, FilesSound
<1>2. marker' = None /\ disk'.binding = disk.binding /\ disk'.events = disk.events
  BY <1>1 DEF UndoMarker, FilesSound, Fields, marker
<1>3. Visible' = Visible
  BY <1>1, <1>2 DEF Visible
<1>4. {y \in disk.events : marker = None \/ y # marker.event}' =
         {y \in disk.events : marker = None \/ y # marker.event}
  BY <1>1, <1>2
<1> QED BY <1>3, <1>4 DEF Recorded

(* The one step that makes the next open find another generation.          *)
LEMMA ClearMoves == ASSUME Inv, NEW p \in Procs, Clear(p) PROVE G!Move
<1>1. /\ FilesSound /\ marker # None /\ marker' = None /\ disk.binding # None
      /\ disk.binding = marker.new /\ disk'.binding = disk.binding
      /\ disk'.events = disk.events /\ marker.event \in disk.events
  BY ClearFiles DEF Inv, FilesSound
<1>2. Visible = marker.old.gen /\ Visible' = marker.new.gen
  BY <1>1 DEF Visible
<1>3. /\ marker.old.gen # marker.new.gen /\ Permitted(marker.old.gen, marker.new.gen)
      /\ marker.event.from = marker.old.gen /\ marker.event.to = marker.new.gen
  BY <1>1 DEF FilesSound, MarkerSound
<1>4. Recorded = {[from |-> x.from, to |-> x.to] : x \in disk.events \ {marker.event}}
  <2>1. {y \in disk.events : marker = None \/ y # marker.event} = disk.events \ {marker.event}
    BY <1>1
  <2> QED BY <2>1 DEF Recorded
<1>5. Recorded' = {[from |-> x.from, to |-> x.to] : x \in disk.events}
  <2>1. {y \in disk.events : marker = None \/ y # marker.event}' = disk.events
    BY <1>1
  <2> QED BY <2>1 DEF Recorded
<1>6. Recorded' = Recorded \cup {[from |-> Visible, to |-> Visible']}
  BY <1>1, <1>2, <1>3, <1>4, <1>5
<1> QED BY <1>2, <1>3, <1>6 DEF G!Move

LEMMA NextMoves ==
    ASSUME Inv, [Next]_vars PROVE UNCHANGED <<Visible, Recorded>> \/ G!Move
<1>1. ASSUME NEW p \in Procs, Step(p) PROVE UNCHANGED <<Visible, Recorded>> \/ G!Move
  <2>1. CASE Clear(p)
    BY <2>1, ClearMoves
  <2>2. CASE UndoMarker(p)
    BY <2>2, UndoneIsInvisible
  <2>3. CASE ~Clear(p) /\ ~UndoMarker(p)
    BY <1>1, <2>3, QuietInit, QuietRecover, QuietHandle, QuietAdvance, QuietIsInvisible DEF Step
  <2> QED BY <2>1, <2>2, <2>3
<1>2. ASSUME NEW p \in Procs, Asks(p) PROVE UNCHANGED <<Visible, Recorded>>
  <2>1. CASE At(p, "adv-check") /\ \E new \in Targets(job[p].old.gen) : AdvanceCheck(p, new)
    BY <2>1, AnnouncingIsInvisible
  <2>2. CASE ~At(p, "adv-check")
    BY <1>2, <2>2, QuietAsks, QuietIsInvisible
  <2>3. CASE At(p, "adv-check") /\ disk' = disk
    BY <1>2, <2>3, QuietAsks, QuietIsInvisible
  <2>4. CASE At(p, "adv-check") /\ Finish(p)
    BY <2>4 DEF Finish, At
  <2> QED BY <1>2, <2>1, <2>2, <2>3, <2>4 DEF Asks, Open, AdvanceLock, StoreOpen, Capture, At
<1>3. ASSUME NEW p \in Procs, SavingFails(p) \/ Dies(p) \/ TimesOut(p)
      PROVE  UNCHANGED <<Visible, Recorded>>
  BY <1>3, UntouchedIsQuiet, QuietIsInvisible DEF SavingFails, Dies, TimesOut
<1>4. ASSUME NEW k \in Kids, Lose(k) PROVE UNCHANGED <<Visible, Recorded>>
  <2>1. DOMAIN disk = Fields
    BY DEF Inv, FilesSound
  <2> QED BY <1>4, <2>1, UntouchedIsQuiet, QuietIsInvisible DEF Lose, Fields
<1>5. CASE UNCHANGED vars
  BY <1>5, UntouchedIsQuiet, QuietIsInvisible DEF vars
<1> QED BY <1>1, <1>2, <1>3, <1>4, <1>5 DEF Next

-----------------------------------------------------------------------------
(* Theorems                                                                 *)

(* Inv is inductive.                                                       *)
LEMMA Invariance == Spec => []Inv
<1>1. Init => Inv
  BY InitSound
<1>2. Inv /\ [Next]_vars => Inv'
  BY NextSound
<1> QED BY <1>1, <1>2, PTL DEF Spec

(* Whoever opens a Workspace finds Config, Profile set, binding and        *)
(* Research State of one generation, with the Evidence that generation     *)
(* asks for and both generations of every recorded advancement archived;   *)
(* no handle sees its generation change and no child that accepted data is *)
(* replaced by an empty one - whatever wrote, died or was lost before.     *)
THEOREM WorkspaceSound == Spec => []GenerationSound
<1>1. Inv => GenerationSound
  BY InvIsEnough
<1> QED BY <1>1, Invariance, PTL

(* profile advance with its marker, its rollback and the recovery on       *)
(* opening implements a move in one step: the generation the next open is  *)
(* in changes exactly when the marker goes at the end of an advancement,   *)
(* to one that may follow it, and with the move recorded.                  *)
THEOREM AdvancesInOneStep == Spec => GenSpec
<1>1. Init => G!Init
  BY DEF Init, G!Init, Visible, Recorded, marker
<1>2. Inv /\ [Next]_vars => [G!Move]_<<Visible, Recorded>>
  BY NextMoves
<1> QED BY <1>1, <1>2, Invariance, PTL DEF Spec, GenSpec, G!Spec

(* However often a Workspace is advanced, and wherever that is             *)
(* interrupted, a Core invariant a Profile strengthened stays so.          *)
THEOREM NeverWeakened == Spec => StrengtheningKept
<1>1. Inv /\ [Next]_vars => [CoreNotWeakened(Visible.profile, Visible'.profile)]_vars
  <2> SUFFICES ASSUME Inv, [Next]_vars
               PROVE  CoreNotWeakened(Visible.profile, Visible'.profile)
    OBVIOUS
  <2>1. CASE Visible' = Visible
    BY <2>1 DEF CoreNotWeakened
  <2>2. CASE G!Move
    BY <2>2 DEF G!Move, Permitted
  <2> QED BY <2>1, <2>2, NextMoves
<1> QED BY <1>1, Invariance, PTL DEF Spec, StrengtheningKept
=============================================================================
