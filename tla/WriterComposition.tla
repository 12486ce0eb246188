------------------------- MODULE WriterComposition -------------------------
(***************************************************************************)
(* One series of Writer compositions: capture of versions, selection of    *)
(* one, and what a capture restores of an interrupted one                  *)
(* (writer_composition_history_service.py).                                *)
(*                                                                         *)
(* A capture writes a continuity record, the version and the index; a      *)
(* selection writes an event and the selection state.  Every file is       *)
(* replaced atomically and every writer of the series holds one OS lock,   *)
(* but a process may die, a write may fail and a file may be lost.         *)
(***************************************************************************)
EXTENDS Naturals, Sequences

CONSTANTS
    Procs,          \* processes
    Bodies,         \* what a composition may say: sections, purpose, audience
    MaxVersion,     \* bound on version numbers
    MaxEvents,      \* bound on selection events
    MaxFaults,      \* bound on deaths and failed writes
    MaxLosses,      \* bound on lost files
    None

BoundsAreNat ==
    /\ MaxVersion \in Nat \ {0} /\ MaxEvents \in Nat \ {0}
    /\ MaxFaults \in Nat /\ MaxLosses \in Nat

VARIABLES
    disk,       \* the files of the series
    lock,       \* the process holding the series lock, or None
    job,        \* what each process is doing
    clock,      \* time stamps given to compositions
    faults, losses,
    answers     \* history: answered captures, [value, doc]

vars == <<disk, lock, job, clock, faults, losses, answers>>

Versions == 1..MaxVersion
Events == 1..MaxEvents

(* What a request says, what a composition and a continuity record hold,   *)
(* and the selection of a version.                                         *)
Refs == [v : Versions, at : Nat]
Values == [body : Bodies, base : {None} \cup Refs]
Docs == [v : Versions, at : Nat, body : Bodies, base : {None} \cup Refs]
Records == [doc : Docs, req : {None} \cup Values]
Choices == [n : Events, ref : Refs]

NoneIsApart == None \notin Procs \cup Refs \cup Values \cup Docs \cup Records \cup Choices

(* A version number together with its digest.                              *)
Ref(d) == [v |-> d.v, at |-> d.at]
RefOf(d) == IF d = None THEN None ELSE Ref(d)

Idle == [op |-> "idle", value |-> None, todo |-> <<>>, doc |-> None]

Init ==
    /\ disk = [root |-> FALSE, record |-> None, index |-> None, state |-> None,
               version |-> [n \in Versions |-> None], event |-> [n \in Events |-> None]]
    /\ lock = None
    /\ job = [p \in Procs |-> Idle]
    /\ clock = 0 /\ faults = 0 /\ losses = 0
    /\ answers = {}

Write(f, x) == [file |-> f, val |-> x]

(* The effect of one file written; a version is never replaced.            *)
Written(d, w) ==
    CASE w.file = "record"  -> [d EXCEPT !.record = w.val]
      [] w.file = "version" -> [d EXCEPT !.version[w.val.v] = IF @ = None THEN w.val ELSE @,
                                         !.root = TRUE]
      [] w.file = "index"   -> [d EXCEPT !.index = w.val, !.root = TRUE]
      [] w.file = "event"   -> [d EXCEPT !.event[w.val.n] = w.val, !.root = TRUE]
      [] w.file \in {"state", "repair"} -> [d EXCEPT !.state = w.val, !.root = TRUE]

If(test, w) == IF test THEN <<w>> ELSE <<>>

-----------------------------------------------------------------------------
(* Reading a series back                                                   *)

Present == {n \in Versions : disk.version[n] # None}

(* Version n is linked to the one before it.                               *)
Linked(d) ==
    IF d.v = 1 THEN d.base = None
    ELSE disk.version[d.v - 1] # None /\ d.base = Ref(disk.version[d.v - 1])

(* Without a continuity record the versions must prove one chain.          *)
OneChain == \A n \in Present : (n > 1 => n - 1 \in Present) /\ Linked(disk.version[n])
Newest == CHOOSE n \in Present : \A m \in Present : m <= n

(* Seeded fault: an index that contradicts the history is overwritten.     *)
IndexIgnored(d) == TRUE

(* The index may lag behind d, but only on the way to d.                   *)
IndexLeadsTo(d) ==
    \/ disk.index = None
    \/ disk.index = Ref(d)
    \/ /\ disk.index.v < d.v
       /\ \A n \in disk.index.v..(d.v - 1) : disk.version[n] # None
       /\ \A n \in (disk.index.v + 1)..(d.v - 1) : Linked(disk.version[n])
       /\ Ref(disk.version[disk.index.v]) = disk.index

(* The capture to resume: [doc, req], None when there is nothing.          *)
Pending ==
    IF disk.record # None THEN disk.record
    ELSE IF Present = {} THEN None
    ELSE [doc |-> disk.version[Newest], req |-> None]

Resumable ==
    \/ Pending = None
    \/ /\ disk.record = None => OneChain
       /\ Linked(Pending.doc)
       /\ IndexLeadsTo(Pending.doc)
       /\ disk.version[Pending.doc.v] \in {None, Pending.doc}

(* Seeded fault: the announced capture is left as it is.                   *)
RestoringNothing == <<>>

Restoring ==
    IF Pending = None THEN <<>>
    ELSE If(disk.record = None, Write("record", Pending))
           \o If(disk.version[Pending.doc.v] = None, Write("version", Pending.doc))
           \o If(disk.index # Ref(Pending.doc), Write("index", Ref(Pending.doc)))

(* The newest version a reader finds: 0 for none; the index may be one     *)
(* version behind.                                                         *)
At(n) == n \in Versions /\ disk.version[n] # None
Unindexed == disk.index # None /\ At(disk.index.v + 1)
LatestSound ==
    disk.index # None =>
        /\ RefOf(disk.version[disk.index.v]) = disk.index
        /\ Unindexed => ~At(disk.index.v + 2) /\ Linked(disk.version[disk.index.v + 1])
Latest ==
    IF disk.index = None THEN IF Present = {} THEN 0 ELSE Newest
    ELSE IF Unindexed THEN disk.index.v + 1 ELSE disk.index.v

(* The selection in force, 0 events for none; its state may be one event   *)
(* behind.                                                                 *)
Event(n) == n \in Events /\ disk.event[n] # None
EventSound(n) == Event(n) /\ RefOf(disk.version[disk.event[n].ref.v]) = disk.event[n].ref
Counted == IF disk.state = None THEN 0 ELSE disk.state.n
Uncounted == Event(Counted + 1)
SelectionSound ==
    /\ disk.state # None => EventSound(Counted) /\ disk.event[Counted] = disk.state
    /\ Uncounted => ~Event(Counted + 2) /\ EventSound(Counted + 1)
Selected == IF Uncounted THEN Counted + 1 ELSE Counted

-----------------------------------------------------------------------------
(* capture                                                                 *)

Leave(p) == lock' = None /\ job' = [job EXCEPT ![p] = Idle]
Do(p, op, todo) == job' = [job EXCEPT ![p].op = op, ![p].todo = todo] /\ UNCHANGED lock
steady == <<clock, faults, losses>>

(* A request names what to say and the version it revises.                 *)
Bases == {None} \cup {Ref(a.doc) : a \in answers}
Capture(p, value) ==
    /\ job[p].op = "idle" /\ lock = None
    /\ lock' = p
    /\ job' = [job EXCEPT ![p] = [Idle EXCEPT !.op = "resume", !.value = value]]
    /\ UNCHANGED <<disk, steady, answers>>

Resume(p) ==
    /\ job[p].op = "resume"
    /\ IF Resumable
       THEN job' = [job EXCEPT ![p].op = "restoring", ![p].todo = Restoring, ![p].doc = Pending]
            /\ UNCHANGED lock
       ELSE Leave(p)
    /\ UNCHANGED <<disk, steady, answers>>

(* The last capture answers the request that made it, or, when the record  *)
(* was rebuilt, a request that would have made the same document.          *)
SameRequest(value, last) ==
    \/ value = last.req
    \/ /\ last.req = None
       /\ value = [body |-> last.doc.body, base |-> last.doc.base]

(* A revision names the latest version; a first version names none and is  *)
(* refused where a series has been.                                        *)
BaseCurrent(value) ==
    IF Latest = 0 THEN value.base = None /\ ~disk.root
    ELSE value.base = Ref(disk.version[Latest])

Decide(p) ==
    LET value == job[p].value
        last  == job[p].doc
        doc   == [v |-> Latest + 1, at |-> clock + 1, body |-> value.body, base |-> value.base]
    IN  /\ job[p].op = "restoring" /\ job[p].todo = <<>>
        /\ IF last # None /\ SameRequest(value, last)
           THEN /\ answers' = answers \cup {[value |-> value, doc |-> last.doc]}
                /\ Leave(p)
                /\ UNCHANGED clock
           ELSE IF LatestSound /\ BaseCurrent(value)
           THEN /\ Latest < MaxVersion
                /\ clock' = clock + 1
                /\ job' = [job EXCEPT ![p].op = "capturing", ![p].doc = doc, ![p].todo =
                     <<Write("record", [doc |-> doc, req |-> value]),
                       Write("version", doc), Write("index", Ref(doc))>>]
                /\ UNCHANGED <<lock, answers>>
           ELSE Leave(p) /\ UNCHANGED <<clock, answers>>
        /\ UNCHANGED <<disk, faults, losses>>

Captured(p) ==
    /\ job[p].op = "capturing" /\ job[p].todo = <<>>
    /\ answers' = answers \cup {[value |-> job[p].value, doc |-> job[p].doc]}
    /\ Leave(p)
    /\ UNCHANGED <<disk, steady>>

-----------------------------------------------------------------------------
(* select                                                                  *)

CatchUp == If(Uncounted, Write("repair", disk.event[Counted + 1]))

Select(p, ref) ==
    /\ job[p].op = "idle" /\ lock = None
    /\ LatestSound /\ Latest # 0
    /\ RefOf(disk.version[ref.v]) = ref
    /\ SelectionSound
    /\ LET next == [n |-> Selected + 1, ref |-> ref] IN
       /\ lock' = p
       /\ IF Selected # 0 /\ disk.event[Selected].ref = ref
          THEN job' = [job EXCEPT ![p] = [Idle EXCEPT !.op = "selecting", !.todo = CatchUp]]
          ELSE /\ next.n <= MaxEvents
               /\ job' = [job EXCEPT ![p] = [Idle EXCEPT !.op = "selecting", !.todo =
                    CatchUp \o <<Write("event", next), Write("state", next)>>]]
    /\ UNCHANGED <<disk, steady, answers>>

Chosen(p) ==
    /\ job[p].op = "selecting" /\ job[p].todo = <<>>
    /\ Leave(p)
    /\ UNCHANGED <<disk, steady, answers>>

-----------------------------------------------------------------------------
(* Files and faults                                                        *)

Persist(p) ==
    /\ job[p].todo # <<>>
    /\ disk' = Written(disk, Head(job[p].todo))
    /\ Do(p, job[p].op, Tail(job[p].todo))
    /\ UNCHANGED <<steady, answers>>

(* A failed write ends the call; the event of a selection that could not   *)
(* be put in force is withdrawn.                                           *)
WriteFails(p) ==
    /\ job[p].todo # <<>>
    /\ faults < MaxFaults /\ faults' = faults + 1
    /\ LET w == Head(job[p].todo) IN
       disk' = IF w.file = "state" THEN [disk EXCEPT !.event[w.val.n] = None] ELSE disk
    /\ Leave(p)
    /\ UNCHANGED <<clock, losses, answers>>

Dies(p) ==
    /\ job[p].op # "idle"
    /\ faults < MaxFaults /\ faults' = faults + 1
    /\ Leave(p)
    /\ UNCHANGED <<disk, clock, losses, answers>>

Without(d) ==
    {[d EXCEPT !.record = None], [d EXCEPT !.index = None], [d EXCEPT !.state = None]}
      \cup {[d EXCEPT !.version[n] = None] : n \in Versions}
      \cup {[d EXCEPT !.event[n] = None] : n \in Events}

Lose ==
    /\ lock = None
    /\ losses < MaxLosses /\ losses' = losses + 1
    /\ \E d \in Without(disk) : d # disk /\ disk' = d
    /\ UNCHANGED <<lock, job, clock, faults, answers>>

Work(p) == Resume(p) \/ Decide(p) \/ Captured(p) \/ Chosen(p) \/ Persist(p)

Ask(p) ==
    \/ \E body \in Bodies, base \in Bases : Capture(p, [body |-> body, base |-> base])
    \/ \E n \in Present : Select(p, Ref(disk.version[n]))

Next == Lose \/ \E p \in Procs : Work(p) \/ Ask(p) \/ WriteFails(p) \/ Dies(p)

Spec == Init /\ [][Next]_vars

(* A live process finishes its call, and somebody captures again and again.*)
FairSpec ==
    /\ Spec
    /\ \A p \in Procs : WF_vars(Work(p))
    /\ SF_vars(\E p \in Procs, body \in Bodies : Capture(p, [body |-> body, base |-> None]))

-----------------------------------------------------------------------------
(* Properties                                                              *)

TypeOK ==
    /\ disk.index # None => disk.index.v \in Versions
    /\ \A n \in Present : disk.version[n].v = n /\ disk.version[n].body \in Bodies
    /\ \A n \in Events : disk.event[n] # None => disk.event[n].n = n
    /\ (Present # {} \/ disk.index # None \/ disk.state # None) => disk.root
    /\ lock # None => job[lock].op # "idle"
    /\ \A p \in Procs : job[p].op # "idle" => lock = p

(* No version number is ever answered with two documents, even if any two  *)
(* files of the series are lost between captures that die half way.        *)
OneContentPerVersion ==
    losses <= 2 => \A a, b \in answers : a.doc.v = b.doc.v => a.doc = b.doc

(* An answer, given at once or to a retry after a failure, is the document *)
(* of exactly that request.                                                *)
AnswersTrue ==
    \A a \in answers : a.value = [body |-> a.doc.body, base |-> a.doc.base]

(* Deaths and failed writes alone never bring a series into a state that   *)
(* its operations refuse: it can be captured to, listed and selected from. *)
NeverStuck == losses = 0 => Resumable /\ LatestSound /\ SelectionSound

(* No version number is ever answered with two documents, an answer is the *)
(* document of exactly that request, and deaths and failed writes alone    *)
(* never bring a series into a state that its operations refuse.           *)
SeriesSound ==
    TypeOK /\ OneContentPerVersion /\ AnswersTrue /\ NeverStuck

(* A capture that announced itself is completed by whoever captures next.  *)
Completes ==
    \A n \in Versions :
        (disk.record # None /\ disk.record.doc.v = n)
            ~> (disk.version[n] # None \/ losses > 0)
=============================================================================
