--------------------------- MODULE ResearchPackage ---------------------------
(***************************************************************************)
(* Research Packages: self-contained copies of what one Snapshot and the   *)
(* working material around it hold, built once, kept for good and          *)
(* exported.  A visual is made from a Package and becomes an exhibit that  *)
(* later Packages may carry, as long as what it shows is still what they   *)
(* hold.                                                                   *)
(***************************************************************************)
EXTENDS Naturals, Sequences, FiniteSets

CONSTANTS
    Readers,
    Refs,           \* what each research object refers to
    Question,       \* the object that every Package is about
    Runs,           \* the lineage's completed Runs: [mode, captures]
    SourceOf,       \* the source a capture is the material of: [id, revision]
    Figures,        \* the sets of objects that a visual may be asked to show
    PackageIds,
    None,
    MaxSnapshots,   \* bound on the Snapshots
    MaxExhibits,    \* bound on the exhibits
    MaxLosses       \* bound on the files lost

VARIABLES
    snapshots,      \* the lineage's Snapshots in order: the revision of each object
    exhibits,       \* the exhibits in order
    packages,       \* the Packages kept: identity -> contents
    lost,           \* the Packages that have lost a file
    job             \* what each reader is doing

vars == <<snapshots, exhibits, packages, lost, job>>

Objects == DOMAIN Refs

Idle == [at |-> "idle"]

Current == snapshots[Len(snapshots)]

-----------------------------------------------------------------------------
(* What a build may select.                                                *)

Closed(objects) == \A o \in objects : Refs[o] \subseteq objects

(* Mutant: an exhibit is of the mode of the Runs that it names itself.     *)
NamedRuns(e) == exhibits[e].runs

(* An exhibit and everything it was derived from, step by step.            *)
Ancestry(e) ==
    {d \in DOMAIN exhibits :
        \A S \in SUBSET DOMAIN exhibits :
            e \in S /\ (\A x \in S : exhibits[x].from \subseteq S) => d \in S}

(* The Runs behind it: the Package that a visual was made from, and what   *)
(* that holds, is not looked at.                                           *)
RunsBehind(e) == UNION {exhibits[d].runs : d \in Ancestry(e)}

Provenance(e) == RunsBehind(e)

Modes(runs, chosen, captures) ==
    {Runs[r].mode : r \in runs \cup (UNION {Provenance(e) : e \in chosen})
                                \cup {r \in DOMAIN Runs : Runs[r].captures \cap captures # {}}}

(* A Package can be read when none of its files is lost.                   *)
Readable(id) == id \in DOMAIN packages /\ id \notin lost

(* Mutant: a visual is compared only with the Package that it came from.   *)
CarriedAsItIs(v, revisions, objects, chosen) == TRUE

(* What a visual shows is selected as it was when the visual was made.     *)
Carried(v, revisions, objects, chosen) ==
    /\ \A o \in DOMAIN v.shows : o \in objects /\ revisions[o] = v.shows[o]
    /\ v.from \subseteq chosen

(* And the Package that it was made from still shows that.                 *)
FromOrigin(v) ==
    /\ Readable(v.origin)
    /\ \A o \in DOMAIN v.shows : packages[v.origin].revisions[o] = v.shows[o]

VisualsFit(revisions, objects, chosen) ==
    \A e \in chosen :
        exhibits[e].origin # None =>
            Carried(exhibits[e], revisions, objects, chosen) /\ FromOrigin(exhibits[e])

(* The material of a selected source is what the source says it is.        *)
MaterialFits(c, revisions, objects) ==
    SourceOf[c].id \in objects => revisions[SourceOf[c].id] = SourceOf[c].revision

(* Every capture of a selected Run and the material of every selected      *)
(* source are there.                                                       *)
Bundled(objects, runs, captures) ==
    /\ \A r \in runs : Runs[r].captures \subseteq captures
    /\ \A o \in objects \cap {SourceOf[c].id : c \in DOMAIN SourceOf} :
          \E c \in captures : SourceOf[c].id = o

-----------------------------------------------------------------------------
(* Building: everything is read and checked, written beside the Packages   *)
(* and moved among them at once; a process that dies before leaves none.   *)

Package(revisions, objects, runs, chosen, captures) ==
    [revisions |-> [o \in objects |-> revisions[o]], runs |-> runs, exhibits |-> chosen,
     captures |-> captures, virtual |-> Modes(runs, chosen, captures) = {"virtual"}]

(* What was read together fits together, and is kept.                      *)
Keep(id, revisions, objects, runs, chosen, captures) ==
    /\ Closed(objects)
    /\ Cardinality(Modes(runs, chosen, captures)) < 2
    /\ VisualsFit(revisions, objects, chosen)
    /\ \A c \in captures : MaterialFits(c, revisions, objects)
    /\ Bundled(objects, runs, captures)
    /\ packages' = [i \in DOMAIN packages \cup {id} |->
         IF i = id THEN Package(revisions, objects, runs, chosen, captures)
                   ELSE packages[i]]

Build(id) ==
    /\ id \notin DOMAIN packages
    /\ \E n \in DOMAIN snapshots, others \in SUBSET (Objects \ {Question}),
          runs \in SUBSET DOMAIN Runs, chosen \in SUBSET DOMAIN exhibits,
          captures \in SUBSET DOMAIN SourceOf :
        Keep(id, snapshots[n], {Question} \cup others, runs, chosen, captures)
    /\ UNCHANGED <<snapshots, exhibits, lost, job>>

-----------------------------------------------------------------------------
(* Exhibits: notes on Runs and on other exhibits, and visuals of the       *)
(* current state as a Package holds it.                                    *)

CaptureNote ==
    /\ Len(exhibits) < MaxExhibits
    /\ \E runs \in SUBSET DOMAIN Runs, from \in SUBSET DOMAIN exhibits :
        /\ Cardinality(runs) + Cardinality(from) = 1
        /\ exhibits' = Append(exhibits, [runs |-> runs, from |-> from, shows |-> <<>>,
                                         origin |-> None])
        /\ UNCHANGED <<snapshots, packages, lost, job>>

(* What is shown is in the Package exactly as it is in the current State.  *)
ExactlyCurrent(id, objects) ==
    \A o \in objects : o \in DOMAIN packages[id].revisions
                       /\ packages[id].revisions[o] = Current[o]

CaptureVisual ==
    /\ Len(exhibits) < MaxExhibits
    /\ \E id \in DOMAIN packages : \E objects \in Figures, from \in SUBSET packages[id].exhibits :
        /\ Readable(id)
        /\ ExactlyCurrent(id, objects)
        /\ exhibits' = Append(exhibits, [runs |-> {}, from |-> from,
                                         shows |-> [o \in objects |-> Current[o]],
                                         origin |-> id])
        /\ UNCHANGED <<snapshots, packages, lost, job>>

-----------------------------------------------------------------------------
(* Exporting: the Package is verified, its files are copied, the copy is   *)
(* verified and moved into its place.                                      *)

BeginExport(r) ==
    \E id \in DOMAIN packages :
        /\ job[r] = Idle
        /\ Readable(id)
        /\ job' = [job EXCEPT ![r] = [at |-> "copying", id |-> id]]
        /\ UNCHANGED <<snapshots, exhibits, packages, lost>>

CopyFiles(r) ==
    /\ job[r].at = "copying"
    /\ job' = [job EXCEPT ![r] = [at |-> "copied", whole |-> @.id \notin lost]]
    /\ UNCHANGED <<snapshots, exhibits, packages, lost>>

(* Mutant: what was verified before it was copied is not verified again.   *)
VerifiedBefore(r) == TRUE

Verified(r) == job[r].whole

EndExport(r) ==
    /\ job[r].at = "copied"
    /\ job' = [job EXCEPT ![r] = IF Verified(r) THEN [@ EXCEPT !.at = "exported"] ELSE Idle]
    /\ UNCHANGED <<snapshots, exhibits, packages, lost>>

-----------------------------------------------------------------------------
(* Around them: the State is revised, files are lost, and readers finish   *)
(* or die.                                                                 *)

Revise(o) ==
    /\ Len(snapshots) < MaxSnapshots
    /\ snapshots' = Append(snapshots, [Current EXCEPT ![o] = Len(snapshots) + 1])
    /\ UNCHANGED <<exhibits, packages, lost, job>>

Lose(id) ==
    /\ Cardinality(lost) < MaxLosses
    /\ id \in DOMAIN packages \ lost
    /\ lost' = lost \cup {id}
    /\ UNCHANGED <<snapshots, exhibits, packages, job>>

Leave(r) ==
    /\ job[r] # Idle
    /\ job' = [job EXCEPT ![r] = Idle]
    /\ UNCHANGED <<snapshots, exhibits, packages, lost>>

Init ==
    /\ snapshots = <<[o \in Objects |-> 1]>>
    /\ exhibits = <<>>
    /\ packages = [id \in {} |-> None]
    /\ lost = {}
    /\ job = [r \in Readers |-> Idle]

Next ==
    \/ \E id \in PackageIds : Build(id) \/ Lose(id)
    \/ CaptureNote \/ CaptureVisual
    \/ \E r \in Readers :
        \/ BeginExport(r) \/ CopyFiles(r) \/ EndExport(r)
        \/ Leave(r)
    \/ \E o \in Objects : Revise(o)

Spec == Init /\ [][Next]_vars

-----------------------------------------------------------------------------
(* Properties.                                                             *)

(* The Runs that a Package selects, those that its exhibits were derived   *)
(* from, however long the derivation, and those of its captures are of one *)
(* mode, and the Package says which.  This is all that a build compares:   *)
(* the document of the Package that a visual was made from is attached as  *)
(* it is, and may be of the other mode.                                    *)
OneMode ==
    \A id \in DOMAIN packages :
        LET p == packages[id]
            behind == p.runs \cup (UNION {RunsBehind(e) : e \in p.exhibits})
                        \cup {r \in DOMAIN Runs : Runs[r].captures \cap p.captures # {}}
        IN \A r \in behind : Runs[r].mode = (IF p.virtual THEN "virtual" ELSE "real")

(* A visual never outlives what it shows: the Package that carries it and  *)
(* the Package that it was made from hold the same revisions of it, and    *)
(* these and all the others are of one Snapshot.                           *)
VisualsCurrent ==
    \A id \in DOMAIN packages :
        LET p == packages[id] IN
            /\ \E n \in DOMAIN snapshots :
                  \A o \in DOMAIN p.revisions : p.revisions[o] = snapshots[n][o]
            /\ \A e \in p.exhibits : exhibits[e].origin # None =>
                  LET from == packages[exhibits[e].origin]
                  IN \A o \in DOMAIN exhibits[e].shows :
                        /\ o \in DOMAIN p.revisions \cap DOMAIN from.revisions
                        /\ p.revisions[o] = from.revisions[o]

(* Whatever is lost while files are copied, an export is whole.            *)
ExportsWhole == \A r \in Readers : job[r].at = "exported" => job[r].whole
==============================================================================
