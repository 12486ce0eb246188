--------------------------- MODULE ProjectRecords ---------------------------
(***************************************************************************)
(* The records a project keeps beside its Research State: registered       *)
(* inputs, with a managed copy of each file (local_project_input_store),   *)
(* and Research Exhibits (local_research_exhibit_store).  Both are bound   *)
(* to the current Snapshot, and stored while the call holds the writer     *)
(* lock of the State's database, so that the State cannot move meanwhile.  *)
(* Their own databases are written in transactions of their own, and read  *)
(* page by page while others write.                                        *)
(***************************************************************************)
EXTENDS Naturals, Sequences, FiniteSets

CONSTANTS
    Clients,
    Questions,
    Approved,       \* the Questions approved in each Snapshot
    Contents,       \* of input files, numbers
    Artifacts,      \* what Runs left: [run, original, parents]
    Sources,        \* what exhibits are said to show: [runs, artifacts, target, crop]
    ExhibitIds,     \* numbers, drawn at random
    Limit,          \* the length of a page
    Legacy,         \* whether the store may be from before the metadata table
    None,
    MaxMoves,       \* bound on the moves of the Research State
    MaxTime,        \* bound on the clock
    MaxDamage       \* bound on the managed copies that go bad

VARIABLES
    head,           \* the current Snapshot
    guard,          \* the client that holds the State's writer lock
    now,            \* the clock, which may stand still
    inputs,         \* registered inputs
    copies,         \* the managed copy of each content
    damaged,        \* the copies that have gone bad so far
    exhibits,       \* captured exhibits
    metadata,       \* the ids in the table lists are read from, None: no table
    job             \* what each client is doing

vars == <<head, guard, now, inputs, copies, damaged, exhibits, metadata, job>>

Idle == [at |-> "idle"]

MoveState ==
    /\ head < MaxMoves /\ guard = None
    /\ head' = head + 1
    /\ UNCHANGED <<guard, now, inputs, copies, damaged, exhibits, metadata, job>>

Tick ==
    /\ now < MaxTime
    /\ now' = now + 1
    /\ UNCHANGED <<head, guard, inputs, copies, damaged, exhibits, metadata, job>>

-----------------------------------------------------------------------------
(* The writer lock.                                                        *)

(* The lineage's head is still the one the call validated against.         *)
StillHead(c) == job[c].snapshot = head

GuardHead(c) ==
    /\ job[c].at \in {"read", "stamped"}
    /\ guard = None
    /\ StillHead(c)
    /\ guard' = c
    /\ job' = [job EXCEPT ![c].at = IF @ = "read" THEN "register" ELSE "capture"]
    /\ UNCHANGED <<head, now, inputs, copies, damaged, exhibits, metadata>>

RefuseStale(c) ==
    /\ job[c].at \in {"read", "stamped"}
    /\ guard = None
    /\ ~StillHead(c)
    /\ job' = [job EXCEPT ![c] = Idle]
    /\ UNCHANGED <<head, guard, now, inputs, copies, damaged, exhibits, metadata>>

(* The process dies, and the lock with it.                                 *)
Crash(c) ==
    /\ job[c].at \notin {"idle", "list"}
    /\ guard' = IF guard = c THEN None ELSE guard
    /\ job' = [job EXCEPT ![c] = Idle]
    /\ UNCHANGED <<head, now, inputs, copies, damaged, exhibits, metadata>>

Release(c) ==
    /\ guard' = None
    /\ job' = [job EXCEPT ![c] = Idle]

-----------------------------------------------------------------------------
(* Registering an input.                                                   *)

(* The id is a digest of the content and the binding.                      *)
InputId(content, snapshot) == content * (MaxMoves + 1) - snapshot

ReadFile(c) ==
    \E content \in Contents :
        /\ job[c] = Idle
        /\ job' = [job EXCEPT ![c] = [at |-> "read", content |-> content, snapshot |-> head]]
        /\ UNCHANGED <<head, guard, now, inputs, copies, damaged, exhibits, metadata>>

(* The copy is published under its digest; one that is there already must  *)
(* verify.                                                                 *)
StoreCopy(c) ==
    /\ job[c].at = "register"
    /\ copies[job[c].content] # "bad"
    /\ copies' = [copies EXCEPT ![job[c].content] = "good"]
    /\ job' = [job EXCEPT ![c] = [at |-> "copied", content |-> job[c].content, stamp |-> now]]
    /\ UNCHANGED <<head, guard, now, inputs, damaged, exhibits, metadata>>

RefuseCopy(c) ==
    /\ job[c].at = "register"
    /\ copies[job[c].content] = "bad"
    /\ Release(c)
    /\ UNCHANGED <<head, now, inputs, copies, damaged, exhibits, metadata>>

(* A registration with the same binding is kept as it was first made.      *)
InsertInput(c) ==
    /\ job[c].at = "copied"
    /\ LET id == InputId(job[c].content, head)
       IN inputs' = IF \E i \in inputs : i.id = id THEN inputs
                    ELSE inputs \cup {[id |-> id, time |-> job[c].stamp,
                                       content |-> job[c].content, snapshot |-> head]}
    /\ job' = [job EXCEPT ![c] = [at |-> "inserted", content |-> job[c].content]]
    /\ UNCHANGED <<head, guard, now, copies, damaged, exhibits, metadata>>

(* The registration is confirmed, or an error is raised over its row, as   *)
(* the copy is read back.                                                  *)
VerifyCopy(c) ==
    /\ job[c].at = "inserted"
    /\ Release(c)
    /\ UNCHANGED <<head, now, inputs, copies, damaged, exhibits, metadata>>

Damage ==
    \E content \in Contents :
        /\ damaged < MaxDamage /\ copies[content] = "good"
        /\ copies' = [copies EXCEPT ![content] = "bad"]
        /\ damaged' = damaged + 1
        /\ UNCHANGED <<head, guard, now, inputs, exhibits, metadata, job>>

(* A copy is replaced from a file with the registered digest and length.   *)
Recover ==
    \E i \in inputs :
        /\ copies[i.content] = "bad"
        /\ copies' = [copies EXCEPT ![i.content] = "good"]
        /\ UNCHANGED <<head, guard, now, inputs, damaged, exhibits, metadata, job>>

-----------------------------------------------------------------------------
(* Capturing an exhibit.                                                   *)

Known == {e.id : e \in exhibits}

(* Every artifact named was left by one of the Runs named.                 *)
SourcesJoin(source) ==
    \A a \in source.artifacts :
        a \in DOMAIN Artifacts /\ Artifacts[a].run \in source.runs

(* A visual is an original one of them captured, and its crop was made     *)
(* from that original in the same Run.                                     *)
TargetJoins(source) ==
    LET t == source.target
        crop == source.crop
    IN /\ t # None => t \in source.artifacts /\ Artifacts[t].original
       /\ crop # None =>
             /\ t # None /\ crop \in source.artifacts
             /\ Artifacts[crop].run = Artifacts[t].run /\ t \in Artifacts[crop].parents

(* Its Question is approved, and what it is derived from exists.           *)
QuestionApproved(q) == q \in Approved[head]

DerivedKnown(from) == from \in {None} \cup Known

Validate(c) ==
    \E q \in Questions, from \in {None} \cup ExhibitIds, source \in Sources :
        /\ job[c] = Idle
        /\ QuestionApproved(q)
        /\ SourcesJoin(source) /\ TargetJoins(source)
        /\ DerivedKnown(from)
        /\ job' = [job EXCEPT ![c] =
                [at |-> "validated", question |-> q, from |-> from, source |-> source,
                 snapshot |-> head]]
        /\ UNCHANGED <<head, guard, now, inputs, copies, damaged, exhibits, metadata>>

(* The State is read again and has not changed; the exhibit gets its time. *)
Stamp(c) ==
    /\ job[c].at = "validated"
    /\ job[c].snapshot = head
    /\ \E id \in ExhibitIds \ Known :
          job' = [job EXCEPT ![c] =
                [at |-> "stamped", snapshot |-> head,
                 row |-> [id |-> id, time |-> now, question |-> job[c].question,
                          from |-> job[c].from, source |-> job[c].source,
                          snapshot |-> head]]]
    /\ UNCHANGED <<head, guard, now, inputs, copies, damaged, exhibits, metadata>>

(* The schema script creates what is missing, each statement by itself.    *)
CreateTables(c) ==
    /\ job[c].at = "capture"
    /\ metadata' = IF metadata = None THEN {} ELSE metadata
    /\ job' = [job EXCEPT ![c].at = "schema"]
    /\ UNCHANGED <<head, guard, now, inputs, copies, damaged, exhibits>>

Backfill(c) ==
    /\ job[c].at = "schema"
    /\ metadata' = Known
    /\ job' = [job EXCEPT ![c].at = "ready"]
    /\ UNCHANGED <<head, guard, now, inputs, copies, damaged, exhibits>>

InsertExhibit(c) ==
    /\ job[c].at = "ready"
    /\ IF job[c].row.id \in Known THEN UNCHANGED <<exhibits, metadata>>
       ELSE /\ exhibits' = exhibits \cup {job[c].row}
            /\ metadata' = metadata \cup {job[c].row.id}
    /\ Release(c)
    /\ UNCHANGED <<head, now, inputs, copies, damaged>>

-----------------------------------------------------------------------------
(* Listing.  Inputs come oldest first, exhibits newest first; a cursor     *)
(* names the time and the id of the last one shown.                        *)

(* The exhibits a list is read from.                                       *)
Listed == IF metadata = None THEN exhibits ELSE {e \in exhibits : e.id \in metadata}

Precedes(a, b) == a.time < b.time \/ (a.time = b.time /\ a.id < b.id)

(* Seeded fault: the cursor passes over what has the same time.            *)
AfterTime(of, cursor, r) ==
    cursor = None \/ IF of = "inputs" THEN cursor.time < r.time ELSE r.time < cursor.time

(* What is listed first.                                                   *)
Before(of, a, b) == IF of = "inputs" THEN Precedes(a, b) ELSE Precedes(b, a)

After(of, cursor, r) == cursor = None \/ Before(of, cursor, r)

Rows(of) == IF of = "inputs" THEN inputs ELSE Listed

Remaining(of, cursor) == {r \in Rows(of) : After(of, cursor, r)}

(* The first rows of what remains, at most a page of them.                 *)
Ahead(of, rest, r) == {s \in rest : s # r /\ Before(of, s, r)}

FirstOf(of, rest) == {r \in rest : Cardinality(Ahead(of, rest, r)) < Limit}

Page(of, cursor) == FirstOf(of, Remaining(of, cursor))

LastOf(of, page) == CHOOSE r \in page : \A s \in page : s = r \/ Before(of, s, r)

StartList(c) ==
    \E of \in {"inputs", "exhibits"} :
        /\ job[c] = Idle
        /\ job' = [job EXCEPT ![c] =
                [at |-> "list", of |-> of, since |-> {r.id : r \in Rows(of)},
                 cursor |-> None, shown |-> {}, twice |-> FALSE, more |-> TRUE]]
        /\ UNCHANGED <<head, guard, now, inputs, copies, damaged, exhibits, metadata>>

ReadPage(c) ==
    /\ job[c].at = "list" /\ job[c].more
    /\ LET of == job[c].of
           page == Page(of, job[c].cursor)
           more == Remaining(of, job[c].cursor) # page
           last == LastOf(of, page)
       IN job' = [job EXCEPT ![c] =
            [at |-> "list", of |-> of, since |-> job[c].since,
             cursor |-> IF more THEN [time |-> last.time, id |-> last.id] ELSE None,
             shown |-> job[c].shown \cup {r.id : r \in page},
             twice |-> job[c].twice \/ \E r \in page : r.id \in job[c].shown,
             more |-> more]]
    /\ UNCHANGED <<head, guard, now, inputs, copies, damaged, exhibits, metadata>>

EndList(c) ==
    /\ job[c].at = "list" /\ ~job[c].more
    /\ job' = [job EXCEPT ![c] = Idle]
    /\ UNCHANGED <<head, guard, now, inputs, copies, damaged, exhibits, metadata>>

-----------------------------------------------------------------------------
(* A store may hold exhibits from before there was a metadata table.       *)
Old(q) == [id |-> CHOOSE n \in ExhibitIds : \A m \in ExhibitIds : m <= n, time |-> 0,
           question |-> q, from |-> None, snapshot |-> 0,
           source |-> [runs |-> {}, artifacts |-> {}, target |-> None, crop |-> None]]

Init ==
    /\ head = 0 /\ guard = None /\ now = 0 /\ damaged = 0
    /\ inputs = {} /\ copies = [content \in Contents |-> None]
    /\ exhibits \in {{}} \cup {{Old(q)} : q \in IF Legacy THEN Approved[0] ELSE {}}
    /\ metadata = None
    /\ job = [c \in Clients |-> Idle]

Next ==
    \/ MoveState \/ Tick \/ Damage \/ Recover
    \/ \E c \in Clients :
          \/ GuardHead(c) \/ RefuseStale(c) \/ Crash(c)
          \/ ReadFile(c) \/ StoreCopy(c) \/ RefuseCopy(c) \/ InsertInput(c) \/ VerifyCopy(c)
          \/ Validate(c) \/ Stamp(c) \/ CreateTables(c) \/ Backfill(c) \/ InsertExhibit(c)
          \/ StartList(c) \/ ReadPage(c) \/ EndList(c)

Spec == Init /\ [][Next]_vars

-----------------------------------------------------------------------------
(* Nothing is stored against a Snapshot other than the current one, and an *)
(* exhibit's Question is approved there.                                   *)
BoundToHead ==
    \A r \in (inputs' \ inputs) \cup (exhibits' \ exhibits) :
        /\ r.snapshot = head
        /\ r \in exhibits' => r.question \in Approved[head]

(* An input never refers to a copy that was not made.                      *)
ManagedCopy == \A i \in inputs : copies[i.content] # None

(* "Every item reachable": a listing that has come to its end has shown    *)
(* every record that was there when it began, and none of them twice.      *)
ListingComplete ==
    \A c \in Clients :
        job[c].at = "list" =>
            /\ ~job[c].twice
            /\ ~job[c].more => job[c].since \subseteq job[c].shown

(* "Metadata optimization is an additive table so pre-optimization 0.1     *)
(* stores remain readable": every exhibit that is kept is listed.          *)
StoresReadable == Listed = exhibits
=============================================================================
