----------------------------- MODULE SerialState -----------------------------
(***************************************************************************)
(* What the Research State runtime promises: an authoritative history in   *)
(* which every commit is one step, valid against the state it is applied   *)
(* to.  There are no readers, no loaded views and no retries here;         *)
(* ResearchState implements this module.                                   *)
(***************************************************************************)
EXTENDS TransitionRules

VARIABLES
    config,      \* current Project/Profile binding of the project
    objects,     \* object_revisions
    decisions,   \* Decision records
    snapshots,   \* immutable Snapshots: id, prior, members
    lines,       \* Lineage rows: head, pin (head = NoSnap: no such lineage)
    active,      \* active-lineage pointer
    used,        \* consumed Decisions
    commits,     \* commit records: req, prior, consumed
    requests     \* requests callers have written down and may submit

tables == <<config, objects, decisions, snapshots, lines, active, used, commits>>

NoLine == [head |-> NoSnap, pin |-> FirstPin]

TablesInit ==
    /\ config = FirstPin
    /\ objects = SeedRows
    /\ decisions = {}
    /\ snapshots = {[id |-> Genesis, prior |-> NoSnap,
                     members |-> {<<x.obj, x.rev>> : x \in SeedRows}]}
    /\ lines = [l \in LineageIds |->
                   IF l = RootLineage THEN [head |-> Genesis, pin |-> FirstPin]
                                      ELSE NoLine]
    /\ active = RootLineage
    /\ used = {}
    /\ commits = {}
    /\ requests = {}

MembersOf(id) == (CHOOSE s \in snapshots : s.id = id).members

(* An object revision another lineage stored first with exactly the        *)
(* content this request carries is shared, so an edit is measured against  *)
(* the revisions before its own.                                           *)
MeasuredRows(r) ==
    {x \in objects : x.obj \in EditedObjects(r.p) => x.rev < r.revs[x.obj]}

(* The state a request is judged against.  A Decision that is cited where  *)
(* none is needed is not consumed, and whether somebody else has spent it  *)
(* by now is no longer looked at.                                          *)
ViewFor(r) ==
    [pin       |-> config,
     head      |-> lines[r.p.line].head,
     members   |-> MembersOf(lines[r.p.line].head),
     objects   |-> MeasuredRows(r),
     decisions |-> decisions \ r.p.records,
     snapIds   |-> {s.id : s \in snapshots},
     lines     |-> lines,
     used      |-> used \cap Consumed(MeasuredRows(r), r.p)]

(* The tables after a commit of r that consumes the Decisions in spent and *)
(* writes pin linePin into the row of the lineage it advances.             *)
Persist(r, members, spent, linePin) ==
    LET p == r.p IN
    /\ objects' = objects \cup NewRows(r)
    /\ decisions' = decisions \cup p.records
    /\ snapshots' = IF p.kind = "switch" THEN snapshots
                    ELSE snapshots \cup {[id |-> p.snap, prior |-> r.head,
                                          members |-> NextMembers(members, r)]}
    /\ lines' = CASE p.kind = "edit" ->
                        [lines EXCEPT ![p.line] = [head |-> p.snap, pin |-> linePin]]
                  [] p.kind = "fork" ->
                        [lines EXCEPT ![p.target] = [head |-> p.snap, pin |-> r.pin]]
                  [] p.kind = "switch" -> lines
    /\ active' = IF p.kind = "switch" THEN p.target ELSE active
    /\ used' = used \cup spent
    /\ commits' = commits \cup {[req |-> r, prior |-> r.head, consumed |-> spent]}
    /\ UNCHANGED config

(* A caller pins a proposal to the state it sees: HEAD, binding and next   *)
(* revisions.  Each proposal is pinned once; a retry reuses the request.   *)
Request(p) == [p |-> p, head |-> lines[p.line].head, pin |-> config,
               revs |-> [o \in EditedObjects(p) |-> NextRev(objects, o)]]

Draft(p) ==
    /\ lines[p.line].head # NoSnap
    /\ \A r \in requests : r.p # p
    /\ requests' = requests \cup {Request(p)}
    /\ UNCHANGED tables

(* One authoritative step: the key is new, the request is valid now, and   *)
(* no immutable identity is overwritten.                                   *)
CommitValid(r) ==
    /\ \A c \in commits : c.req.p.key # r.p.key
    /\ Valid(ViewFor(r), r)
    /\ \A x \in objects, y \in NewRows(r) : (x.obj = y.obj /\ x.rev = y.rev) => x = y
    /\ Persist(r, MembersOf(r.head), Consumed(MeasuredRows(r), r.p),
               lines[r.p.line].pin)
    /\ UNCHANGED requests

(* The current binding moves only together with the active lineage's.      *)
Rebind(pin) ==
    /\ pin # config
    /\ lines[active].pin = config
    /\ config' = pin
    /\ lines' = [lines EXCEPT ![active].pin = pin]
    /\ UNCHANGED <<objects, decisions, snapshots, active, used, commits, requests>>

TablesNext == \/ \E p \in Proposals : Draft(p)
              \/ \E r \in requests : CommitValid(r)
              \/ \E pin \in Pins : Rebind(pin)

TablesSpec == TablesInit /\ [][TablesNext]_<<tables, requests>>

=============================================================================
