--------------------------- MODULE TransitionRules ---------------------------
(***************************************************************************)
(* The pure half of the Research State runtime (core/runtime): what a      *)
(* state-changing request is, which Human Decisions it needs, when it is   *)
(* valid against a loaded StateView, and what it writes.  Nothing here has *)
(* state; SerialState and ResearchState are built from these operators.    *)
(*                                                                         *)
(* Data abstraction: an object revision keeps its status (adoption_state   *)
(* of a protected research object, verification_status of Evidence), its   *)
(* body (all other material content; evidence_kind for Evidence) and the   *)
(* decision_ids it carries.  Digests are equality of records.              *)
(***************************************************************************)
EXTENDS Integers, FiniteSets

CONSTANTS
    Questions,     \* protected research objects (question, method, finding, ...)
    Evidence,      \* evidence objects
    LineageIds, RootLineage,
    SnapIds, Genesis, NoSnap,
    Pins,          \* Project Config / Effective Profile Set bindings
    FirstPin,
    Proposals,     \* the caller-chosen part of the requests, see Request
    SeedRows       \* object revisions of the bootstrapped Genesis Snapshot

Objects == Questions \cup Evidence

ASSUME ObjectsDisjoint == Questions \cap Evidence = {}
ASSUME RootAssumption  == RootLineage \in LineageIds
ASSUME SnapAssumption  == Genesis \in SnapIds /\ NoSnap \notin SnapIds
ASSUME PinAssumption   == FirstPin \in Pins
ASSUME SeedAssumption  ==
    \A x \in SeedRows : x.obj \in Objects /\ x.rev = 0
                        /\ \A y \in SeedRows : x.obj = y.obj => x = y
(* The edits of one request touch distinct objects.                        *)
ASSUME ProposalAssumption ==
    \A p \in Proposals :
        /\ p.line \in LineageIds /\ p.target \in LineageIds
        /\ p.snap \in SnapIds
        /\ p.kind \in {"edit", "fork", "switch"}
        /\ \A e \in p.edits : /\ e.obj \in Objects
                              /\ \A f \in p.edits : e.obj = f.obj => e = f

(* Adoption states belong to protected research objects and verification   *)
(* states to Evidence.                                                     *)
ASSUME StatusAssumption ==
    \A p \in Proposals : \A e \in p.edits :
        /\ e.status = "approved" => e.obj \in Questions
        /\ e.status = "verified" => e.obj \in Evidence

-----------------------------------------------------------------------------
(* Stored object revisions                                                  *)

RowsOf(rows, o) == {x \in rows : x.obj = o}

Known(rows, o) == RowsOf(rows, o) # {}

Latest(rows, o) == CHOOSE x \in RowsOf(rows, o) :
                      \A y \in RowsOf(rows, o) : y.rev <= x.rev

NextRev(rows, o) == IF Known(rows, o) THEN Latest(rows, o).rev + 1 ELSE 0

EditedObjects(p) == {e.obj : e \in p.edits}

(* The object revisions a request writes, at the revisions it pins.        *)
NewRows(r) == {[obj |-> e.obj, rev |-> r.revs[e.obj], status |-> e.status,
                body |-> e.body, decs |-> e.refs] : e \in r.p.edits}

NewKeys(r) == {<<x.obj, x.rev>> : x \in NewRows(r)}

-----------------------------------------------------------------------------
(* Human Decision requirements                                              *)

(* Seeded fault: adoption of an object that already exists is free.         *)
StatusMovesOnCreation(rows, e) == ~Known(rows, e.obj)

StatusMoves(rows, e) == Known(rows, e.obj) => Latest(rows, e.obj).status # e.status

BodyMoves(rows, e) == Known(rows, e.obj) /\ Latest(rows, e.obj).body # e.body

EditChoices(rows, e) ==
    {q \in {"approve", "reject", "revise", "verify", "reclassify"} :
        \/ /\ e.obj \in Questions
           /\ \/ q = "approve" /\ e.status = "approved" /\ StatusMoves(rows, e)
              \/ q = "reject"  /\ e.status \in {"rejected", "closed", "out_of_scope"}
                                /\ StatusMoves(rows, e)
              \/ q = "revise"  /\ BodyMoves(rows, e)
        \/ /\ e.obj \in Evidence
           /\ \/ q = "verify" /\ e.status = "verified" /\ StatusMoves(rows, e)
              \/ q = "reclassify" /\ BodyMoves(rows, e)}

(* One duty per (choice, subject) the request must cover, with the         *)
(* decision_refs of the action that carries it.                            *)
Duties(rows, p) ==
    CASE p.kind = "edit" ->
            UNION {{[choice |-> q, subject |-> e.obj, refs |-> e.refs] :
                        q \in EditChoices(rows, e)} : e \in p.edits}
      [] p.kind = "fork" ->
            {[choice |-> "apply", subject |-> p.target, refs |-> p.refs]} \cup
            {[choice |-> "reconfirm", subject |-> e.obj, refs |-> p.refs] :
                e \in p.edits}
      [] p.kind = "switch" ->
            {[choice |-> "switch", subject |-> p.target, refs |-> p.refs]}

(* resolving_decision_refs: the refs of every action that has a duty.      *)
Consumed(rows, p) == UNION {d.refs : d \in Duties(rows, p)}

Refs(p) == p.refs \cup UNION {e.refs : e \in p.edits}

(* Decisions the request may cite: stored ones and those it records.       *)
Pool(v, p) == v.decisions \cup p.records

Authorizes(x, d) == /\ x.human
                    /\ x.id \in d.refs
                    /\ x.choice = d.choice
                    /\ d.subject \in x.subjects

-----------------------------------------------------------------------------
(* Validation against a StateView                                           *)

DutiesMet(v, p) ==
    \A d \in Duties(v.objects, p) :
        \E x \in Pool(v, p) : x.id \notin v.used /\ Authorizes(x, d)

RefsSound(v, p) ==
    /\ \A ref \in Refs(p) :
          /\ ref \notin v.used
          /\ \E x \in Pool(v, p) : x.id = ref /\ x.human
    /\ p.kind = "edit" =>
          \A e \in p.edits : \A ref \in e.refs :
              \E x \in Pool(v, p) : x.id = ref /\ e.obj \in x.subjects

PinsCurrent(v, r) == r.pin = v.pin

HeadExpected(v, r) == r.head = v.head

MemberObjects(members) == {m[1] : m \in members}

(* RECONFIRM treatments are the edits of a fork, PRESERVE its keep set and *)
(* INVALIDATE its drop set; together they treat the baseline exactly.      *)
LineageSound(v, p) ==
    CASE p.kind = "edit" -> TRUE
      [] p.kind = "fork" ->
            /\ v.lines[p.target].head = NoSnap
            /\ EditedObjects(p) \cup p.keep \cup p.drop = MemberObjects(v.members)
            /\ EditedObjects(p) \cap (p.keep \cup p.drop) = {}
            /\ p.keep \cap p.drop = {}
            /\ \A e \in p.edits : e.refs # {} /\ e.refs \subseteq p.refs
      [] p.kind = "switch" -> v.lines[p.target].head # NoSnap

(* Identity rules of the reducer: the next monotonic revision, decision    *)
(* ids never reused, a Snapshot id never reused.                           *)
Reducible(v, r) ==
    /\ \A e \in r.p.edits : r.revs[e.obj] = NextRev(v.objects, e.obj)
    /\ \A x \in r.p.records : \A y \in v.decisions : x.id # y.id
    /\ r.p.kind = "edit" => r.p.edits # {} \/ r.p.records # {}
    /\ r.p.kind = "switch" => r.p.edits = {}
    /\ r.p.kind # "switch" => r.p.snap \notin v.snapIds

Valid(v, r) == /\ PinsCurrent(v, r)
               /\ HeadExpected(v, r)
               /\ DutiesMet(v, r.p)
               /\ RefsSound(v, r.p)
               /\ LineageSound(v, r.p)
               /\ Reducible(v, r)

-----------------------------------------------------------------------------
(* Reduction                                                                *)

(* Seeded fault: replaced members stay effective beside their successors.   *)
NextMembersKeepingOld(members, r) == members \cup NewKeys(r)

(* Members of the next Snapshot: the effective ones with the edited        *)
(* objects replaced, or for a fork the preserved and reconfirmed ones.     *)
NextMembers(members, r) ==
    LET kept == IF r.p.kind = "fork"
                THEN {m \in members : m[1] \in r.p.keep}
                ELSE {m \in members : m[1] \notin EditedObjects(r.p)}
    IN kept \cup NewKeys(r)

NewSnap(p) == IF p.kind = "switch" THEN NoSnap ELSE p.snap

=============================================================================
