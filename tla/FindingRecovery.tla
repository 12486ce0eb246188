---------------------------- MODULE FindingRecovery ----------------------------
(***************************************************************************)
(* Recovery of what a historical Desktop Research Run had proposed         *)
(* (local_application/material/finding_recovery_facade.py, historical_     *)
(* finding_recovery_facade.py, historical_result_recovery_facade.py).  A   *)
(* candidate that a completed Run left in the conversation store is copied *)
(* into a form that can be applied, taken from the Run itself or from the  *)
(* one replay of it that has a candidate; where there is no candidate, or  *)
(* more than one, a candidate is made from the Run's stored result.  All   *)
(* is read before the guard on the Research State is taken and a copy is   *)
(* stored.                                                                 *)
(***************************************************************************)
EXTENDS Naturals, FiniteSets, FiniteSetsExt

CONSTANTS
    Procs,
    Runs,
    ParentOf,       \* the Run a Run replays, or None
    Original,       \* the candidates a Run may leave: a set of [kind, run, mark, at]
    Misbound, Misshapen,    \* marks of candidates that fail a check
    Undocumented,   \* Runs whose execution documents do not verify
    Unrelated,      \* Runs whose replay relation is not proved by their documents
    RowLimit,       \* rows one lookup reads: limit=3
    ChildLimit,     \* replays considered: 3
    MaxMoves, MaxLosses,    \* bounds: moves of the Research State, Runs without material
    None

VARIABLES
    completed,    \* Runs that completed with a Handoff
    canonical,    \* Runs whose stored result and material verify
    proposals,    \* state_delta_proposals: candidates of Runs and recovered copies
    moves,        \* how often the Research State has left or come back to the Runs' Snapshot
    pc, job       \* where each process stands, and with what

vars == <<completed, canonical, proposals, moves, pc, job>>

Moved == moves % 2 = 1

Originals(r) == {q \in proposals : q.kind = "original" /\ q.run = r}

Init ==
    /\ completed \in {s \in SUBSET Runs : \A r \in Runs \ s : ParentOf[r] # None}
    /\ canonical = Runs \ Undocumented
    /\ proposals \in SUBSET {q \in Original : q.run \in completed}
    /\ moves = 0
    /\ pc = [p \in Procs |-> "idle"]
    /\ job = [p \in Procs |-> None]

-----------------------------------------------------------------------------
(* The other work of the workspace                                          *)

(* A replay that is running commits one candidate, and then its            *)
(* completion; older Runs may have left more.                              *)
Propose(r) ==
    /\ r \notin completed /\ Originals(r) = {}
    /\ \E q \in Original : q.run = r /\ proposals' = proposals \cup {q}
    /\ UNCHANGED <<completed, canonical, moves, pc, job>>

Complete(r) ==
    /\ r \notin completed
    /\ completed' = completed \cup {r}
    /\ UNCHANGED <<canonical, proposals, moves, pc, job>>

Move ==
    /\ moves < MaxMoves
    /\ moves' = moves + 1
    /\ UNCHANGED <<completed, canonical, proposals, pc, job>>

LoseMaterial(r) ==
    /\ Cardinality(Runs \ canonical) < MaxLosses
    /\ canonical' = canonical \ {r}
    /\ UNCHANGED <<completed, proposals, moves, pc, job>>

-----------------------------------------------------------------------------
(* Looking for the candidate of a Run                                       *)

Rows(r) == {q \in proposals : q.run = r}

(* The rows a lookup reads, in the order of identities that are digests.   *)
Pages(r) ==
    IF Cardinality(Rows(r)) <= RowLimit THEN {Rows(r)} ELSE kSubset(RowLimit, Rows(r))

(* Copies are left out after the rows were read.                           *)
Unrecovered(page) == {q \in page : q.kind = "original"}

Matches(r) == {Unrecovered(page) : page \in Pages(r)}

(* The Invocation, the context pack and the descriptor are what the Run    *)
(* was bound to.                                                           *)
DocumentsHold(r) == r \notin Undocumented

Eligible(r) == r \in completed /\ DocumentsHold(r)

(* Objects to create, in the form of the time, with a Finding to adopt.    *)
Shaped(q) == q.mark \notin Misshapen

(* The candidate has its digest, comes from the Run, and both are of the   *)
(* current Snapshot.                                                       *)
Inspected(q) == ~Moved /\ q.mark \notin Misbound /\ Shaped(q)

(* The replay repeats the Action of its parent and nothing else.           *)
Replays(r) == r \notin Unrelated

(* The Handoff, its extension and the captures verify and normalize.       *)
CanonicalResult(r) == r \in canonical /\ Eligible(r) /\ ~Moved

Children(r) == {c \in Runs : ParentOf[c] = r}

Step(p, at, j) == pc' = [pc EXCEPT ![p] = at] /\ job' = [job EXCEPT ![p] = j]
Refuse(p) == Step(p, "idle", None)

Recover(p, r) ==
    /\ pc[p] = "idle"
    /\ Step(p, "exact", [run |-> r, pass |-> "try", left |-> {}, found |-> {},
                     source |-> None, note |-> None, copy |-> None])
    /\ UNCHANGED <<completed, canonical, proposals, moves>>

(* No candidate, or too many: the first pass is followed by a              *)
(* classification, and a classification by the Run's stored result.        *)
Fall(p, status) ==
    LET j == job[p]
    IN CASE j.pass = "try" ->
                IF Eligible(j.run) /\ ~Moved
                THEN Step(p, "exact", [j EXCEPT !.pass = "classify", !.found = {}])
                ELSE Refuse(p)
         [] j.pass = "classify" ->
                IF CanonicalResult(j.run)
                THEN Step(p, "rematerialize", [j EXCEPT !.note = status])
                ELSE Refuse(p)
         [] OTHER -> Refuse(p)

(* A candidate was found: it is recovered, or, by a classification, looked *)
(* for once more.                                                          *)
Found(p, r) ==
    IF job[p].pass = "classify"
    THEN Step(p, "exact", [job[p] EXCEPT !.pass = "retry", !.found = {}])
    ELSE Step(p, "legacy", [job[p] EXCEPT !.source = r, !.found = {}])

Exact(p) ==
    /\ pc[p] = "exact"
    /\ \E matches \in Matches(job[p].run) :
        LET j == job[p]
        IN IF matches = {}
           THEN IF ~Eligible(j.run) THEN Refuse(p)
                ELSE IF Cardinality(Children(j.run)) > ChildLimit THEN Fall(p, "ambiguous")
                ELSE Step(p, "children", [j EXCEPT !.left = Children(j.run)])
           ELSE IF j.pass # "classify" THEN Found(p, j.run)
           ELSE IF Cardinality(matches) > 1 THEN Fall(p, "ambiguous")
           ELSE IF \A q \in matches : Inspected(q) THEN Found(p, j.run)
           ELSE Refuse(p)
    /\ UNCHANGED <<completed, canonical, proposals, moves>>

(* resolve_replay_child: one lookup for each replay.                       *)
LookAtChild(p) ==
    /\ pc[p] = "children"
    /\ \E c \in job[p].left : \E matches \in Matches(c) :
        IF Cardinality(matches) > 1 THEN Fall(p, "ambiguous")
        ELSE Step(p, "children",
                  [job[p] EXCEPT !.left = @ \ {c}, !.found = @ \cup matches])
    /\ UNCHANGED <<completed, canonical, proposals, moves>>

ChooseChild(p) ==
    /\ pc[p] = "children" /\ job[p].left = {}
    /\ LET found == job[p].found
       IN IF found = {} THEN Fall(p, "missing")
          ELSE IF Cardinality(found) > 1 THEN Fall(p, "ambiguous")
          ELSE LET q == CHOOSE f \in found : TRUE
               IN IF Replays(q.run) /\ Eligible(q.run) /\ Inspected(q)
                  THEN Found(p, q.run) ELSE Refuse(p)
    /\ UNCHANGED <<completed, canonical, proposals, moves>>

-----------------------------------------------------------------------------
(* Making a copy                                                            *)

Copy(kind, r, mark) == [kind |-> kind, run |-> r, mark |-> mark, at |-> 0]

(* _recover_legacy_candidate, up to the guard.                             *)
RecoverLegacy(p) ==
    /\ pc[p] = "legacy"
    /\ LET r == job[p].source
       IN IF ~Eligible(r) THEN Refuse(p)
          ELSE \E matches \in Matches(r) :
                 IF Cardinality(matches) # 1 THEN Fall(p, "ambiguous")
                 ELSE LET q == CHOOSE f \in matches : TRUE
                      IN IF Inspected(q)
                         THEN Step(p, "persist",
                                   [job[p] EXCEPT !.copy = Copy("legacy", r, q.mark)])
                         ELSE Refuse(p)
    /\ UNCHANGED <<completed, canonical, proposals, moves>>

(* The stored result is verified and normalized again.                     *)
Rematerialize(p) ==
    /\ pc[p] = "rematerialize"
    /\ LET r == job[p].run
       IN IF CanonicalResult(r)
          THEN Step(p, "persist",
                    [job[p] EXCEPT !.copy = Copy("rematerialized", r, job[p].note)])
          ELSE Refuse(p)
    /\ UNCHANGED <<completed, canonical, proposals, moves>>

(* Two copies have one identity when they are made of the same Run by the  *)
(* same route, and of the same candidate; the note on what was found of    *)
(* candidates is not part of it.                                           *)
SameIdentity(q, copy) ==
    /\ q.kind = copy.kind /\ q.run = copy.run
    /\ q.kind = "legacy" => q.mark = copy.mark

(* guard_research_state_head: the head is the one that was read.           *)
HeadHolds == ~Moved

(* A copy that is there already is taken as it is; other content under its *)
(* identity is a collision and nothing is stored.                          *)
Persist(p) ==
    /\ pc[p] = "persist"
    /\ LET copy == [job[p].copy EXCEPT !.at = moves % 2]
       IN proposals' =
            IF HeadHolds /\ ~\E q \in proposals : SameIdentity(q, copy)
            THEN proposals \cup {copy} ELSE proposals
    /\ Refuse(p)
    /\ UNCHANGED <<completed, canonical, moves>>

Next ==
    \/ \E r \in Runs : Propose(r) \/ Complete(r) \/ LoseMaterial(r)
    \/ Move
    \/ \E p \in Procs :
        \/ \E r \in Runs : Recover(p, r)
        \/ Exact(p) \/ LookAtChild(p) \/ ChooseChild(p)
        \/ RecoverLegacy(p) \/ Rematerialize(p) \/ Persist(p)

-----------------------------------------------------------------------------
(* A copy of a candidate is made only where the Run has one candidate and  *)
(* it passed every check, and a candidate is made from a Run's result only *)
(* where it has none or several, once, and always of the Runs' Snapshot,   *)
(* however many copies the bounded lookup has to read past.                *)
RecoveredFromOne ==
    \A q \in proposals :
        /\ q.at = 0
        /\ q.kind # "original" => q.run \in completed
        /\ q.kind = "legacy" =>
              q.mark \notin Misbound \cup Misshapen /\ {o.mark : o \in Originals(q.run)} = {q.mark}
        /\ q.kind = "rematerialized" =>
              /\ Cardinality(Originals(q.run)) # 1
              /\ \A other \in proposals :
                    other.kind = q.kind /\ other.run = q.run => other = q
===============================================================================
