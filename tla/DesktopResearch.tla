--------------------------- MODULE DesktopResearch ---------------------------
(***************************************************************************)
(* External intake of one Desktop Research Run (plugins/desktop_research   *)
(* and the external facades over it).  Operators record retrieval attempts *)
(* in an append-only ledger and captures in the artifact store, and hand   *)
(* in a result.  Three databases take part: the execution store, whose     *)
(* write lock is the guard on a RUNNING Run, the operational ledger and    *)
(* the conversation store with its candidate proposals.  A collection      *)
(* holds the guard from its checks to its commit, but its proposal commits *)
(* in another database before that.                                        *)
(*                                                                         *)
(* A submission names captures and attempts and makes one claim on them;   *)
(* everything else the validation looks at is its field sound.             *)
(***************************************************************************)
EXTENDS Naturals, FiniteSets, Sequences

CONSTANTS
    Procs,          \* processes of operators
    Attempts, Captures,
    PairLimit,      \* max_acquired_source_captures with max_capture_artifacts
    MaxCrashes,     \* bound: deaths of processes
    None

Routes == {"result", "handoff"}
Claims == {"partial", "covered", "silent", "nulls", "rejected"}
Submissions == [route : Routes, captures : SUBSET Captures, trace : SUBSET Attempts,
                claim : Claims, sound : BOOLEAN]

VARIABLES
    status,       \* the Run's status
    captured,     \* capture pairs of the Run
    ledger,       \* operational_events of the Run, by sequence
    result,       \* the content of the stored Handoff and extension, or None
    proposal,     \* the content of the Run's StateDeltaProposal, or None
    moved,        \* the Research State moved on since the Run was prepared
    lock,         \* who holds the execution store's write lock, or None
    pc, job,      \* where each process of an operator stands, and with what
    crashes

stores == <<status, captured, ledger, result, proposal, moved, lock>>
vars == <<stores, pc, job, crashes>>

Init ==
    /\ status = "RUNNING"
    /\ captured = {}
    /\ ledger = <<>>
    /\ result = None /\ proposal = None /\ lock = None
    /\ moved = FALSE
    /\ pc = [p \in Procs |-> "idle"]
    /\ job = [p \in Procs |-> None]
    /\ crashes = 0

-----------------------------------------------------------------------------
(* The ledger of retrieval attempts                                         *)

Outcomes == {"source_captured", "no_relevant_source", "failed"}

Event(kind, a, outcome, c) == [kind |-> kind, attempt |-> a, outcome |-> outcome, capture |-> c]

Events(kind, a) == {i \in DOMAIN ledger : ledger[i].kind = kind /\ ledger[i].attempt = a}
Known(a) == Events("start", a) # {}
Completed(a) == Events("complete", a) # {}
AttemptIndex == {a \in Attempts : Known(a)}
Outcome(a) == ledger[CHOOSE i \in Events("complete", a) : TRUE]

(* The event id is made of the Run, the attempt and the kind; another one  *)
(* under the same id is a collision.                                       *)
FreshEvent(e) == Events(e.kind, e.attempt) = {}

(* Seeded fault: the Run is not read again under the lock. *)
Unguarded == lock = None

(* require_run_status: the write lock, and a Run that is still running.    *)
Guard == lock = None /\ status = "RUNNING"

Idle(p) == pc' = [pc EXCEPT ![p] = "idle"] /\ job' = [job EXCEPT ![p] = None]

(* What the recorder checks before it appends is read without the lock.    *)
Prepare(p, e) ==
    /\ pc[p] = "idle" /\ status = "RUNNING"
    /\ pc' = [pc EXCEPT ![p] = "append"]
    /\ job' = [job EXCEPT ![p] = e]
    /\ UNCHANGED <<stores, crashes>>

StartAttempt(p, a) == ~Known(a) /\ Prepare(p, Event("start", a, None, None))

(* Nothing looks the resulting capture up.                                 *)
CompleteAttempt(p, a, outcome, c) ==
    /\ Known(a) /\ ~Completed(a)
    /\ outcome \in Outcomes
    /\ (outcome = "source_captured") <=> (c # None)
    /\ Prepare(p, Event("complete", a, outcome, c))

AppendEvent(p) ==
    /\ pc[p] = "append"
    /\ Guard /\ FreshEvent(job[p])
    /\ ledger' = Append(ledger, job[p])
    /\ Idle(p)
    /\ UNCHANGED <<status, captured, result, proposal, moved, lock, crashes>>

(* The Run is over, or the event exists.                                   *)
Refuse(p) ==
    /\ pc[p] = "append"
    /\ lock = None
    /\ ~(Guard /\ FreshEvent(job[p]))
    /\ Idle(p)
    /\ UNCHANGED <<stores, crashes>>

(* The pair of artifacts is written in one batch, within the budget.       *)
CaptureSource(p, c) ==
    /\ pc[p] = "idle" /\ Guard
    /\ c \notin captured /\ Cardinality(captured) < PairLimit
    /\ captured' = captured \cup {c}
    /\ UNCHANGED <<status, ledger, result, proposal, moved, lock, pc, job, crashes>>

-----------------------------------------------------------------------------
(* What a result must agree with                                            *)

EveryAttemptEnded == \A a \in AttemptIndex : Completed(a)

(* What an assembly can hand back for correction.                          *)
WithinBudget(s) == Cardinality(s.captures) <= PairLimit
ResolveCaptures(s) == s.captures \subseteq captured
SearchTrace(s) == s.trace = AttemptIndex

Assembled(s) == WithinBudget(s) /\ ResolveCaptures(s) /\ SearchTrace(s)

(* The validation proper looks all of it up again.                         *)
CapturesHold(s) == WithinBudget(s) /\ s.captures \subseteq captured

(* Every attempt is in the trace, and what one captured is in the result.  *)
TraceAgrees(s) ==
    /\ s.trace = AttemptIndex
    /\ \A a \in s.trace :
          Outcome(a).outcome = "source_captured" => Outcome(a).capture \in s.captures

Got(outcome) == \E a \in AttemptIndex : Completed(a) /\ Outcome(a).outcome = outcome

CoverageBacked(s) == s.claim \in {"covered", "silent"} => Got("source_captured")

(* A failed attempt leaves an unknown or a gap, or its dimension open.     *)
FailuresVisible(s) == s.claim = "silent" => ~Got("failed")

NullsBacked(s) == s.claim = "nulls" => Got("no_relevant_source")

Valid(s) ==
    /\ s.sound /\ CapturesHold(s) /\ TraceAgrees(s)
    /\ CoverageBacked(s) /\ FailuresVisible(s) /\ NullsBacked(s)

Content(s) == [captures |-> s.captures, trace |-> s.trace, claim |-> s.claim]

-----------------------------------------------------------------------------
(* Collection: one transaction of the execution store from guard to commit  *)

Normalize(p, s) ==
    /\ pc' = [pc EXCEPT ![p] = "normalize"]
    /\ job' = [job EXCEPT ![p] = Content(s)]
    /\ lock' = p
    /\ UNCHANGED <<status, captured, ledger, result, proposal, moved, crashes>>

(* A research result is assembled and validated before the intake; one     *)
(* that is not valid goes back for correction and the Run stays as it is.  *)
CollectResult(p) ==
    /\ pc[p] = "idle" /\ Guard /\ EveryAttemptEnded
    /\ \E s \in Submissions :
          s.route = "result" /\ Assembled(s) /\ Valid(s) /\ Normalize(p, s)

(* A bare Handoff that is not valid fails its Run.                         *)
CollectHandoff(p) ==
    /\ pc[p] = "idle" /\ Guard /\ EveryAttemptEnded
    /\ \E s \in Submissions :
          /\ s.route = "handoff"
          /\ \/ Valid(s) /\ Normalize(p, s)
             \/ /\ ~Valid(s) /\ status' = "FAILED"
                /\ UNCHANGED <<captured, ledger, result, proposal, moved, lock, pc, job, crashes>>

(* One proposal id per Run: the same content again, or a collision.        *)
SameProposal(content) == proposal \in {None, content}

Commit(p, content) ==
    /\ status' = "COMPLETED" /\ result' = content
    /\ lock' = None
    /\ Idle(p)
    /\ UNCHANGED <<captured, ledger, moved>>

(* A rejected result, and one pinned to a State that moved on, completes   *)
(* its Run without a candidate.                                            *)
NoCandidate(p) == moved \/ job[p].claim = "rejected"

(* The candidate reaches the conversation store; it commits there.         *)
StoreProposal(p) ==
    /\ pc[p] = "normalize" /\ ~NoCandidate(p)
    /\ SameProposal(job[p])
    /\ proposal' = job[p]
    /\ pc' = [pc EXCEPT ![p] = "commit"]
    /\ UNCHANGED <<status, captured, ledger, result, moved, lock, job, crashes>>

RefuseCandidate(p) ==
    /\ pc[p] = "normalize" /\ NoCandidate(p)
    /\ Commit(p, job[p])
    /\ UNCHANGED <<proposal, crashes>>

CommitResult(p) ==
    /\ pc[p] = "commit"
    /\ Commit(p, job[p])
    /\ UNCHANGED <<proposal, crashes>>

(* The collision raises through the guard, which rolls the intake back.    *)
Collide(p) ==
    /\ pc[p] = "normalize" /\ ~NoCandidate(p) /\ ~SameProposal(job[p])
    /\ lock' = None
    /\ Idle(p)
    /\ UNCHANGED <<status, captured, ledger, result, proposal, moved, crashes>>

Abort(p) ==
    /\ pc[p] = "idle" /\ Guard
    /\ status' = "ABORTED"
    /\ UNCHANGED <<captured, ledger, result, proposal, moved, lock, pc, job, crashes>>

(* A process dies: its lock is released and its transaction rolled back,   *)
(* what it committed elsewhere stays.                                      *)
Crash(p) ==
    /\ pc[p] # "idle" /\ crashes < MaxCrashes
    /\ crashes' = crashes + 1
    /\ lock' = IF lock = p THEN None ELSE lock
    /\ Idle(p)
    /\ UNCHANGED <<status, captured, ledger, result, proposal, moved>>

(* A Decision is committed elsewhere.                                      *)
MoveState ==
    /\ ~moved /\ moved' = TRUE
    /\ UNCHANGED <<status, captured, ledger, result, proposal, lock, pc, job, crashes>>

Next ==
    \/ MoveState
    \/ \E p \in Procs :
          \/ AppendEvent(p) \/ Refuse(p) \/ StoreProposal(p) \/ RefuseCandidate(p)
          \/ CommitResult(p) \/ Collide(p) \/ Abort(p) \/ Crash(p)
          \/ \E c \in Captures : CaptureSource(p, c)
          \/ CollectResult(p) \/ CollectHandoff(p)
          \/ \E a \in Attempts :
                \/ StartAttempt(p, a)
                \/ \E o \in Outcomes, c \in Captures \cup {None} : CompleteAttempt(p, a, o, c)

Spec == Init /\ [][Next]_vars

-----------------------------------------------------------------------------
(* Properties                                                               *)

(* reconstruct_attempts never raises: whatever operators race, an attempt  *)
(* starts once, ends at most once and never before it started.             *)
LedgerReads ==
    \A a \in Attempts :
        /\ Cardinality(Events("start", a)) <= 1
        /\ Cardinality(Events("complete", a)) <= 1
        /\ \A i \in Events("complete", a) : \E j \in Events("start", a) : j < i

(* A completed Run's result still agrees with the ledger and the captures  *)
(* it was checked against: no attempt appeared, ended or got another       *)
(* outcome after the checks, and what an attempt captured is in it.        *)
ResultMatchesLedger ==
    status = "COMPLETED" =>
        /\ EveryAttemptEnded
        /\ result.trace = AttemptIndex
        /\ result.captures \subseteq captured
        /\ \A a \in result.trace :
              Outcome(a).outcome = "source_captured" => Outcome(a).capture \in result.captures
        /\ result.claim \in {"covered", "silent"} => Got("source_captured")

(* As long as its State is current, the candidate of a completed Run is    *)
(* that of the result which completed it and was not rejected, though the  *)
(* two commit in different databases and a collection may die between them *)
(* and be repeated with another result.                                    *)
ProposalOfResult ==
    status = "COMPLETED" /\ ~moved /\ result.claim # "rejected" => proposal = result
=============================================================================
