----------------------------- MODULE HumanDecision -----------------------------
(***************************************************************************)
(* The Human Decision Gate (core/decision) over its operational store and  *)
(* the authoritative Research State, which are two databases: a response   *)
(* is claimed in one, committed in the other, finalized in the first.      *)
(* Several processes may resolve at once, any of them may die between two  *)
(* steps, and the same structured response may be submitted again.         *)
(*                                                                         *)
(* Research State appears here by what ResearchState establishes for it: a *)
(* HEAD that every commit moves, compared inside the commit transaction,   *)
(* and one commit per idempotency key.  The binding of a request (HEAD,    *)
(* Project Config, Effective Profile Set) is one number, base.             *)
(***************************************************************************)
EXTENDS Naturals, FiniteSets

CONSTANTS
    Requests,     \* candidates whose actions require Human Decisions
    Responses,    \* structured responses: id, req, disposition, bound
    Refused,      \* requests whose approval is refused for good: no transition
                  \* can be made of it, or validation rejects that on its own state
    Processes,
    MaxHead,      \* bound: commits by anyone
    MaxFaults,    \* bound: crashes and transient persistence failures
    NoResponse

(* What _validate_response_envelope lets through; bound says whether the   *)
(* actor is the human the request names.                                   *)
ResponseEnvelope(x) ==
    /\ x.req \in Requests
    /\ x.disposition \in {"approve_exact", "decline", "request_revision"}
    /\ x.bound \in BOOLEAN

ResponseAssumption == \A x \in Responses : ResponseEnvelope(x)
BoundAssumption == MaxHead \in Nat /\ MaxFaults \in Nat
NoResponseAssumption == NoResponse \notin Responses

VARIABLES
    rows,      \* decision_requests: status, base, claim, committed
    outcome,   \* decision_responses: what each stored response came to
    head,      \* current HEAD of the authoritative state
    commits,   \* its commit records: req (the idempotency key), resp, base
    pc, job,   \* where each process stands in resolve, and with what response
    verdict,   \* the terminal status it is about to write
    answer,    \* what its last resolve returned
    faults

store == <<rows, outcome>>
authority == <<head, commits>>
vars == <<store, authority, pc, job, verdict, answer, faults>>

Terminal == {"RESOLVED", "DECLINED", "REVISION_REQUESTED", "STALE"}

Absent == [status |-> "ABSENT", base |-> 0, claim |-> NoResponse, committed |-> FALSE]

Init ==
    /\ rows = [q \in Requests |-> Absent]
    /\ outcome = [x \in Responses |-> "none"]
    /\ head = 0
    /\ commits = {}
    /\ pc = [p \in Processes |-> "idle"]
    /\ job = [p \in Processes |-> NoResponse]
    /\ verdict = [p \in Processes |-> "none"]
    /\ answer = [p \in Processes |-> "none"]
    /\ faults = 0

Row(p) == rows[job[p].req]

Goto(p, step) == pc' = [pc EXCEPT ![p] = step]

Return(p, result) ==
    /\ Goto(p, "done")
    /\ answer' = [answer EXCEPT ![p] = result]
    /\ UNCHANGED <<job, verdict, faults>>

Proceed(p, step) == Goto(p, step) /\ UNCHANGED <<job, verdict, answer, faults>>

Decide(p, status) ==
    /\ Goto(p, "finalize")
    /\ verdict' = [verdict EXCEPT ![p] = status]
    /\ UNCHANGED <<job, answer, faults>>

-----------------------------------------------------------------------------
(* The world around a resolution                                            *)

(* gate_candidate: the request is bound to the state it was derived from,  *)
(* which may have moved by the time put_request inserts the row.           *)
Gate(q) ==
    /\ rows[q].status = "ABSENT"
    /\ \E b \in 0..head :
          rows' = [rows EXCEPT ![q] = [Absent EXCEPT !.status = "PENDING", !.base = b]]
    /\ UNCHANGED <<outcome, authority, pc, job, verdict, answer, faults>>

(* Any other accepted transition, for instance one needing no Decision.    *)
OtherCommit ==
    /\ head < MaxHead
    /\ head' = head + 1
    /\ UNCHANGED <<store, commits, pc, job, verdict, answer, faults>>

Submit(p, x) ==
    /\ pc[p] = "idle"
    /\ rows[x.req].status # "ABSENT"
    /\ Goto(p, "read")
    /\ job' = [job EXCEPT ![p] = x]
    /\ UNCHANGED <<store, authority, verdict, answer, faults>>

Leave(p) ==
    /\ Goto(p, "idle")
    /\ job' = [job EXCEPT ![p] = NoResponse]
    /\ verdict' = [verdict EXCEPT ![p] = "none"]
    /\ answer' = [answer EXCEPT ![p] = "none"]
    /\ UNCHANGED <<store, authority>>

Finish(p) == pc[p] = "done" /\ Leave(p) /\ UNCHANGED faults

Crash(p) ==
    /\ pc[p] \notin {"idle", "done"}
    /\ faults < MaxFaults
    /\ faults' = faults + 1
    /\ Leave(p)

-----------------------------------------------------------------------------
(* resolve                                                                  *)

Committed(q) == {k \in commits : k.req = q}

Mine(p) == Row(p).claim = job[p]

(* _verify_committed_resolution compares the stored receipt with the       *)
(* commit the same response reconstructs.                                  *)
ReadTerminal(p) ==
    /\ pc[p] = "read"
    /\ Row(p).status \in Terminal
    /\ Return(p, IF ~Mine(p) THEN "DECISION-TERMINAL-001"
                 ELSE IF Row(p).status = "RESOLVED"
                         /\ ~\E k \in Committed(job[p].req) : k.resp = job[p]
                      THEN "DECISION-STATE-MISMATCH-001"
                      ELSE Row(p).status)
    /\ UNCHANGED <<store, authority>>

ReadForeign(p) ==
    /\ pc[p] = "read"
    /\ Row(p).status \in {"PENDING", "RESOLVING"}
    /\ ~job[p].bound
    /\ outcome' = [outcome EXCEPT ![job[p]] = "REJECTED"]
    /\ Return(p, "DECISION-ACTOR-001")
    /\ UNCHANGED <<rows, authority>>

(* Seeded fault: any response to a claimed request is taken up.            *)
ReadResolvingUnowned(p) ==
    /\ pc[p] = "read"
    /\ Row(p).status = "RESOLVING"
    /\ job[p].bound
    /\ Proceed(p, "claimed")
    /\ UNCHANGED <<store, authority>>

(* Seeded fault: a claimed request accepts no further response.             *)
ReadResolvingClosed(p) ==
    /\ pc[p] = "read"
    /\ Row(p).status = "RESOLVING"
    /\ job[p].bound
    /\ Return(p, "DECISION-RACE-001")
    /\ UNCHANGED <<store, authority>>

ReadResolving(p) ==
    /\ pc[p] = "read"
    /\ Row(p).status = "RESOLVING"
    /\ job[p].bound
    /\ IF Mine(p) THEN Proceed(p, "claimed") ELSE Return(p, "DECISION-RACE-001")
    /\ UNCHANGED <<store, authority>>

ReadPending(p) ==
    /\ pc[p] = "read"
    /\ Row(p).status = "PENDING"
    /\ job[p].bound
    /\ Proceed(p, "load")
    /\ UNCHANGED <<store, authority>>

(* _load_bound_state and _stale_reason.                                    *)
LoadBoundState(p) ==
    /\ pc[p] = "load"
    /\ Proceed(p, IF Row(p).base = head THEN "claim" ELSE "claimStale")
    /\ UNCHANGED <<store, authority>>

Claimable(p) == Row(p).status = "PENDING"

(* claim_response, one transaction: the first response owns the request,   *)
(* the same one may come back, any other is refused.                       *)
Claim(p) ==
    /\ pc[p] \in {"claim", "claimStale"}
    /\ \/ /\ Claimable(p)
          /\ rows' = [rows EXCEPT ![job[p].req].status = "RESOLVING",
                                  ![job[p].req].claim = job[p]]
          /\ outcome' = [outcome EXCEPT ![job[p]] = "CLAIMED"]
          /\ IF pc[p] = "claim" THEN Proceed(p, "claimed") ELSE Decide(p, "STALE")
       \/ /\ ~Claimable(p)
          /\ Row(p).status = "RESOLVING" /\ Mine(p)
          /\ IF pc[p] = "claim" THEN Proceed(p, "claimed") ELSE Decide(p, "STALE")
          /\ UNCHANGED store
       \/ /\ ~Claimable(p)
          /\ ~(Row(p).status = "RESOLVING" /\ Mine(p))
          /\ Return(p, "DECISION-RACE-001")
          /\ UNCHANGED store
    /\ UNCHANGED authority

(* _resolve_claimed: only an exact approval touches Research State.  One   *)
(* that cannot be bound raises, and the request stays RESOLVING.           *)
Dispose(p) ==
    /\ pc[p] = "claimed"
    /\ CASE job[p].disposition = "decline" -> Decide(p, "DECLINED")
         [] job[p].disposition = "request_revision" -> Decide(p, "REVISION_REQUESTED")
         [] job[p].disposition = "approve_exact" ->
              \/ Proceed(p, "lookup")
              \/ job[p].req \in Refused /\ Return(p, "DECISION-BINDING-001")
    /\ UNCHANGED <<store, authority>>

-----------------------------------------------------------------------------
(* StateTransitionService.apply of the reconstructed request                *)

Lookup(p) ==
    /\ pc[p] = "lookup"
    /\ IF \E k \in Committed(job[p].req) : k.resp = job[p]
       THEN Decide(p, "RESOLVED") ELSE Proceed(p, "validate")
    /\ UNCHANGED <<store, authority>>

(* All issues are collected: a stale binding shows beside any other, which *)
(* alone leaves the request RESOLVING.                                     *)
Validate(p) ==
    /\ pc[p] = "validate"
    /\ \/ Row(p).base # head /\ Decide(p, "STALE")
       \/ /\ Row(p).base = head /\ job[p].req \in Refused
          /\ Return(p, "COMMIT_REJECTED")
       \/ /\ Row(p).base = head /\ job[p].req \notin Refused
          /\ Proceed(p, "commit")
    /\ UNCHANGED <<store, authority>>

Commit(p) ==
    /\ pc[p] = "commit"
    /\ \/ /\ Committed(job[p].req) # {}
          /\ Decide(p, "RESOLVED")
          /\ UNCHANGED authority
       \/ /\ Committed(job[p].req) = {} /\ Row(p).base = head
          /\ head' = head + 1
          /\ commits' = commits \cup {[req |-> job[p].req, resp |-> job[p], base |-> head]}
          /\ Decide(p, "RESOLVED")
       \/ /\ Committed(job[p].req) = {} /\ Row(p).base # head
          /\ Decide(p, "STALE")
          /\ UNCHANGED authority
    /\ UNCHANGED store

(* A transient persistence failure: the request stays RESOLVING.           *)
CommitFails(p) ==
    /\ pc[p] = "commit"
    /\ faults < MaxFaults
    /\ faults' = faults + 1
    /\ Goto(p, "done")
    /\ answer' = [answer EXCEPT ![p] = "COMMIT_REJECTED"]
    /\ UNCHANGED <<store, authority, job, verdict>>

-----------------------------------------------------------------------------
(* finalize                                                                 *)

(* Seeded fault: the terminal update is not conditional on the claim.      *)
UnconditionalFinalize(p) == TRUE

Owned(p) == Row(p).status = "RESOLVING" /\ Mine(p)

Finalize(p) ==
    /\ pc[p] = "finalize"
    /\ \/ /\ Row(p).status = verdict[p]
          /\ Return(p, IF Mine(p) THEN verdict[p] ELSE "ValueError")
          /\ UNCHANGED store
       \/ /\ Row(p).status # verdict[p] /\ Owned(p)
          /\ rows' = [rows EXCEPT ![job[p].req].status = verdict[p],
                                  ![job[p].req].committed = (verdict[p] = "RESOLVED")]
          /\ outcome' = [outcome EXCEPT ![job[p]] = verdict[p]]
          /\ Return(p, verdict[p])
       \/ /\ Row(p).status # verdict[p] /\ ~Owned(p)
          /\ Return(p, "ValueError")
          /\ UNCHANGED store
    /\ UNCHANGED authority

Step(p) ==
    \/ ReadTerminal(p) \/ ReadForeign(p) \/ ReadResolving(p) \/ ReadPending(p)
    \/ LoadBoundState(p) \/ Claim(p) \/ Dispose(p)
    \/ Lookup(p) \/ Validate(p) \/ Commit(p) \/ Finalize(p)
    \/ Finish(p)

Next ==
    \/ \E q \in Requests : Gate(q)
    \/ OtherCommit
    \/ \E p \in Processes : \E x \in Responses : Submit(p, x)
    \/ \E p \in Processes : Step(p)
    \/ \E p \in Processes : CommitFails(p)
    \/ \E p \in Processes : Crash(p)

Spec == Init /\ [][Next]_vars

(* A process in a call keeps running unless it dies, and the response that *)
(* owns a request is submitted again, by somebody, until it is terminal.   *)
Retry(q) == /\ rows[q].status = "RESOLVING"
            /\ \E p \in Processes, x \in Responses : x = rows[q].claim /\ Submit(p, x)

FairSpec == /\ Spec
            /\ \A p \in Processes : WF_vars(Step(p))
            /\ \A q \in Requests : SF_vars(Retry(q))

-----------------------------------------------------------------------------
(* Properties                                                               *)

Steps == {"idle", "read", "load", "claim", "claimStale", "claimed",
          "lookup", "validate", "commit", "finalize", "done"}

RequestRows == [status : Terminal \cup {"ABSENT", "PENDING", "RESOLVING"}, base : Nat,
                claim : Responses \cup {NoResponse}, committed : BOOLEAN]

(* Every variable has the shape of the rows and calls it stands for.       *)
TypeOK ==
    /\ rows \in [Requests -> RequestRows]
    /\ outcome \in [Responses -> Terminal \cup {"none", "REJECTED", "CLAIMED"}]
    /\ head \in Nat
    /\ pc \in [Processes -> Steps]
    /\ job \in [Processes -> Responses \cup {NoResponse}]
    /\ \A p \in Processes : pc[p] # "idle" => job[p] # NoResponse
    /\ verdict \in [Processes -> Terminal \cup {"none"}]

(* "Concurrent approve/decline responses cannot both own the same          *)
(* request": every commit was made for the one response that owns its      *)
(* request, an approval by the bound human, on the state the request was   *)
(* bound to; and a request is committed once.                              *)
CommittedByOwner ==
    \A k \in commits :
        /\ rows[k.req].claim = k.resp
        /\ k.resp.bound /\ k.resp.disposition = "approve_exact"
        /\ k.base = rows[k.req].base
        /\ \A j \in commits : j.req = k.req => j = k

(* What the operational store reports agrees with the authority: RESOLVED  *)
(* only with the commit there, a refusal only without one.                 *)
ReportsAgree ==
    \A q \in Requests :
        /\ rows[q].status = "RESOLVED" => Committed(q) # {}
        /\ rows[q].status \in {"DECLINED", "REVISION_REQUESTED"} => Committed(q) = {}
        /\ rows[q].committed <=> rows[q].status = "RESOLVED"

(* One response owns a request, every commit was made for the owner on the *)
(* state it was bound to, and the store reports what the authority has.    *)
CommitsAreOwned == TypeOK /\ CommittedByOwner /\ ReportsAgree

(* Who answers first decides for good: a terminal request never changes    *)
(* and an owned one never changes owner.                                   *)
AnswersAreFinal ==
    \A q \in Requests :
        /\ rows[q].status \in Terminal => rows'[q] = rows[q]
        /\ rows[q].claim # NoResponse => rows'[q].claim = rows[q].claim

(* An approval that is rejected alike however often it is submitted: the   *)
(* request remains RESOLVING for its owner, and any other answer is        *)
(* refused as a rival.                                                     *)
RejectedAlike(q) ==
    /\ q \in Refused
    /\ rows[q].claim # NoResponse /\ rows[q].claim.disposition = "approve_exact"

(* A claimed request is eventually terminal: a crash after the claim or    *)
(* after the commit is recovered by submitting the same response again.    *)
(* Only an approval that is rejected alike is not settled.                 *)
ClaimsAreSettled ==
    \A q \in Requests :
        rows[q].status = "RESOLVING" ~> rows[q].status \in Terminal \/ RejectedAlike(q)

=============================================================================
