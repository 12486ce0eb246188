------------------------------- MODULE HumanSay -------------------------------
(***************************************************************************)
(* Where a human has a say: candidates that ask for a Decision, and        *)
(* actions of a conversation that ask for a Confirmation.  The two are     *)
(* answered by the same processes and share no state: a behaviour picks    *)
(* one and the other stands still.  The theorems about either are proved   *)
(* of it alone and then of the two together.                               *)
(***************************************************************************)
EXTENDS Naturals, Sequences, FiniteSets, FiniteSetTheorems, TLAPS

CONSTANTS
    Processes,
    Requests, Responses, Refused, MaxHead, MaxFaults, NoResponse,
    Inputs, MaxActions, MaxMade, MaxCrashes, NoInput

VARIABLES
    service,
    rows, outcome, head, commits, pc, job, verdict, answer, faults,
    proposals, requests, expired, receipts, correlated, made, effects, runs, actPc, act,
    seen, result, crashes

Gate == INSTANCE HumanDecision

Conversation == INSTANCE WorkConversation
    WITH MaxHead <- MaxMade, head <- made, commits <- effects, pc <- actPc, job <- act

gateVars == <<rows, outcome, head, commits, pc, job, verdict, answer, faults>>
actionVars == <<proposals, requests, expired, receipts, correlated, made, effects, runs,
                actPc, act, seen, result, crashes>>

Init ==
    /\ service \in {"decisions", "actions"}
    /\ Gate!Init /\ Conversation!Init

Next ==
    /\ UNCHANGED service
    /\ \/ service = "decisions" /\ Gate!Next /\ UNCHANGED actionVars
       \/ service = "actions" /\ Conversation!Next /\ UNCHANGED gateVars

(* A process in a call keeps running unless it dies, and the response that *)
(* owns a request is submitted again, by somebody, until it is terminal.   *)
Spec ==
    /\ Init /\ [][Next]_<<service, gateVars, actionVars>>
    /\ \A p \in Processes : WF_gateVars(service = "decisions" /\ Gate!Step(p))
    /\ \A q \in Requests : SF_gateVars(service = "decisions" /\ Gate!Retry(q))

(* One response owns a request, every commit was made for the owner on the *)
(* state it was bound to, and the store reports what the authority has.    *)
CommitsAreOwned == Gate!CommitsAreOwned

(* A claimed request becomes terminal, by the same response again if need  *)
(* be, unless it is an approval that is rejected alike each time.          *)
ClaimsAreSettled == Gate!ClaimsAreSettled

(* However many confirmations of it race, an action has one effect at      *)
(* most, with the Confirmation its mode asks for and on the state it was   *)
(* bound to.                                                               *)
EffectsAuthorized == Conversation!EffectsAuthorized

(* A receipt says what happened to the state.                              *)
ReceiptsTellTruth == Conversation!ReceiptsTellTruth

(* Who answers first decides for good: a claim keeps its owner, and what   *)
(* was decided, consumed, cancelled or completed stays so.                 *)
AnswersAreFinal ==
    [][Gate!AnswersAreFinal /\ Conversation!AnswersAreFinal]_<<gateVars, actionVars>>

-----------------------------------------------------------------------------
(* A request that was claimed has an owner among its own responses, whose  *)
(* disposition is what it may be refused by.                               *)
RowsOwned ==
    \A q \in Requests :
        /\ rows[q].status \in {"ABSENT", "PENDING"} => rows[q].claim = NoResponse
        /\ rows[q].status \in Gate!Terminal \cup {"RESOLVING"} =>
              rows[q].claim \in Responses /\ rows[q].claim.req = q
        /\ rows[q].status = "DECLINED" => rows[q].claim.disposition = "decline"
        /\ rows[q].status = "REVISION_REQUESTED" =>
              rows[q].claim.disposition = "request_revision"

(* A commit is one of a response to its request.                           *)
CommitsTyped == \A k \in commits : k.resp \in Responses /\ k.req = k.resp.req

Holding == {"claimed", "lookup", "validate", "commit", "finalize"}

(* A process that claimed for its response goes on as the owner, and what  *)
(* it is about to write agrees with what was answered and committed.       *)
OwnSteps(p) ==
    /\ pc[p] \in {"load", "claim", "claimStale"} \cup Holding =>
          job[p].bound /\ Gate!Row(p).status # "ABSENT"
    /\ pc[p] = "read" => Gate!Row(p).status # "ABSENT"
    /\ pc[p] \in Holding => Gate!Mine(p)
    /\ pc[p] \in {"lookup", "validate", "commit"} =>
          job[p].disposition = "approve_exact"
    /\ pc[p] = "finalize" =>
          /\ verdict[p] \in Gate!Terminal
          /\ verdict[p] = "RESOLVED" => Gate!Committed(job[p].req) # {}
          /\ verdict[p] = "DECLINED" => job[p].disposition = "decline"
          /\ verdict[p] = "REVISION_REQUESTED" =>
                job[p].disposition = "request_revision"

ProcessesOwn == \A p \in Processes : OwnSteps(p)

OwnInv == Gate!CommitsAreOwned /\ RowsOwned /\ CommitsTyped /\ ProcessesOwn

LEMMA OwnInit ==
    ASSUME Gate!ResponseAssumption, Gate!NoResponseAssumption PROVE Gate!Init => OwnInv
<1> SUFFICES ASSUME Gate!Init PROVE OwnInv
  OBVIOUS
<1>1. Gate!CommitsAreOwned
  BY DEF Gate!Init, Gate!Absent, Gate!CommitsAreOwned, Gate!TypeOK, Gate!CommittedByOwner,
     Gate!ReportsAgree, Gate!Steps,
       Gate!RequestRows
<1>2. RowsOwned /\ CommitsTyped /\ ProcessesOwn
  BY DEF Gate!Init, Gate!Absent, RowsOwned, CommitsTyped, ProcessesOwn, OwnSteps,
     Gate!Terminal, Holding
<1> QED BY <1>1, <1>2 DEF OwnInv

(* A process in a call holds a response, and that belongs to a request.    *)
LEMMA JobHeld ==
    ASSUME Gate!ResponseAssumption, Gate!TypeOK, NEW p \in Processes, pc[p] # "idle"
    PROVE  job[p] \in Responses /\ job[p].req \in Requests
BY DEF Gate!ResponseAssumption, Gate!ResponseEnvelope, Gate!TypeOK

(* A step of one process that writes neither database.                     *)
LEMMA OwnLocal ==
    ASSUME OwnInv, UNCHANGED <<rows, commits>>, NEW p \in Processes,
           Gate!TypeOK', OwnSteps(p)',
           \A d \in Processes \ {p} : UNCHANGED <<pc[d], job[d], verdict[d]>>
    PROVE  OwnInv'
<1>1. Gate!CommittedByOwner' /\ Gate!ReportsAgree'
  BY DEF OwnInv, Gate!CommitsAreOwned, Gate!CommittedByOwner, Gate!ReportsAgree, Gate!Committed
<1>2. RowsOwned' /\ CommitsTyped'
  BY DEF OwnInv, RowsOwned, CommitsTyped
<1>3. \A d \in Processes \ {p} : OwnSteps(d)'
  BY DEF OwnInv, ProcessesOwn, OwnSteps, Gate!Row, Gate!Mine, Gate!Committed
<1> QED BY <1>1, <1>2, <1>3 DEF OwnInv, Gate!CommitsAreOwned, ProcessesOwn

(* The steps of resolve that only read.                                    *)
LEMMA OwnReads ==
    ASSUME Gate!ResponseAssumption, Gate!NoResponseAssumption, OwnInv, NEW p \in Processes,
           \/ Gate!ReadTerminal(p) \/ Gate!ReadForeign(p) \/ Gate!ReadResolving(p)
                \/ Gate!ReadPending(p)
           \/ Gate!LoadBoundState(p) \/ Gate!Dispose(p) \/ Gate!Lookup(p) \/ Gate!Validate(p)
    PROVE  OwnInv'
<1> USE DEF Gate!Proceed, Gate!Return, Gate!Decide, Gate!Goto, Gate!store, Gate!authority
<1>1. job[p] \in Responses /\ job[p].req \in Requests /\ UNCHANGED <<rows, commits, job, head>>
      /\ job[p].disposition \in {"approve_exact", "decline", "request_revision"}
  BY JobHeld DEF OwnInv, Gate!CommitsAreOwned, Gate!ReadTerminal, Gate!ReadForeign,
     Gate!ReadResolving, Gate!ReadPending,
       Gate!LoadBoundState, Gate!Dispose, Gate!Lookup, Gate!Validate, Gate!ResponseAssumption,
       Gate!ResponseEnvelope
<1>2. \A d \in Processes \ {p} : UNCHANGED <<pc[d], job[d], verdict[d]>>
  <2> USE <1>1 DEF OwnInv, Gate!CommitsAreOwned, Gate!TypeOK
  <2>1. CASE Gate!ReadTerminal(p)
    BY <2>1 DEF Gate!ReadTerminal
  <2>2. CASE Gate!ReadForeign(p)
    BY <2>2 DEF Gate!ReadForeign
  <2>3. CASE Gate!ReadResolving(p)
    BY <2>3 DEF Gate!ReadResolving
  <2>4. CASE Gate!ReadPending(p)
    BY <2>4 DEF Gate!ReadPending
  <2>5. CASE Gate!LoadBoundState(p)
    BY <2>5 DEF Gate!LoadBoundState
  <2>6. CASE Gate!Dispose(p)
    BY <2>6 DEF Gate!Dispose
  <2>7. CASE Gate!Lookup(p)
    BY <2>7 DEF Gate!Lookup
  <2>8. CASE Gate!Validate(p)
    BY <2>8 DEF Gate!Validate
  <2> QED BY <2>1, <2>2, <2>3, <2>4, <2>5, <2>6, <2>7, <2>8
<1>3. Gate!TypeOK'
  BY <1>1, ZenonT(40)
  DEF OwnInv, Gate!CommitsAreOwned, Gate!TypeOK, Gate!ReadTerminal, Gate!ReadForeign,
       Gate!ReadResolving, Gate!ReadPending, Gate!LoadBoundState, Gate!Dispose, Gate!Lookup, Gate!Validate,
       Gate!Terminal, Gate!Steps
<1>4. OwnSteps(p)'
  <2> USE <1>1 DEF OwnInv, Gate!CommitsAreOwned, Gate!TypeOK, ProcessesOwn, OwnSteps, Gate!Row,
     Gate!Mine,
                   Gate!Committed, Holding
  <2>1. CASE Gate!ReadTerminal(p)
    BY <2>1 DEF Gate!ReadTerminal
  <2>2. CASE Gate!ReadForeign(p)
    BY <2>2 DEF Gate!ReadForeign
  <2>3. CASE Gate!ReadResolving(p)
    BY <2>3 DEF Gate!ReadResolving
  <2>4. CASE Gate!ReadPending(p)
    BY <2>4 DEF Gate!ReadPending
  <2>5. CASE Gate!LoadBoundState(p)
    BY <2>5 DEF Gate!LoadBoundState
  <2>6. CASE Gate!Dispose(p)
    <3>1. CASE job[p].disposition = "decline"
      BY <2>6, <3>1 DEF Gate!Dispose, Gate!Terminal
    <3>2. CASE job[p].disposition = "request_revision"
      BY <2>6, <3>2 DEF Gate!Dispose, Gate!Terminal
    <3>3. CASE job[p].disposition = "approve_exact"
      BY <2>6, <3>3 DEF Gate!Dispose
    <3> QED BY <3>1, <3>2, <3>3
  <2>7. CASE Gate!Lookup(p)
    BY <2>7 DEF Gate!Lookup, Gate!Terminal
  <2>8. CASE Gate!Validate(p)
    BY <2>8 DEF Gate!Validate, Gate!Terminal
  <2> QED BY <2>1, <2>2, <2>3, <2>4, <2>5, <2>6, <2>7, <2>8
<1> QED BY <1>1, <1>2, <1>3, <1>4, OwnLocal

(* gate_candidate: no process works on a request that has no row.          *)
LEMMA OwnGate ==
    ASSUME Gate!ResponseAssumption, Gate!NoResponseAssumption, OwnInv, NEW q \in Requests,
           Gate!Gate(q)
    PROVE  OwnInv'
<1>1. PICK b \in 0..head :
        rows' = [rows EXCEPT ![q] = [Gate!Absent EXCEPT !.status = "PENDING", !.base = b]]
  BY DEF Gate!Gate
<1>2. /\ rows[q].status = "ABSENT" /\ Gate!TypeOK
      /\ UNCHANGED <<outcome, head, commits, pc, job, verdict>>
  BY DEF Gate!Gate, Gate!authority, OwnInv, Gate!CommitsAreOwned
<1>3. rows'[q] = [status |-> "PENDING", base |-> b, claim |-> NoResponse, committed |-> FALSE]
  BY <1>1, <1>2 DEF Gate!Absent, Gate!TypeOK
<1>4. rows' = [rows EXCEPT ![q] = rows'[q]] /\ \A r \in Requests \ {q} : rows'[r] = rows[r]
  BY <1>1, <1>2 DEF Gate!TypeOK
<1>5. rows[q].claim = NoResponse /\ b \in Nat
  BY <1>2 DEF OwnInv, RowsOwned, Gate!TypeOK
<1>6. Gate!Committed(q) = {} /\ \A k \in commits : k.req \in Requests \ {q}
  <2>1. ASSUME NEW k \in commits PROVE k.req \in Requests /\ k.req # q
    BY <1>5 DEF OwnInv, Gate!CommitsAreOwned, Gate!CommittedByOwner, CommitsTyped,
                Gate!ResponseAssumption, Gate!ResponseEnvelope, Gate!NoResponseAssumption
  <2> QED BY <2>1 DEF Gate!Committed
<1>7. Gate!TypeOK'
  <2>1. rows'[q] \in Gate!RequestRows
    BY <1>3, <1>5 DEF Gate!RequestRows
  <2> QED BY <1>2, <1>4, <2>1 DEF Gate!TypeOK
<1>8. Gate!CommittedByOwner' /\ CommitsTyped'
  BY <1>2, <1>4, <1>6 DEF OwnInv, Gate!CommitsAreOwned, Gate!CommittedByOwner, CommitsTyped
<1>9. Gate!ReportsAgree' /\ RowsOwned'
  <2>1. UNCHANGED Gate!Committed(q) /\ \A r \in Requests : Gate!Committed(r)' = Gate!Committed(r)
    BY <1>2 DEF Gate!Committed
  <2>2. ASSUME NEW r \in Requests \ {q}
        PROVE  rows'[r] = rows[r] /\ Gate!Committed(r)' = Gate!Committed(r)
    BY <1>4, <2>1
  <2>3. /\ rows'[q].status = "PENDING" /\ rows'[q].claim = NoResponse
        /\ rows'[q].committed = FALSE
    BY <1>3
  <2>4. Gate!ReportsAgree'
    BY <2>2, <2>3 DEF OwnInv, Gate!CommitsAreOwned, Gate!ReportsAgree
  <2> QED BY <2>2, <2>3, <2>4 DEF OwnInv, RowsOwned, Gate!Terminal
<1>10. ASSUME NEW p \in Processes PROVE OwnSteps(p)'
  <2>1. CASE pc[p] \in {"idle", "done"}
    BY <1>2, <2>1 DEF OwnSteps, Holding
  <2>2. CASE pc[p] \notin {"idle", "done"}
    <3>1. job[p] \in Responses /\ job[p].req \in Requests
      BY <1>2, <2>2, JobHeld
    <3>2. Gate!Row(p).status # "ABSENT"
      BY <1>2, <2>2 DEF OwnInv, ProcessesOwn, OwnSteps, Holding, Gate!Steps, Gate!TypeOK
    <3>3. UNCHANGED <<Gate!Row(p), Gate!Mine(p), Gate!Committed(job[p].req)>>
      BY <1>2, <3>1, <3>2, <1>4 DEF Gate!Row, Gate!Mine, Gate!Committed
    <3> QED BY <1>2, <3>3 DEF OwnInv, ProcessesOwn, OwnSteps
  <2> QED BY <2>1, <2>2
<1> QED BY <1>7, <1>8, <1>9, <1>10 DEF OwnInv, Gate!CommitsAreOwned, ProcessesOwn

(* Someone starts a call, and someone returns from one or dies.            *)
LEMMA OwnCalls ==
    ASSUME Gate!ResponseAssumption, Gate!NoResponseAssumption, OwnInv, NEW p \in Processes,
           (\E x \in Responses : Gate!Submit(p, x)) \/ Gate!Finish(p) \/ Gate!Crash(p)
               \/ Gate!CommitFails(p)
    PROVE  OwnInv'
<1> USE DEF Gate!Goto, Gate!Leave, Gate!store, Gate!authority, OwnInv, Gate!CommitsAreOwned,
   Gate!TypeOK
<1>1. CASE \E x \in Responses : Gate!Submit(p, x)
  <2>1. PICK x \in Responses : Gate!Submit(p, x)
    BY <1>1
  <2>2. x.req \in Requests
    BY DEF Gate!ResponseAssumption, Gate!ResponseEnvelope
  <2>3. Gate!TypeOK'
    BY <2>1, Gate!NoResponseAssumption DEF Gate!Submit, Gate!NoResponseAssumption, Gate!Steps
  <2>4. OwnSteps(p)'
    BY <2>1, <2>2 DEF Gate!Submit, OwnSteps, Gate!Row, Holding
  <2> QED BY <2>1, <2>3, <2>4, OwnLocal DEF Gate!Submit
<1>2. CASE Gate!Finish(p) \/ Gate!Crash(p)
  <2>1. Gate!TypeOK'
    BY <1>2 DEF Gate!Finish, Gate!Crash, Gate!Steps
  <2>2. OwnSteps(p)'
    BY <1>2 DEF Gate!Finish, Gate!Crash, OwnSteps, Holding
  <2> QED BY <1>2, <2>1, <2>2, OwnLocal DEF Gate!Finish, Gate!Crash
<1>3. CASE Gate!CommitFails(p)
  <2>1. Gate!TypeOK'
    BY <1>3 DEF Gate!CommitFails, Gate!Steps
  <2>2. OwnSteps(p)'
    BY <1>3 DEF Gate!CommitFails, OwnSteps, Holding
  <2> QED BY <1>3, <2>1, <2>2, OwnLocal DEF Gate!CommitFails
<1> QED BY <1>1, <1>2, <1>3

(* A step of one process at its own request moves no other process: those  *)
(* at the same request hold the response that owns it, or none does.       *)
LEMMA OwnOthers ==
    ASSUME OwnInv, NEW p \in Processes, NEW d \in Processes \ {p},
           UNCHANGED <<pc[d], job[d], verdict[d]>>,
           NEW q \in Requests,
           \A r \in Requests \ {q} : rows'[r] = rows[r] /\ Gate!Committed(r)' = Gate!Committed(r),
           rows[q].status # "ABSENT" => rows'[q].status # "ABSENT",
           Gate!Committed(q) # {} => Gate!Committed(q)' # {},
           rows[q].claim \in Responses => rows'[q].claim = rows[q].claim,
           Gate!ResponseAssumption, Gate!NoResponseAssumption
    PROVE  OwnSteps(d)'
<1>1. CASE pc[d] = "idle"
  BY <1>1 DEF OwnSteps, Holding
<1>2. CASE pc[d] # "idle" /\ job[d].req # q
  <2>1. job[d] \in Responses /\ job[d].req \in Requests \ {q}
    BY <1>2, JobHeld DEF OwnInv, Gate!CommitsAreOwned
  <2> QED BY <2>1 DEF OwnInv, ProcessesOwn, OwnSteps, Gate!Row, Gate!Mine
<1>3. CASE pc[d] # "idle" /\ job[d].req = q
  <2>1. job[d] \in Responses
    BY <1>3, JobHeld DEF OwnInv, Gate!CommitsAreOwned
  <2> QED BY <1>3, <2>1 DEF OwnInv, ProcessesOwn, OwnSteps, Gate!Row, Gate!Mine, Holding
<1> QED BY <1>1, <1>2, <1>3

(* claim_response.                                                         *)
LEMMA OwnClaim ==
    ASSUME Gate!ResponseAssumption, Gate!NoResponseAssumption, OwnInv, NEW p \in Processes,
           Gate!Claim(p)
    PROVE  OwnInv'
<1> DEFINE x == job[p]
           q == x.req
<1>1. x \in Responses /\ q \in Requests /\ x.bound /\ rows[q].status # "ABSENT"
      /\ pc[p] \in {"claim", "claimStale"} /\ Gate!TypeOK
  BY JobHeld DEF Gate!Claim, OwnInv, Gate!CommitsAreOwned, ProcessesOwn, OwnSteps, Gate!Row
<1>2. UNCHANGED <<head, commits, job>>
  BY DEF Gate!Claim, Gate!Return, Gate!Proceed, Gate!Decide, Gate!authority
<1>3. \A d \in Processes \ {p} : UNCHANGED <<pc[d], job[d], verdict[d]>>
  BY <1>1 DEF Gate!Claim, Gate!Return, Gate!Proceed, Gate!Decide, Gate!Goto, Gate!TypeOK
<1>4. CASE /\ UNCHANGED Gate!store
           /\ \/ /\ rows[q].status = "RESOLVING" /\ rows[q].claim = x
                 /\ IF pc[p] = "claim" THEN Gate!Proceed(p, "claimed") ELSE Gate!Decide(p, "STALE")
              \/ Gate!Return(p, "DECISION-RACE-001")
  <2>1. Gate!TypeOK'
    BY <1>1, <1>2, <1>4 DEF Gate!Return, Gate!Proceed, Gate!Decide, Gate!Goto, Gate!TypeOK,
       Gate!Steps, Gate!Terminal, Gate!store
  <2>2. OwnSteps(p)'
    BY <1>1, <1>2, <1>4 DEF Gate!Return, Gate!Proceed, Gate!Decide, Gate!Goto, Gate!TypeOK,
       OwnSteps,
                            Gate!Terminal, Gate!store, Gate!Row, Gate!Mine, Holding
  <2> QED BY <1>2, <1>3, <1>4, <2>1, <2>2, OwnLocal DEF Gate!store
<1>5. CASE /\ rows[q].status = "PENDING"
           /\ rows' = [rows EXCEPT ![q].status = "RESOLVING", ![q].claim = x]
           /\ outcome' = [outcome EXCEPT ![x] = "CLAIMED"]
           /\ IF pc[p] = "claim" THEN Gate!Proceed(p, "claimed") ELSE Gate!Decide(p, "STALE")
  <2>1. /\ rows' = [rows EXCEPT ![q] = rows'[q]]
        /\ rows'[q] = [rows[q] EXCEPT !.status = "RESOLVING", !.claim = x]
    BY <1>1, <1>5 DEF Gate!TypeOK, Gate!RequestRows
  <2>2. /\ rows'[q].status = "RESOLVING" /\ rows'[q].claim = x
        /\ rows'[q].base = rows[q].base /\ rows'[q].committed = rows[q].committed
        /\ rows'[q] \in Gate!RequestRows
    <3>1. rows[q] \in Gate!RequestRows
      BY <1>1 DEF Gate!TypeOK
    <3> QED BY <1>1, <2>1, <3>1 DEF Gate!RequestRows
  <2>3. rows[q].claim = NoResponse /\ Gate!Committed(q) = {} /\ \A k \in commits : k.req # q
    BY <1>1, <1>5 DEF OwnInv, RowsOwned, Gate!CommitsAreOwned, Gate!CommittedByOwner,
       CommitsTyped,
                      Gate!Committed, Gate!NoResponseAssumption
  <2>4. \A r \in Requests : /\ Gate!Committed(r)' = Gate!Committed(r)
                            /\ r # q => rows'[r] = rows[r]
    BY <1>1, <1>2, <2>1 DEF Gate!Committed, Gate!TypeOK
  <2>5. Gate!TypeOK'
    <3>1. rows' \in [Requests -> Gate!RequestRows]
      BY <1>1, <2>1, <2>2 DEF Gate!TypeOK
    <3>2. outcome' \in [Responses -> Gate!Terminal \cup {"none", "REJECTED", "CLAIMED"}]
      BY <1>1, <1>5 DEF Gate!TypeOK
    <3>3. pc' \in [Processes -> Gate!Steps]
          /\ verdict' \in [Processes -> Gate!Terminal \cup {"none"}]
          /\ \A d \in Processes : pc'[d] # "idle" => job[d] # NoResponse
      BY <1>1, <1>5 DEF Gate!Proceed, Gate!Decide, Gate!Goto, Gate!TypeOK, Gate!Steps,
         Gate!Terminal
    <3> QED BY <1>1, <1>2, <3>1, <3>2, <3>3 DEF Gate!TypeOK
  <2>6. Gate!CommittedByOwner' /\ CommitsTyped'
    BY <1>2, <2>3, <2>4 DEF OwnInv, Gate!CommitsAreOwned, Gate!CommittedByOwner, CommitsTyped,
                 Gate!ResponseAssumption, Gate!ResponseEnvelope
  <2>7. Gate!ReportsAgree'
    <3>1. rows'[q].committed <=> FALSE
      BY <1>1, <1>5, <2>2 DEF OwnInv, Gate!CommitsAreOwned, Gate!ReportsAgree
    <3>2. ASSUME NEW r \in Requests \ {q}
          PROVE  rows'[r] = rows[r] /\ Gate!Committed(r)' = Gate!Committed(r)
      BY <2>4
    <3> QED BY <2>2, <3>1, <3>2 DEF OwnInv, Gate!CommitsAreOwned, Gate!ReportsAgree,
       Gate!Terminal
  <2>8. RowsOwned'
    BY <1>1, <2>2, <2>4 DEF OwnInv, RowsOwned, Gate!Terminal
  <2>9. OwnSteps(p)'
    BY <1>1, <1>2, <1>5, <2>2 DEF Gate!Proceed, Gate!Decide, Gate!Goto, Gate!TypeOK, OwnSteps,
       Gate!Row, Gate!Mine, Holding,
                                  Gate!Terminal
  <2>10. ASSUME NEW d \in Processes \ {p} PROVE OwnSteps(d)'
    BY <1>1, <1>3, <2>2, <2>3, <2>4, OwnOthers DEF Gate!NoResponseAssumption
  <2> QED BY <2>5, <2>6, <2>7, <2>8, <2>9, <2>10 DEF OwnInv, Gate!CommitsAreOwned, ProcessesOwn
<1> QED BY <1>1, <1>4, <1>5 DEF Gate!Claim, Gate!Claimable, Gate!Row, Gate!Mine

(* The commit transaction of Research State: the first commit of a request *)
(* is the owner's, on the HEAD the request is bound to.                    *)
LEMMA OwnCommit ==
    ASSUME Gate!ResponseAssumption, Gate!NoResponseAssumption, OwnInv, NEW p \in Processes,
           Gate!Commit(p)
    PROVE  OwnInv'
<1> DEFINE x == job[p]
           q == x.req
<1>1. /\ x \in Responses /\ q \in Requests /\ x.bound /\ x.disposition = "approve_exact"
      /\ rows[q].status # "ABSENT" /\ rows[q].claim = x /\ pc[p] = "commit" /\ Gate!TypeOK
  BY JobHeld DEF Gate!Commit, OwnInv, Gate!CommitsAreOwned, ProcessesOwn, OwnSteps, Gate!Row,
     Gate!Mine, Holding
<1>2. UNCHANGED <<rows, outcome, job>> /\ \E s \in {"RESOLVED", "STALE"} : Gate!Decide(p, s)
  BY DEF Gate!Commit, Gate!Decide, Gate!store
<1>3. /\ \A d \in Processes \ {p} : UNCHANGED <<pc[d], job[d], verdict[d]>>
      /\ pc'[p] = "finalize" /\ verdict'[p] \in {"RESOLVED", "STALE"}
      /\ pc' \in [Processes -> Gate!Steps]
           /\ verdict' \in [Processes -> Gate!Terminal \cup {"none"}]
      /\ \A d \in Processes : pc'[d] # "idle" => job[d] # NoResponse
  BY <1>1, <1>2 DEF Gate!Decide, Gate!Goto, Gate!TypeOK, Gate!Steps, Gate!Terminal
<1>4. CASE UNCHANGED Gate!authority /\ (Gate!Committed(q) # {} \/ Gate!Decide(p, "STALE"))
  <2>1. UNCHANGED <<head, commits>>
    BY <1>4 DEF Gate!authority
  <2>2. Gate!TypeOK'
    BY <1>1, <1>2, <1>3, <2>1 DEF Gate!TypeOK
  <2>3. verdict'[p] = "RESOLVED" => Gate!Committed(q) # {}
    BY <1>1, <1>4 DEF Gate!Decide, Gate!TypeOK
  <2>4. OwnSteps(p)'
    BY <1>1, <1>2, <1>3, <2>1, <2>3 DEF OwnSteps, Gate!Row, Gate!Mine, Gate!Committed,
       Holding, Gate!Terminal
  <2> QED BY <1>2, <1>3, <2>1, <2>2, <2>4, OwnLocal
<1>5. CASE /\ Gate!Committed(q) = {} /\ rows[q].base = head
           /\ head' = head + 1
           /\ commits' = commits \cup {[req |-> q, resp |-> x, base |-> head]}
  <2> DEFINE k == [req |-> q, resp |-> x, base |-> head]
  <2>1. Gate!TypeOK'
    BY <1>1, <1>2, <1>3, <1>5 DEF Gate!TypeOK
  <2>2. \A r \in Requests \ {q} : Gate!Committed(r)' = Gate!Committed(r)
    BY <1>5 DEF Gate!Committed
  <2>3. Gate!Committed(q)' = {k} /\ \A j \in commits : j.req # q
    <3>1. \A j \in commits : j.req # q
      BY <1>5 DEF Gate!Committed
    <3>2. k.req = q /\ commits' = commits \cup {k}
      BY <1>5
    <3> HIDE DEF k
    <3> QED BY <1>2, <3>1, <3>2 DEF Gate!Committed
  <2>4. Gate!CommittedByOwner'
    <3>1. ASSUME NEW j \in commits'
          PROVE  /\ rows'[j.req].claim = j.resp
                 /\ j.resp.bound /\ j.resp.disposition = "approve_exact"
                 /\ j.base = rows'[j.req].base
                 /\ \A i \in commits' : i.req = j.req => i = j
      <4>1. CASE j = k
        BY <1>1, <1>2, <1>5, <2>3, <4>1
      <4>2. CASE j \in commits
        BY <1>2, <1>5, <2>3, <4>2 DEF OwnInv, Gate!CommitsAreOwned, Gate!CommittedByOwner
      <4> QED BY <1>5, <4>1, <4>2
    <3> QED BY <3>1 DEF Gate!CommittedByOwner
  <2>5. CommitsTyped' /\ RowsOwned'
    BY <1>1, <1>2, <1>5 DEF OwnInv, CommitsTyped, RowsOwned
  <2>6. Gate!ReportsAgree'
    <3>1. rows[q].status \notin {"DECLINED", "REVISION_REQUESTED"}
      BY <1>1 DEF OwnInv, RowsOwned
    <3> QED BY <1>2, <2>2, <2>3, <3>1 DEF OwnInv, Gate!CommitsAreOwned, Gate!ReportsAgree
  <2>7. OwnSteps(p)'
    BY <1>1, <1>2, <1>3, <2>3 DEF OwnSteps, Gate!Row, Gate!Mine, Holding, Gate!Terminal
  <2>8. ASSUME NEW d \in Processes \ {p} PROVE OwnSteps(d)'
    BY <1>1, <1>2, <1>3, <2>2, <2>3, OwnOthers
  <2> QED BY <2>1, <2>4, <2>5, <2>6, <2>7, <2>8 DEF OwnInv, Gate!CommitsAreOwned, ProcessesOwn
<1> QED BY <1>4, <1>5 DEF Gate!Commit, Gate!Row

(* finalize: only the owner writes a verdict, and the commit it reports is *)
(* there.                                                                  *)
LEMMA OwnFinalize ==
    ASSUME Gate!ResponseAssumption, Gate!NoResponseAssumption, OwnInv, NEW p \in Processes,
           Gate!Finalize(p)
    PROVE  OwnInv'
<1> DEFINE x == job[p]
           q == x.req
<1>1. /\ x \in Responses /\ q \in Requests
      /\ rows[q].claim = x /\ pc[p] = "finalize" /\ Gate!TypeOK
      /\ verdict[p] \in Gate!Terminal
      /\ verdict[p] = "RESOLVED" => Gate!Committed(q) # {}
      /\ verdict[p] = "DECLINED" => x.disposition = "decline"
      /\ verdict[p] = "REVISION_REQUESTED" => x.disposition = "request_revision"
  BY JobHeld DEF Gate!Finalize, OwnInv, Gate!CommitsAreOwned, ProcessesOwn, OwnSteps,
     Gate!Row, Gate!Mine, Holding
<1>2. UNCHANGED <<head, commits, job, verdict>> /\ pc' = [pc EXCEPT ![p] = "done"]
  BY DEF Gate!Finalize, Gate!Return, Gate!Goto, Gate!authority
<1>3. /\ \A d \in Processes \ {p} : UNCHANGED <<pc[d], job[d], verdict[d]>>
      /\ pc'[p] = "done" /\ pc' \in [Processes -> Gate!Steps]
      /\ \A d \in Processes : pc'[d] # "idle" => job[d] # NoResponse
  BY <1>1, <1>2 DEF Gate!TypeOK, Gate!Steps
<1>4. OwnSteps(p)'
  BY <1>3 DEF OwnSteps, Holding
<1>5. CASE UNCHANGED Gate!store
  <2>1. Gate!TypeOK'
    BY <1>1, <1>2, <1>3, <1>5 DEF Gate!TypeOK, Gate!store
  <2> QED BY <1>2, <1>3, <1>4, <1>5, <2>1, OwnLocal DEF Gate!store
<1>6. CASE /\ rows[q].status = "RESOLVING"
           /\ rows' = [rows EXCEPT ![q].status = verdict[p],
                                   ![q].committed = (verdict[p] = "RESOLVED")]
           /\ outcome' = [outcome EXCEPT ![x] = verdict[p]]
  <2>1. rows[q] \in Gate!RequestRows
    BY <1>1 DEF Gate!TypeOK
  <2>2. /\ rows' = [rows EXCEPT ![q] = rows'[q]]
        /\ rows'[q] = [rows[q] EXCEPT !.status = verdict[p],
                                      !.committed = (verdict[p] = "RESOLVED")]
    BY <1>1, <1>6 DEF Gate!TypeOK
  <2>3. /\ rows'[q].status = verdict[p] /\ rows'[q].claim = x
        /\ rows'[q].base = rows[q].base
        /\ rows'[q].committed <=> verdict[p] = "RESOLVED"
        /\ rows'[q] \in Gate!RequestRows
    BY <1>1, <2>1, <2>2 DEF Gate!RequestRows
  <2>4. \A r \in Requests : /\ Gate!Committed(r)' = Gate!Committed(r)
                            /\ r # q => rows'[r] = rows[r]
    BY <1>1, <1>2, <2>2 DEF Gate!Committed, Gate!TypeOK
  <2>5. Gate!TypeOK'
    <3>1. rows' \in [Requests -> Gate!RequestRows]
      BY <1>1, <2>2, <2>3 DEF Gate!TypeOK
    <3>2. outcome' \in [Responses -> Gate!Terminal \cup {"none", "REJECTED", "CLAIMED"}]
      BY <1>1, <1>6 DEF Gate!TypeOK
    <3> QED BY <1>1, <1>2, <1>3, <3>1, <3>2 DEF Gate!TypeOK
  <2>6. Gate!CommittedByOwner' /\ CommitsTyped'
    <3>1. CommitsTyped'
      BY <1>2 DEF OwnInv, CommitsTyped
    <3>2. ASSUME NEW j \in commits
          PROVE  rows'[j.req].claim = rows[j.req].claim /\ rows'[j.req].base = rows[j.req].base
      BY <1>1, <2>3, <2>4 DEF OwnInv, CommitsTyped, Gate!ResponseAssumption,
         Gate!ResponseEnvelope
    <3> QED BY <1>2, <3>1, <3>2 DEF OwnInv, Gate!CommitsAreOwned, Gate!CommittedByOwner
  <2>7. Gate!ReportsAgree'
    <3>1. verdict[p] \in {"DECLINED", "REVISION_REQUESTED"} => Gate!Committed(q) = {}
      BY <1>1 DEF OwnInv, Gate!CommitsAreOwned, Gate!CommittedByOwner, Gate!Committed
    <3> QED BY <1>1, <2>3, <2>4, <3>1 DEF OwnInv, Gate!CommitsAreOwned, Gate!ReportsAgree
  <2>8. RowsOwned'
    BY <1>1, <2>3, <2>4 DEF OwnInv, RowsOwned, Gate!Terminal
  <2>9. ASSUME NEW d \in Processes \ {p} PROVE OwnSteps(d)'
    <3>1. rows'[q].status # "ABSENT"
      BY <1>1, <2>3 DEF Gate!Terminal
    <3> QED BY <1>1, <1>3, <2>3, <2>4, <3>1, OwnOthers
  <2> QED BY <1>4, <2>5, <2>6, <2>7, <2>8, <2>9 DEF OwnInv, Gate!CommitsAreOwned, ProcessesOwn
<1> QED BY <1>5, <1>6 DEF Gate!Finalize, Gate!Owned, Gate!Row

LEMMA OwnStep ==
    ASSUME Gate!ResponseAssumption, Gate!NoResponseAssumption, OwnInv, [Gate!Next]_(Gate!vars)
    PROVE  OwnInv'
<1>1. ASSUME NEW q \in Requests, Gate!Gate(q) PROVE OwnInv'
  BY <1>1, OwnGate
<1>2. CASE Gate!OtherCommit \/ UNCHANGED Gate!vars
  <2>1. UNCHANGED <<rows, outcome, commits, pc, job, verdict>> /\ Gate!TypeOK'
    BY <1>2 DEF Gate!OtherCommit, Gate!vars, Gate!store, Gate!authority, OwnInv,
       Gate!CommitsAreOwned, Gate!TypeOK
  <2>2. Gate!CommittedByOwner' /\ Gate!ReportsAgree' /\ RowsOwned' /\ CommitsTyped'
    BY <2>1 DEF OwnInv, Gate!CommitsAreOwned, Gate!CommittedByOwner, Gate!ReportsAgree,
       Gate!Committed, RowsOwned,
                CommitsTyped
  <2>3. ProcessesOwn'
    BY <2>1 DEF OwnInv, ProcessesOwn, OwnSteps, Gate!Row, Gate!Mine, Gate!Committed
  <2> QED BY <2>1, <2>2, <2>3 DEF OwnInv, Gate!CommitsAreOwned
<1>3. ASSUME NEW p \in Processes, (\E x \in Responses : Gate!Submit(p, x)) \/ Gate!Crash(p)
             \/ Gate!CommitFails(p)
      PROVE  OwnInv'
  BY <1>3, OwnCalls
<1>4. ASSUME NEW p \in Processes, Gate!Step(p) PROVE OwnInv'
  <2>1. CASE Gate!Finish(p)
    BY <2>1, OwnCalls
  <2>2. CASE Gate!Claim(p)
    BY <2>2, OwnClaim
  <2>3. CASE Gate!Commit(p)
    BY <2>3, OwnCommit
  <2>4. CASE Gate!Finalize(p)
    BY <2>4, OwnFinalize
  <2>5. CASE \/ Gate!ReadTerminal(p) \/ Gate!ReadForeign(p) \/ Gate!ReadResolving(p)
                  \/ Gate!ReadPending(p)
             \/ Gate!LoadBoundState(p) \/ Gate!Dispose(p) \/ Gate!Lookup(p) \/ Gate!Validate(p)
    BY <2>5, OwnReads
  <2> QED BY <1>4, <2>1, <2>2, <2>3, <2>4, <2>5 DEF Gate!Step
<1> QED BY <1>1, <1>2, <1>3, <1>4 DEF Gate!Next

(* Whoever races, dies or retries: every commit of Research State was made *)
(* for the one response that owns its request, an approval by the bound    *)
(* human on the state the request was bound to, once; and the operational  *)
(* store reports what the authority has.                                   *)
THEOREM OwnedCommits ==
    ASSUME Gate!ResponseAssumption, Gate!NoResponseAssumption
    PROVE  Gate!Spec => []Gate!CommitsAreOwned
<1>1. Gate!Init => OwnInv
  BY OwnInit
<1>2. OwnInv /\ [Gate!Next]_(Gate!vars) => OwnInv'
  BY OwnStep
<1>3. OwnInv => Gate!CommitsAreOwned
  BY DEF OwnInv
<1> QED BY <1>1, <1>2, <1>3, PTL DEF Gate!Spec

-----------------------------------------------------------------------------
(* A request that is terminal is not touched, and an owner is not replaced *)
(* by a step that writes the rows: gating, claiming and finalizing.        *)
LEMMA AnswersStep ==
    ASSUME Gate!ResponseAssumption, Gate!NoResponseAssumption, OwnInv, [Gate!Next]_(Gate!vars)
    PROVE  Gate!AnswersAreFinal
<1>1. CASE UNCHANGED rows
  BY <1>1 DEF Gate!AnswersAreFinal
<1>2. ASSUME NEW q \in Requests, Gate!Gate(q) PROVE Gate!AnswersAreFinal
  <2>1. /\ rows[q].status = "ABSENT" /\ rows[q].claim = NoResponse
        /\ \A r \in Requests \ {q} : rows'[r] = rows[r]
    BY <1>2 DEF Gate!Gate, OwnInv, RowsOwned, Gate!CommitsAreOwned, Gate!TypeOK
  <2> QED BY <2>1 DEF Gate!AnswersAreFinal, Gate!Terminal
<1>3. ASSUME NEW p \in Processes, Gate!Claim(p) \/ Gate!Finalize(p), rows' # rows
      PROVE  Gate!AnswersAreFinal
  <2> DEFINE x == job[p]
             q == x.req
  <2>1. x \in Responses /\ q \in Requests /\ pc[p] # "idle" /\ Gate!TypeOK
    BY <1>3, JobHeld DEF Gate!Claim, Gate!Finalize, OwnInv, Gate!CommitsAreOwned
  <2>2. /\ rows[q].status \in {"PENDING", "RESOLVING"}
        /\ \E s, b : \/ rows' = [rows EXCEPT ![q].status = s, ![q].claim = x]
                     \/ rows' = [rows EXCEPT ![q].status = s, ![q].committed = b]
    BY <1>3 DEF Gate!Claim, Gate!Claimable, Gate!Finalize, Gate!Owned, Gate!store, Gate!Row
  <2>3. rows[q].claim \in {NoResponse, x}
    BY <1>3, <2>1 DEF Gate!Claim, Gate!Claimable, Gate!Finalize, Gate!Owned, Gate!Mine,
       Gate!store, Gate!Row, OwnInv, RowsOwned
  <2>4. \A r \in Requests \ {q} : rows'[r] = rows[r]
    BY <2>1, <2>2 DEF Gate!TypeOK
  <2>5. rows'[q].claim \in {rows[q].claim, x}
    <3>1. rows[q] \in Gate!RequestRows
      BY <2>1 DEF Gate!TypeOK
    <3> QED BY <2>1, <2>2, <3>1 DEF Gate!TypeOK, Gate!RequestRows
  <2> QED BY <2>2, <2>3, <2>4, <2>5 DEF Gate!AnswersAreFinal, Gate!Terminal
<1> QED BY <1>1, <1>2, <1>3 DEF Gate!Next, Gate!vars, Gate!store, Gate!Step, Gate!OtherCommit,
   Gate!Submit, Gate!Crash, Gate!Finish,
       Gate!Leave, Gate!CommitFails, Gate!ReadTerminal, Gate!ReadForeign, Gate!ReadResolving,
       Gate!ReadPending,
       Gate!LoadBoundState, Gate!Dispose, Gate!Lookup, Gate!Validate, Gate!Commit

(* Who answers first decides for good, in every run of every size: no step *)
(* changes a terminal request or the owner of a claimed one.               *)
THEOREM FinalAnswers ==
    ASSUME Gate!ResponseAssumption, Gate!NoResponseAssumption
    PROVE  Gate!Spec => [][Gate!AnswersAreFinal]_(Gate!vars)
<1>1. Gate!Init => OwnInv
  BY OwnInit
<1>2. OwnInv /\ [Gate!Next]_(Gate!vars) => OwnInv'
  BY OwnStep
<1>3. OwnInv /\ [Gate!Next]_(Gate!vars) => [Gate!AnswersAreFinal]_(Gate!vars)
  BY AnswersStep
<1> QED BY <1>1, <1>2, <1>3, PTL DEF Gate!Spec

-----------------------------------------------------------------------------
(* The instance counts as the library does.                                *)
LEMMA SameCount == \A S : Conversation!Cardinality(S) = Cardinality(S)
<1> SUFFICES ASSUME NEW S PROVE Conversation!Cardinality(S) = Cardinality(S)
  OBVIOUS
<1> QED BY DEF Conversation!Cardinality, Cardinality

(* The steps in which a process alone acts for an input.                   *)
ActSteps == {"propose", "ask", "execute", "apply", "prepare", "correlate", "receipt"}
Own(p) == actPc[p] \in ActSteps

OwnAlone ==
    \A p, q \in Processes : Own(p) /\ Own(q) /\ Conversation!Input(p) = Conversation!Input(q)
        => p = q

ReceiptsOf(x) == {r \in receipts : r.input = x}

NoEffect(x) == Conversation!CommitsOf(x) = {} /\ runs[x] = 0
Quiet(x) == NoEffect(x) /\ ReceiptsOf(x) = {}

Warranted(x) ==
    x.mode # "proposal_only" /\ (x.mode = "confirmed" => requests[x] = "consumed")

Undecided(x) == proposals[x].status \in {"pending", "confirmed"}

(* An input whose answer is still to come has done nothing, and what an    *)
(* input did it did once, as its mode allows.                              *)
InputSound(x) ==
    /\ proposals[x].status = "absent" => requests[x] = "absent" /\ Quiet(x)
    /\ requests[x] = "pending" => proposals[x].status = "pending" /\ Quiet(x)
    /\ requests[x] # "absent" => x.mode = "confirmed"
    /\ x.mode = "proposal_only" => NoEffect(x)
    /\ x.mode = "proposal_only" /\ proposals[x].status = "pending" => Quiet(x)
    /\ ~NoEffect(x) => Warranted(x)
    /\ runs[x] \in {0, 1} /\ (runs[x] = 1 => Conversation!CommitsOf(x) = {})
    /\ \A c, d \in Conversation!CommitsOf(x) : c = d
    /\ \A c \in Conversation!CommitsOf(x) : c.prior = proposals[x].base /\ c.made <= made

ReceiptSound(x) ==
    \A r \in ReceiptsOf(x) :
        /\ \A s \in ReceiptsOf(x) : s = r
        /\ r.mutation <=> Conversation!CommitsOf(x) # {}
        /\ \A c \in Conversation!CommitsOf(x) : r.before = c.prior /\ r.after >= c.made
        /\ r.status \in {"rejected", "cancelled"} => NoEffect(x)
        /\ r.status = "succeeded" /\ x.route = "capability" => x \in correlated

(* What a process knows of its input at each step.                         *)
ProcessSound(p) ==
    LET x == Conversation!Input(p) IN
    /\ actPc[p] # "idle" => x \in Inputs
    /\ actPc[p] = "propose" => proposals[x].status = "absent"
    /\ actPc[p] \notin {"idle", "propose"} => proposals[x].status # "absent"
    /\ actPc[p] \in {"check", "consume"} => requests[x] # "absent"
    /\ actPc[p] = "consume" => seen[p] = proposals[x].base
    /\ Own(p) => /\ requests[x] # "pending"
                 /\ x.mode = "proposal_only" => proposals[x].status # "pending"
    /\ actPc[p] = "ask" => x.mode = "confirmed" /\ requests[x] = "absent"
                        /\ proposals[x].status = "pending" /\ Quiet(x)
    /\ actPc[p] \in {"execute", "apply", "prepare"} =>
          Quiet(x) /\ Warranted(x) /\ Undecided(x) /\ seen[p] = proposals[x].base
    /\ actPc[p] = "apply" => x.route = "service"
    /\ actPc[p] = "correlate" =>
          Conversation!CommitsOf(x) = {} /\ runs[x] = 1 /\ ReceiptsOf(x) = {} /\ Undecided(x)
    /\ actPc[p] = "receipt" =>
          /\ ReceiptsOf(x) = {} /\ result[p].status # "none"
          /\ result[p].mutation <=> Conversation!CommitsOf(x) # {}
          /\ \A c \in Conversation!CommitsOf(x) : seen[p] = c.prior
          /\ result[p].status \in {"rejected", "cancelled"} => NoEffect(x)
          /\ result[p].status = "succeeded" /\ x.route = "capability" => x \in correlated
          /\ IF result[p].status = "cancelled" THEN proposals[x].status = "cancelled"
             ELSE Undecided(x)

InputsSound == \A x \in Inputs : InputSound(x) /\ ReceiptSound(x)
ProcessesSound == \A p \in Processes : ProcessSound(p)

ActInv == Conversation!TypeOK /\ OwnAlone /\ InputsSound /\ ProcessesSound

LEMMA ActInit ==
    ASSUME Conversation!InputAssumption, Conversation!BoundAssumption
    PROVE  Conversation!Init => ActInv
<1> SUFFICES ASSUME Conversation!Init PROVE ActInv
  OBVIOUS
<1>1. Conversation!TypeOK
  BY DEF Conversation!Init, Conversation!TypeOK, Conversation!NoJob, Conversation!NoResult,
     Conversation!BoundAssumption
<1>2. OwnAlone /\ ProcessesSound
  BY DEF Conversation!Init, OwnAlone, ProcessesSound, ProcessSound, Own, ActSteps
<1>3. ASSUME NEW x \in Inputs PROVE InputSound(x) /\ ReceiptSound(x)
  <2>1. Conversation!CommitsOf(x) = {} /\ ReceiptsOf(x) = {} /\ runs[x] = 0
    BY DEF Conversation!Init, Conversation!CommitsOf, ReceiptsOf
  <2>2. proposals[x].status = "absent" /\ requests[x] = "absent"
    BY DEF Conversation!Init
  <2> QED BY <2>1, <2>2 DEF InputSound, ReceiptSound, Quiet, NoEffect
<1> QED BY <1>1, <1>2, <1>3 DEF ActInv, InputsSound

-----------------------------------------------------------------------------
(* What a step leaves alone.                                               *)

Steady(x) ==
    /\ UNCHANGED <<proposals[x], requests[x], runs[x], Conversation!CommitsOf(x), ReceiptsOf(x)>>
    /\ x \in correlated => x \in correlated'

Still(q) == UNCHANGED <<actPc[q], act[q], seen[q], result[q]>>

LEMMA SteadyInput ==
    ASSUME NEW x, Steady(x), InputSound(x), ReceiptSound(x), made \in Nat, made' \in Nat,
           made <= made', \A c \in Conversation!CommitsOf(x) : c.made \in Nat
    PROVE  InputSound(x)' /\ ReceiptSound(x)'
<1>1. /\ proposals'[x] = proposals[x] /\ requests'[x] = requests[x] /\ runs'[x] = runs[x]
      /\ Conversation!CommitsOf(x)' = Conversation!CommitsOf(x) /\ ReceiptsOf(x)' = ReceiptsOf(x)
      /\ x \in correlated => x \in correlated'
  BY DEF Steady
<1>2. Quiet(x)' = Quiet(x) /\ NoEffect(x)' = NoEffect(x) /\ Warranted(x)' = Warranted(x)
  BY <1>1 DEF Quiet, NoEffect, Warranted
<1>3. \A c \in Conversation!CommitsOf(x) : c.made <= made => c.made <= made'
  OBVIOUS
<1>4. InputSound(x)'
  BY <1>1, <1>2, <1>3 DEF InputSound
<1>5. ReceiptSound(x)'
  BY <1>1, <1>2 DEF ReceiptSound
<1> QED BY <1>4, <1>5

LEMMA SteadyProcess ==
    ASSUME NEW q \in Processes, Still(q), ProcessSound(q), actPc[q] # "idle"
           => Steady(Conversation!Input(q))
    PROVE  ProcessSound(q)'
<1>1. /\ actPc'[q] = actPc[q] /\ Conversation!Input(q)' = Conversation!Input(q)
           /\ seen'[q] = seen[q] /\ result'[q] = result[q]
      /\ Own(q)' = Own(q)
  BY DEF Still, Conversation!Input, Own
<1>2. CASE actPc[q] = "idle"
  BY <1>1, <1>2 DEF ProcessSound, Own, ActSteps
<1>3. CASE actPc[q] # "idle"
  <2> DEFINE x == Conversation!Input(q)
  <2>1. /\ proposals'[x] = proposals[x] /\ requests'[x] = requests[x] /\ runs'[x] = runs[x]
        /\ Conversation!CommitsOf(x)' = Conversation!CommitsOf(x) /\ ReceiptsOf(x)' = ReceiptsOf(x)
        /\ x \in correlated => x \in correlated'
    BY <1>1, <1>3 DEF Steady, Conversation!CommitsOf, ReceiptsOf
  <2>2. /\ Quiet(x)' = Quiet(x) /\ NoEffect(x)' = NoEffect(x) /\ Warranted(x)' = Warranted(x)
        /\ Undecided(x)' = Undecided(x)
    BY <1>1, <2>1 DEF Quiet, NoEffect, Warranted, Undecided, Conversation!CommitsOf, ReceiptsOf
  <2>3. x' = x
    BY <1>1
  <2> HIDE DEF x
  <2> QED BY <1>1, <2>1, <2>2, <2>3 DEF ProcessSound, x
<1> QED BY <1>2, <1>3

LEMMA HeadsNat ==
    ASSUME Conversation!BoundAssumption, Conversation!TypeOK
    PROVE  made \in Nat /\ \A x \in Inputs : \A c \in Conversation!CommitsOf(x) : c.made \in Nat
           /\ c.prior \in Nat
BY DEF Conversation!BoundAssumption, Conversation!TypeOK, Conversation!CommitsOf

(* One process acts for one input, and no other process does.              *)
LEMMA OneActs ==
    ASSUME Conversation!BoundAssumption, ActInv, Conversation!TypeOK', NEW p \in Processes,
           NEW x \in Inputs,
           \A q \in Processes \ {p} : Still(q) /\ (Own(q) => Conversation!Input(q) # x),
           \A y \in Inputs \ {x} : Steady(y),
           made <= made',
           proposals[x].status # "absent" =>
               proposals'[x].status # "absent" /\ proposals'[x].base = proposals[x].base,
           requests[x] # "absent" => requests'[x] # "absent",
           InputSound(x)', ReceiptSound(x)', ProcessSound(p)', Own(p)' => Conversation!Input(p)' = x
    PROVE  ActInv'
<1>1. InputsSound'
  <2>1. made \in Nat /\ made' \in Nat
    BY DEF ActInv, Conversation!TypeOK, Conversation!BoundAssumption
  <2>2. ASSUME NEW y \in Inputs \ {x} PROVE InputSound(y)' /\ ReceiptSound(y)'
    <3>1. InputSound(y) /\ ReceiptSound(y) /\ Steady(y)
          /\ \A c \in Conversation!CommitsOf(y) : c.made \in Nat
      BY HeadsNat DEF ActInv, InputsSound
    <3> QED BY <2>1, <3>1, SteadyInput
  <2> QED BY <2>2 DEF InputsSound
<1>2. ProcessesSound'
  <2>1. ASSUME NEW q \in Processes \ {p} PROVE ProcessSound(q)'
    <3>1. ProcessSound(q) /\ Still(q)
      BY DEF ActInv, ProcessesSound
    <3>2. CASE actPc[q] = "idle" \/ Conversation!Input(q) # x
      <4>1. actPc[q] # "idle" => Steady(Conversation!Input(q))
        BY <3>1, <3>2 DEF ProcessSound
      <4> QED BY <3>1, <4>1, SteadyProcess
    <3>3. CASE actPc[q] # "idle" /\ Conversation!Input(q) = x
      <4>1. actPc[q] \in {"check", "consume", "done"}
        BY <3>3 DEF Own, ActSteps, ActInv, Conversation!TypeOK
      <4>2. actPc'[q] = actPc[q] /\ Conversation!Input(q)' = x /\ seen'[q] = seen[q] /\ ~Own(q)'
        BY <3>1, <3>3, <4>1 DEF Still, Conversation!Input, Own, ActSteps
      <4> QED BY <3>1, <3>3, <4>1, <4>2 DEF ProcessSound
    <3> QED BY <3>2, <3>3
  <2> QED BY <2>1 DEF ProcessesSound
<1>3. OwnAlone'
  <2>1. \A q \in Processes \ {p} : Own(q)' = Own(q)
        /\ Conversation!Input(q)' = Conversation!Input(q)
    BY DEF Still, Own, Conversation!Input
  <2>2. \A q, r \in Processes \ {p} : Own(q) /\ Own(r)
        /\ Conversation!Input(q) = Conversation!Input(r) => q = r
    BY DEF ActInv, OwnAlone
  <2> QED BY <2>1, <2>2 DEF OwnAlone
<1> QED BY <1>1, <1>2, <1>3 DEF ActInv

(* A step of a process that changes nothing but where it stands.           *)
LEMMA LocalStep ==
    ASSUME Conversation!BoundAssumption, ActInv, Conversation!TypeOK', NEW p \in Processes,
           UNCHANGED <<proposals, requests, receipts, correlated, effects, runs, made>>,
           \A q \in Processes \ {p} : Still(q),
           ProcessSound(p)',
           Own(p)' => \A q \in Processes \ {p} : Own(q)
               => Conversation!Input(q) # Conversation!Input(p)'
    PROVE  ActInv'
<1>1. \A x : Steady(x)
  BY DEF Steady, Conversation!CommitsOf, ReceiptsOf
<1>2. InputsSound'
  <2>1. made \in Nat /\ made' \in Nat /\ made <= made'
    BY DEF ActInv, Conversation!TypeOK, Conversation!BoundAssumption
  <2>2. ASSUME NEW y \in Inputs PROVE InputSound(y)' /\ ReceiptSound(y)'
    <3>1. InputSound(y) /\ ReceiptSound(y) /\ \A c \in Conversation!CommitsOf(y) : c.made \in Nat
      BY HeadsNat DEF ActInv, InputsSound
    <3> QED BY <1>1, <2>1, <3>1, SteadyInput
  <2> QED BY <2>2 DEF InputsSound
<1>3. ProcessesSound'
  <2>1. ASSUME NEW q \in Processes \ {p} PROVE ProcessSound(q)'
    BY <1>1, SteadyProcess DEF ActInv, ProcessesSound
  <2> QED BY <2>1 DEF ProcessesSound
<1>4. OwnAlone'
  <2>1. \A q \in Processes \ {p} : Own(q)' = Own(q)
        /\ Conversation!Input(q)' = Conversation!Input(q)
    BY DEF Still, Own, Conversation!Input
  <2>2. \A q, r \in Processes \ {p} : Own(q) /\ Own(r)
        /\ Conversation!Input(q) = Conversation!Input(r) => q = r
    BY DEF ActInv, OwnAlone
  <2> QED BY <2>1, <2>2 DEF OwnAlone
<1> QED BY <1>2, <1>3, <1>4 DEF ActInv

(* Others commit and time passes.                                          *)
LEMMA WorldStep ==
    ASSUME Conversation!BoundAssumption, ActInv, Conversation!OtherCommit
           \/ \E x \in Inputs : Conversation!Expire(x)
    PROVE  ActInv'
<1>1. /\ UNCHANGED <<proposals, requests, receipts, correlated, effects, runs, actPc, act, seen,
           result,
                     crashes>>
      /\ made' = made \/ (made < MaxMade /\ made' = made + 1)
      /\ expired' \subseteq Inputs
  BY DEF Conversation!OtherCommit, Conversation!Expire, Conversation!conversation,
     Conversation!authority, Conversation!local, ActInv, Conversation!TypeOK
<1>2. made \in 0..MaxMade /\ MaxMade \in Nat
  BY DEF ActInv, Conversation!TypeOK, Conversation!BoundAssumption
<1>3. made' \in 0..MaxMade /\ made \in Nat /\ made' \in Nat /\ made <= made'
  BY <1>1, <1>2
<1>4. Conversation!TypeOK'
  BY <1>1, <1>3 DEF ActInv, Conversation!TypeOK
<1>5. \A x : Steady(x)
  BY <1>1 DEF Steady, Conversation!CommitsOf, ReceiptsOf
<1>6. InputsSound'
  <2>1. ASSUME NEW y \in Inputs PROVE InputSound(y)' /\ ReceiptSound(y)'
    <3>1. InputSound(y) /\ ReceiptSound(y) /\ \A c \in Conversation!CommitsOf(y) : c.made \in Nat
      BY HeadsNat DEF ActInv, InputsSound
    <3> QED BY <1>3, <1>5, <3>1, SteadyInput
  <2> QED BY <2>1 DEF InputsSound
<1>7. ProcessesSound'
  <2>1. ASSUME NEW q \in Processes PROVE ProcessSound(q)'
    BY <1>1, <1>5, SteadyProcess DEF ActInv, ProcessesSound, Still
  <2> QED BY <2>1 DEF ProcessesSound
<1>8. OwnAlone'
  BY <1>1 DEF ActInv, OwnAlone, Own, Conversation!Input
<1> QED BY <1>4, <1>6, <1>7, <1>8 DEF ActInv

-----------------------------------------------------------------------------
(* Steps between the transactions.                                         *)

Steps == {"idle", "propose", "ask", "check", "consume", "execute", "apply", "prepare",
          "correlate", "receipt", "done"}

(* A call begins: a new input, or the confirmation of a pending one.       *)
LEMMA CallBegins ==
    ASSUME Conversation!InputAssumption, Conversation!BoundAssumption, ActInv,
           NEW p \in Processes, NEW x \in Inputs,
           Conversation!Receive(p, x) \/ Conversation!Confirm(p, x)
    PROVE  ActInv'
<1>1. Conversation!TypeOK /\ actPc[p] = "idle"
      /\ UNCHANGED <<proposals, requests, expired, receipts, correlated, made, effects, runs,
           result,
                     crashes>>
  BY DEF ActInv, Conversation!Receive, Conversation!Confirm, Conversation!Begin,
     Conversation!conversation, Conversation!authority
<1>2. PICK c \in {"act", "confirm"}, s \in {"propose", "check"} :
         /\ act' = [act EXCEPT ![p] = [call |-> c, input |-> x]]
         /\ actPc' = [actPc EXCEPT ![p] = s]
         /\ s = "propose" => x \notin Conversation!Received
         /\ s = "check" => requests[x] = "pending"
  BY DEF Conversation!Receive, Conversation!Confirm, Conversation!Begin, Conversation!Goto
<1>3. seen' = seen \/ seen' = [seen EXCEPT ![p] = made]
  BY DEF Conversation!Receive, Conversation!Confirm, Conversation!LoadState
<1>4. Conversation!TypeOK'
  BY <1>1, <1>2, <1>3 DEF Conversation!TypeOK
<1>5. actPc'[p] = s /\ Conversation!Input(p)' = x /\ \A q \in Processes \ {p} : Still(q)
  BY <1>1, <1>2, <1>3 DEF Conversation!TypeOK, Conversation!Input, Still
<1>6. ProcessSound(p)'
  <2>1. InputSound(x)
    BY DEF ActInv, InputsSound
  <2>2. s = "propose" => proposals[x].status = "absent"
    BY <1>2 DEF Conversation!Received
  <2>3. s = "check" => proposals[x].status # "absent" /\ requests[x] # "absent"
    BY <1>2, <2>1 DEF InputSound
  <2>4. proposals[x].status = "absent" => requests[x] = "absent"
    BY <2>1 DEF InputSound
  <2> QED BY <1>1, <1>2, <1>5, <2>2, <2>3, <2>4 DEF ProcessSound, Own, ActSteps
<1>7. Own(p)' => \A q \in Processes \ {p} : Own(q) => Conversation!Input(q) # Conversation!Input(p)'
  BY <1>2, <1>5 DEF Own, ActSteps, Conversation!Received
<1> QED BY <1>1, <1>4, <1>5, <1>6, <1>7, LocalStep

(* The binding is checked, a service answers or raises, a transition is    *)
(* refused, and a call ends or its process dies.                           *)
LEMMA CallProceeds ==
    ASSUME Conversation!InputAssumption, Conversation!BoundAssumption, ActInv, NEW p \in Processes,
           \/ Conversation!CheckBinding(p) \/ Conversation!Dispatch(p) \/ Conversation!Raise(p)
           \/ Conversation!Apply(p) /\ UNCHANGED Conversation!authority
    PROVE  ActInv'
<1> DEFINE x == Conversation!Input(p)
<1>1. /\ Conversation!TypeOK /\ ProcessSound(p) /\ InputSound(x) /\ x \in Inputs
      /\ UNCHANGED <<proposals, requests, expired, receipts, correlated, made, effects, runs, act,
                     crashes>>
      /\ actPc[p] \in {"check", "execute", "apply"}
  <2>1. actPc[p] \in {"check", "execute", "apply"}
    BY DEF Conversation!CheckBinding, Conversation!Dispatch, Conversation!Raise,
       Conversation!Apply
  <2>2. ProcessSound(p) /\ x \in Inputs
    BY <2>1 DEF ActInv, ProcessesSound, ProcessSound
  <2> QED BY <2>1, <2>2 DEF ActInv, InputsSound, Conversation!CheckBinding,
     Conversation!Dispatch, Conversation!Raise, Conversation!Apply, Conversation!conversation,
     Conversation!authority
<1>2. PICK s \in {"consume", "done", "receipt", "apply", "prepare"} :
         /\ actPc' = [actPc EXCEPT ![p] = s]
         /\ s = "consume" => actPc[p] = "check" /\ made = proposals[x].base
         /\ s \in {"receipt", "apply", "prepare"} => actPc[p] \in {"execute", "apply"}
         /\ s = "apply" => x.route = "service"
  <2>1. CASE Conversation!CheckBinding(p)
    <3>1. CASE Conversation!Confirmable(p)
      <4> WITNESS "consume" \in {"consume", "done", "receipt", "apply", "prepare"}
      <4> QED BY <2>1, <3>1 DEF Conversation!CheckBinding, Conversation!Goto,
         Conversation!Confirmable
    <3>2. CASE ~Conversation!Confirmable(p)
      <4> WITNESS "done" \in {"consume", "done", "receipt", "apply", "prepare"}
      <4> QED BY <2>1, <3>2 DEF Conversation!CheckBinding, Conversation!Goto
    <3> QED BY <3>1, <3>2
  <2>2. CASE Conversation!Dispatch(p)
    <3>1. CASE actPc' = [actPc EXCEPT ![p] = "receipt"]
      <4> WITNESS "receipt" \in {"consume", "done", "receipt", "apply", "prepare"}
      <4> QED BY <2>2, <3>1 DEF Conversation!Dispatch
    <3>2. CASE actPc' = [actPc EXCEPT ![p] = "apply"] /\ x.route = "service"
      <4> WITNESS "apply" \in {"consume", "done", "receipt", "apply", "prepare"}
      <4> QED BY <2>2, <3>2 DEF Conversation!Dispatch
    <3>3. CASE actPc' = [actPc EXCEPT ![p] = "prepare"]
      <4> WITNESS "prepare" \in {"consume", "done", "receipt", "apply", "prepare"}
      <4> QED BY <2>2, <3>3 DEF Conversation!Dispatch
    <3> QED BY <2>2, <3>1, <3>2, <3>3 DEF Conversation!Dispatch, Conversation!Conclude,
       Conversation!Goto
  <2>3. CASE Conversation!Raise(p)
    <3> WITNESS "done" \in {"consume", "done", "receipt", "apply", "prepare"}
    <3> QED BY <2>3 DEF Conversation!Raise, Conversation!Goto
  <2>4. CASE Conversation!Apply(p) /\ UNCHANGED Conversation!authority
    <3>1. actPc' = [actPc EXCEPT ![p] = "receipt"] /\ actPc[p] = "apply"
      BY <2>4 DEF Conversation!Apply, Conversation!Conclude, Conversation!Goto
    <3> WITNESS "receipt" \in {"consume", "done", "receipt", "apply", "prepare"}
    <3> QED BY <3>1
  <2> QED BY <2>1, <2>2, <2>3, <2>4
<1>3. /\ seen' = IF actPc[p] = "check" THEN [seen EXCEPT ![p] = made] ELSE seen
      /\ s = "receipt" =>
            \E st \in {"rejected", "failed", "succeeded"} :
               /\ result' = [result EXCEPT ![p] = [status |-> st, mutation |-> FALSE]]
               /\ st = "succeeded" => x.route = "service"
      /\ s # "receipt" => result' = result
  BY <1>1, <1>2 DEF Conversation!CheckBinding, Conversation!Dispatch, Conversation!Raise,
     Conversation!Apply, Conversation!Conclude, Conversation!Goto, Conversation!LoadState,
     Conversation!TypeOK
<1>4. result' \in [Processes -> [status : {"none", "succeeded", "rejected", "failed", "cancelled"},
                                 mutation : BOOLEAN]]
  <2>1. CASE s = "receipt"
    <3>1. PICK st \in {"rejected", "failed", "succeeded"} :
             result' = [result EXCEPT ![p] = [status |-> st, mutation |-> FALSE]]
      BY <1>3, <2>1
    <3> QED BY <1>1, <3>1 DEF Conversation!TypeOK
  <2> QED BY <1>1, <1>3, <2>1 DEF Conversation!TypeOK
<1>5. Conversation!TypeOK'
  <2>1. actPc' \in [Processes -> Steps]
    BY <1>1, <1>2 DEF Conversation!TypeOK, Steps
  <2>2. seen' \in [Processes -> 0..MaxMade]
    BY <1>1, <1>3 DEF Conversation!TypeOK
  <2> QED BY <1>1, <1>4, <2>1, <2>2 DEF Conversation!TypeOK, Steps
<1>6. actPc'[p] = s /\ Conversation!Input(p)' = x
      /\ seen'[p] = (IF actPc[p] = "check" THEN made ELSE seen[p])
  BY <1>1, <1>2, <1>3 DEF Conversation!TypeOK, Conversation!Input
<1>7. \A q \in Processes \ {p} : Still(q)
  <2>1. \A q \in Processes \ {p} : actPc'[q] = actPc[q] /\ seen'[q] = seen[q] /\ act'[q] = act[q]
    BY <1>1, <1>2, <1>3 DEF Conversation!TypeOK
  <2>2. \A q \in Processes \ {p} : result'[q] = result[q]
    BY <1>1, <1>3 DEF Conversation!TypeOK
  <2> QED BY <2>1, <2>2 DEF Still
<1>8. Quiet(x)' = Quiet(x) /\ NoEffect(x)' = NoEffect(x) /\ Warranted(x)' = Warranted(x)
      /\ Undecided(x)' = Undecided(x) /\ Conversation!CommitsOf(x)' = Conversation!CommitsOf(x)
           /\ ReceiptsOf(x)' = ReceiptsOf(x)
  BY <1>1, <1>6 DEF Quiet, NoEffect, Warranted, Undecided, Conversation!CommitsOf, ReceiptsOf
<1>9. ProcessSound(p)'
  <2>1. proposals[x].status # "absent" /\ (actPc[p] = "check" => requests[x] # "absent")
    BY <1>1 DEF ProcessSound
  <2>2. CASE s \in {"consume", "done"}
    BY <1>1, <1>2, <1>6, <2>1, <2>2 DEF ProcessSound, Own, ActSteps
  <2>3. CASE s \in {"receipt", "apply", "prepare"}
    <3>1. Quiet(x) /\ Warranted(x) /\ Undecided(x) /\ seen[p] = proposals[x].base
          /\ requests[x] # "pending"
               /\ (x.mode = "proposal_only" => proposals[x].status # "pending")
      BY <1>1, <1>2, <2>3 DEF ProcessSound, Own, ActSteps
    <3>2. actPc[p] # "check"
      BY <1>2, <2>3
    <3>3. CASE s \in {"apply", "prepare"}
      BY <1>1, <1>2, <1>6, <1>8, <2>1, <3>1, <3>2, <3>3 DEF ProcessSound, Own, ActSteps
    <3>4. CASE s = "receipt"
      <4>1. PICK st \in {"rejected", "failed", "succeeded"} :
               /\ result'[p] = [status |-> st, mutation |-> FALSE]
               /\ st = "succeeded" => x.route = "service"
        BY <1>1, <1>3, <3>4 DEF Conversation!TypeOK
      <4>2. Conversation!CommitsOf(x)' = {} /\ NoEffect(x)' /\ ReceiptsOf(x)' = {} /\ Undecided(x)'
        BY <1>8, <3>1 DEF Quiet, NoEffect
      <4>3. /\ result'[p].status \in {"rejected", "failed", "succeeded"} /\ ~result'[p].mutation
            /\ result'[p].status = "succeeded" => x.route = "service"
        BY <4>1
      <4>4. proposals'[x] = proposals[x] /\ requests'[x] = requests[x]
        BY <1>1
      <4>5. actPc'[p] = "receipt" /\ Conversation!Input(p)' = x /\ x' = x
        BY <1>6, <3>4
      <4> HIDE DEF x
      <4> QED BY <1>1, <2>1, <3>1, <4>2, <4>3, <4>4, <4>5 DEF ProcessSound, Own, ActSteps
    <3> QED BY <2>3, <3>3, <3>4
  <2> QED BY <2>2, <2>3
<1>10. Own(p)' => \A q \in Processes \ {p} : Own(q)
       => Conversation!Input(q) # Conversation!Input(p)'
  <2>1. Own(p)' => Own(p)
    BY <1>2, <1>6 DEF Own, ActSteps
  <2> QED BY <1>6, <2>1 DEF ActInv, OwnAlone
<1> QED BY <1>1, <1>5, <1>7, <1>9, <1>10, LocalStep

LEMMA CallEnds ==
    ASSUME Conversation!InputAssumption, Conversation!BoundAssumption, ActInv,
           NEW p \in Processes, Conversation!Finish(p) \/ Conversation!Crash(p)
    PROVE  ActInv'
<1>1. /\ Conversation!TypeOK
      /\ UNCHANGED <<proposals, requests, expired, receipts, correlated, made, effects, runs>>
      /\ actPc' = [actPc EXCEPT ![p] = "idle"] /\ act' = [act EXCEPT ![p] = Conversation!NoJob]
      /\ seen' = [seen EXCEPT ![p] = 0] /\ result' = [result EXCEPT ![p] = Conversation!NoResult]
      /\ crashes' = crashes \/ (crashes < MaxCrashes /\ crashes' = crashes + 1)
  BY DEF ActInv, Conversation!Finish, Conversation!Crash, Conversation!Forget,
     Conversation!Goto, Conversation!conversation, Conversation!authority
<1>2. crashes' \in 0..MaxCrashes /\ 0 \in 0..MaxMade
  BY <1>1 DEF Conversation!TypeOK, Conversation!BoundAssumption
<1>3. Conversation!TypeOK'
  BY <1>1, <1>2 DEF Conversation!TypeOK, Conversation!NoJob, Conversation!NoResult
<1>4. actPc'[p] = "idle" /\ \A q \in Processes \ {p} : Still(q)
  BY <1>1 DEF Conversation!TypeOK, Still
<1>5. ProcessSound(p)' /\ ~Own(p)'
  BY <1>4 DEF ProcessSound, Own, ActSteps
<1> QED BY <1>1, <1>3, <1>4, <1>5, LocalStep

-----------------------------------------------------------------------------
(* Steps that write to the conversation or take effect.                    *)

(* An input a process acts for, or whose answer is pending, is nobody      *)
(* else's.                                                                 *)
LEMMA NobodyElse ==
    ASSUME ActInv, NEW p \in Processes, NEW x,
           \/ Own(p) /\ Conversation!Input(p) = x
           \/ requests[x] = "pending"
           \/ x.mode = "proposal_only" /\ proposals[x].status = "pending"
    PROVE  \A q \in Processes \ {p} : Own(q) => Conversation!Input(q) # x
<1> SUFFICES ASSUME NEW q \in Processes \ {p}, Own(q), Conversation!Input(q) = x PROVE FALSE
  OBVIOUS
<1>1. requests[x] # "pending" /\ (x.mode = "proposal_only" => proposals[x].status # "pending")
  BY DEF ActInv, ProcessesSound, ProcessSound
<1> QED BY <1>1 DEF ActInv, OwnAlone

LEMMA Actor ==
    ASSUME ActInv, NEW p \in Processes, actPc[p] # "idle"
    PROVE  /\ Conversation!TypeOK /\ Conversation!Input(p) \in Inputs /\ ProcessSound(p)
           /\ InputSound(Conversation!Input(p)) /\ ReceiptSound(Conversation!Input(p))
BY DEF ActInv, ProcessesSound, ProcessSound, InputsSound

LEMMA ProposeStep ==
    ASSUME Conversation!InputAssumption, Conversation!BoundAssumption, ActInv,
           NEW p \in Processes, NEW x \in Inputs,
           Conversation!Input(p) = x, Conversation!Propose(p)
    PROVE  ActInv'
<1>1. /\ Conversation!TypeOK /\ x \in Inputs /\ ProcessSound(p) /\ InputSound(x) /\ ReceiptSound(x)
      /\ actPc[p] = "propose" /\ Own(p)
  BY Actor DEF Conversation!Propose, Own, ActSteps
<1>2. /\ proposals' = [proposals EXCEPT ![x] = [status |-> "pending", base |-> seen[p]]]
      /\ UNCHANGED <<requests, expired, receipts, correlated, made, effects, runs, act, seen,
           result,
                     crashes>>
  BY DEF Conversation!Propose, Conversation!Pending, Conversation!authority
<1>3. PICK s \in {"done", "ask", "execute"} :
         /\ actPc' = [actPc EXCEPT ![p] = s]
         /\ s = "ask" => x.mode = "confirmed"
         /\ s = "execute" => x.mode = "direct"
  <2>1. x.mode \in {"proposal_only", "confirmed", "direct"}
    BY <1>1 DEF Conversation!InputAssumption, Conversation!TypedAction
  <2>2. CASE x.mode = "proposal_only"
    <3> WITNESS "done" \in {"done", "ask", "execute"}
    <3> QED BY <2>2 DEF Conversation!Propose, Conversation!Goto
  <2>3. CASE x.mode = "confirmed"
    <3> WITNESS "ask" \in {"done", "ask", "execute"}
    <3> QED BY <2>3 DEF Conversation!Propose, Conversation!Goto
  <2>4. CASE x.mode = "direct"
    <3> WITNESS "execute" \in {"done", "ask", "execute"}
    <3> QED BY <2>4 DEF Conversation!Propose, Conversation!Goto
  <2> QED BY <2>1, <2>2, <2>3, <2>4
<1>4. proposals[x].status = "absent" /\ requests[x] = "absent" /\ Quiet(x)
  BY <1>1 DEF ProcessSound, InputSound
<1>5. /\ proposals'[x] = [status |-> "pending", base |-> seen[p]]
      /\ \A y \in Inputs \ {x} : proposals'[y] = proposals[y]
      /\ actPc'[p] = s /\ Conversation!Input(p)' = x
      /\ \A q \in Processes \ {p} : Still(q)
  BY <1>1, <1>2, <1>3 DEF Conversation!TypeOK, Conversation!Input, Still
<1>6. Conversation!TypeOK'
  <2>1. actPc' \in [Processes -> Steps]
    BY <1>1, <1>3 DEF Conversation!TypeOK, Steps
  <2>2. seen[p] \in 0..MaxMade
    BY <1>1 DEF Conversation!TypeOK
  <2>3. proposals' \in [Inputs ->
          [status : {"absent", "pending", "confirmed", "cancelled", "completed"},
              base : 0..MaxMade]]
    BY <1>1, <1>2, <2>2 DEF Conversation!TypeOK
  <2> QED BY <1>1, <1>2, <2>1, <2>3 DEF Conversation!TypeOK, Steps
<1>7. \A y \in Inputs \ {x} : Steady(y)
  BY <1>2, <1>5 DEF Steady, Conversation!CommitsOf, ReceiptsOf
<1>8. /\ Conversation!CommitsOf(x)' = {} /\ ReceiptsOf(x)' = {} /\ runs'[x] = 0 /\ NoEffect(x)'
           /\ Quiet(x)'
      /\ requests'[x] = "absent" /\ proposals'[x].status = "pending" /\ proposals'[x].base = seen[p]
  BY <1>2, <1>4, <1>5 DEF Quiet, NoEffect, Conversation!CommitsOf, ReceiptsOf
<1>9. x' = x /\ seen'[p] = seen[p]
  BY <1>2, <1>5
<1>10. InputSound(x)' /\ ReceiptSound(x)'
  BY <1>8, <1>9 DEF InputSound, ReceiptSound
<1>11. ProcessSound(p)'
  <2>1. s \in {"ask", "execute"} => x.mode # "proposal_only"
    BY <1>3
  <2>2. Undecided(x)' /\ (s = "execute" => Warranted(x)')
    BY <1>3, <1>8, <1>9 DEF Undecided, Warranted
  <2> QED BY <1>1, <1>3, <1>5, <1>8, <1>9, <2>1, <2>2 DEF ProcessSound, Own, ActSteps
<1>12. \A q \in Processes \ {p} : Still(q) /\ (Own(q) => Conversation!Input(q) # x)
  BY <1>1, <1>5, NobodyElse
<1>13. made <= made'
  BY <1>1, <1>2 DEF Conversation!TypeOK, Conversation!BoundAssumption
<1> QED
  <2>1. /\ proposals[x].status # "absent" =>
               proposals'[x].status # "absent" /\ proposals'[x].base = proposals[x].base
        /\ requests[x] # "absent" => requests'[x] # "absent"
        /\ Own(p)' => Conversation!Input(p)' = x
    BY <1>4, <1>5
  <2> QED BY <1>1, <1>6, <1>7, <1>10, <1>11, <1>12, <1>13, <2>1, OneActs

LEMMA AskStep ==
    ASSUME Conversation!InputAssumption, Conversation!BoundAssumption, ActInv,
           NEW p \in Processes, NEW x \in Inputs,
           Conversation!Input(p) = x, Conversation!AskConfirmation(p)
    PROVE  ActInv'
<1>1. /\ Conversation!TypeOK /\ ProcessSound(p) /\ InputSound(x) /\ ReceiptSound(x)
      /\ actPc[p] = "ask" /\ Own(p)
  BY Actor DEF Conversation!AskConfirmation, Own, ActSteps
<1>2. /\ requests' = [requests EXCEPT ![x] = "pending"] /\ actPc' = [actPc EXCEPT ![p] = "done"]
      /\ UNCHANGED <<proposals, expired, receipts, correlated, made, effects, runs, act, seen,
           result,
                     crashes>>
  BY DEF Conversation!AskConfirmation, Conversation!Goto, Conversation!authority
<1>3. /\ x.mode = "confirmed" /\ requests[x] = "absent" /\ proposals[x].status = "pending"
           /\ Quiet(x)
  BY <1>1 DEF ProcessSound
<1>4. /\ requests'[x] = "pending" /\ \A y \in Inputs \ {x} : requests'[y] = requests[y]
      /\ actPc'[p] = "done" /\ Conversation!Input(p)' = x
      /\ \A q \in Processes \ {p} : Still(q)
  BY <1>1, <1>2 DEF Conversation!TypeOK, Conversation!Input, Still
<1>5. Conversation!TypeOK'
  BY <1>1, <1>2 DEF Conversation!TypeOK
<1>6. \A y \in Inputs \ {x} : Steady(y)
  BY <1>2, <1>4 DEF Steady, Conversation!CommitsOf, ReceiptsOf
<1>7. /\ Conversation!CommitsOf(x)' = {} /\ ReceiptsOf(x)' = {} /\ runs'[x] = 0 /\ NoEffect(x)'
           /\ Quiet(x)'
      /\ proposals'[x] = proposals[x]
  BY <1>2, <1>3 DEF Quiet, NoEffect, Conversation!CommitsOf, ReceiptsOf
<1>8. InputSound(x)' /\ ReceiptSound(x)'
  BY <1>3, <1>4, <1>7 DEF InputSound, ReceiptSound
<1>9. ProcessSound(p)'
  BY <1>3, <1>4, <1>7 DEF ProcessSound, Own, ActSteps
<1>10. \A q \in Processes \ {p} : Still(q) /\ (Own(q) => Conversation!Input(q) # x)
  BY <1>1, <1>4, NobodyElse
<1>11. made <= made'
  BY <1>1, <1>2 DEF Conversation!TypeOK, Conversation!BoundAssumption
<1> QED
  <2>1. /\ proposals[x].status # "absent" =>
               proposals'[x].status # "absent" /\ proposals'[x].base = proposals[x].base
        /\ requests[x] # "absent" => requests'[x] # "absent"
        /\ Own(p)' => Conversation!Input(p)' = x
    BY <1>4, <1>7
  <2> QED BY <1>5, <1>6, <1>8, <1>9, <1>10, <1>11, <2>1, OneActs

(* Of racing confirmations one consumes the request.                       *)
LEMMA ConsumeStep ==
    ASSUME Conversation!InputAssumption, Conversation!BoundAssumption, ActInv,
           NEW p \in Processes, NEW x \in Inputs,
           Conversation!Input(p) = x, Conversation!Consume(p)
    PROVE  ActInv'
<1>1. /\ Conversation!TypeOK /\ ProcessSound(p) /\ InputSound(x) /\ ReceiptSound(x)
      /\ actPc[p] = "consume"
  BY Actor DEF Conversation!Consume
<1>2. UNCHANGED <<expired, receipts, correlated, made, effects, runs, act, seen, result, crashes>>
  BY DEF Conversation!Consume, Conversation!authority
<1>3. proposals[x].status # "absent" /\ seen[p] = proposals[x].base
  BY <1>1 DEF ProcessSound
<1>4. CASE requests[x] # "pending"
  <2>1. actPc' = [actPc EXCEPT ![p] = "done"] /\ UNCHANGED <<proposals, requests>>
    BY <1>4 DEF Conversation!Consume, Conversation!Goto
  <2>2. Conversation!TypeOK'
    BY <1>1, <1>2, <2>1 DEF Conversation!TypeOK
  <2>3. actPc'[p] = "done" /\ Conversation!Input(p)' = x /\ \A q \in Processes \ {p} : Still(q)
    BY <1>1, <1>2, <2>1 DEF Conversation!TypeOK, Conversation!Input, Still
  <2>4. ProcessSound(p)' /\ ~Own(p)'
    BY <1>3, <2>1, <2>3 DEF ProcessSound, Own, ActSteps
  <2> QED BY <1>2, <2>1, <2>2, <2>3, <2>4, LocalStep
<1>5. CASE requests[x] = "pending"
  <2>1. /\ requests' = [requests EXCEPT ![x] = "consumed"]
             /\ actPc' = [actPc EXCEPT ![p] = "execute"]
        /\ proposals' = [proposals EXCEPT ![x].status = "confirmed"]
    BY <1>5 DEF Conversation!Consume, Conversation!SetStatus, Conversation!Goto
  <2>2. /\ requests'[x] = "consumed" /\ \A y \in Inputs \ {x} : requests'[y] = requests[y]
        /\ proposals'[x].status = "confirmed" /\ proposals'[x].base = proposals[x].base
        /\ \A y \in Inputs \ {x} : proposals'[y] = proposals[y]
        /\ actPc'[p] = "execute" /\ Conversation!Input(p)' = x
        /\ \A q \in Processes \ {p} : Still(q)
    BY <1>1, <1>2, <2>1 DEF Conversation!TypeOK, Conversation!Input, Still
  <2>3. Conversation!TypeOK'
    <3>1. proposals' \in [Inputs ->
            [status : {"absent", "pending", "confirmed", "cancelled", "completed"},
                base : 0..MaxMade]]
      BY <1>1, <2>1 DEF Conversation!TypeOK
    <3> QED BY <1>1, <1>2, <2>1, <3>1 DEF Conversation!TypeOK
  <2>4. \A y \in Inputs \ {x} : Steady(y)
    BY <1>2, <2>2 DEF Steady, Conversation!CommitsOf, ReceiptsOf
  <2>5. proposals[x].status = "pending" /\ Quiet(x) /\ x.mode = "confirmed"
    BY <1>1, <1>5 DEF InputSound
  <2>6. /\ Conversation!CommitsOf(x)' = {} /\ ReceiptsOf(x)' = {} /\ runs'[x] = 0 /\ NoEffect(x)'
             /\ Quiet(x)'
        /\ Warranted(x)' /\ Undecided(x)'
    BY <1>2, <2>2, <2>5 DEF Quiet, NoEffect, Conversation!CommitsOf, ReceiptsOf, Warranted,
       Undecided
  <2>7. InputSound(x)' /\ ReceiptSound(x)'
    BY <2>2, <2>5, <2>6 DEF InputSound, ReceiptSound
  <2>8. ProcessSound(p)'
    BY <1>2, <1>3, <2>2, <2>5, <2>6 DEF ProcessSound, Own, ActSteps
  <2>9. \A q \in Processes \ {p} : Still(q) /\ (Own(q) => Conversation!Input(q) # x)
    BY <1>5, <2>2, NobodyElse
  <2>10. made <= made'
    BY <1>1, <1>2 DEF Conversation!TypeOK, Conversation!BoundAssumption
  <2> QED
    <3>1. /\ proposals[x].status # "absent" =>
                 proposals'[x].status # "absent" /\ proposals'[x].base = proposals[x].base
          /\ requests[x] # "absent" => requests'[x] # "absent"
          /\ Own(p)' => Conversation!Input(p)' = x
      BY <2>2
    <3> QED BY <2>3, <2>4, <2>7, <2>8, <2>9, <2>10, <3>1, OneActs
<1> QED BY <1>4, <1>5

(* A cancelled action has had no effect and no receipt.                    *)
LEMMA CancelStep ==
    ASSUME Conversation!InputAssumption, Conversation!BoundAssumption, ActInv,
           NEW p \in Processes, NEW x \in Inputs,
           Conversation!Cancel(p, x)
    PROVE  ActInv'
<1>1. /\ Conversation!TypeOK /\ InputSound(x) /\ ReceiptSound(x) /\ actPc[p] = "idle"
      /\ UNCHANGED <<expired, receipts, correlated, made, effects, runs, crashes>>
      /\ act' = [act EXCEPT ![p] = [call |-> "cancel", input |-> x]]
      /\ actPc' = [actPc EXCEPT ![p] = "receipt"]
      /\ seen' = [seen EXCEPT ![p] = proposals[x].base]
      /\ result' = [result EXCEPT ![p] = [status |-> "cancelled", mutation |-> FALSE]]
  BY DEF ActInv, InputsSound, Conversation!Cancel, Conversation!Begin, Conversation!Goto,
     Conversation!authority
<1>2. /\ IF x.mode = "proposal_only" THEN proposals[x].status = "pending"
           ELSE requests[x] = "pending"
      /\ requests' = IF x.mode = "proposal_only" THEN requests
           ELSE [requests EXCEPT ![x] = "cancelled"]
  BY DEF Conversation!Cancel, Conversation!Cancellable
<1>3. proposals[x].status = "pending" /\ Quiet(x)
      /\ (x.mode # "proposal_only" => x.mode = "confirmed")
  BY <1>1, <1>2 DEF InputSound
<1>4. proposals' = [proposals EXCEPT ![x].status = "cancelled"]
  BY <1>3 DEF Conversation!Cancel, Conversation!SetStatus
<1>5. /\ proposals'[x].status = "cancelled" /\ proposals'[x].base = proposals[x].base
      /\ \A y \in Inputs \ {x} : proposals'[y] = proposals[y] /\ requests'[y] = requests[y]
      /\ requests'[x] = IF x.mode = "proposal_only" THEN requests[x] ELSE "cancelled"
      /\ actPc'[p] = "receipt" /\ Conversation!Input(p)' = x
      /\ result'[p].status = "cancelled" /\ ~result'[p].mutation
  BY <1>1, <1>2, <1>4 DEF Conversation!TypeOK, Conversation!Input
<1>6. \A q \in Processes \ {p} : Still(q)
  BY <1>1 DEF Conversation!TypeOK, Still
<1>7. Conversation!TypeOK'
  <2>1. proposals' \in [Inputs ->
          [status : {"absent", "pending", "confirmed", "cancelled", "completed"},
              base : 0..MaxMade]]
    BY <1>1, <1>4 DEF Conversation!TypeOK
  <2>2. proposals[x].base \in 0..MaxMade
    BY <1>1 DEF Conversation!TypeOK
  <2>3. seen' \in [Processes -> 0..MaxMade]
    BY <1>1, <2>2 DEF Conversation!TypeOK
  <2>4. requests' \in [Inputs -> {"absent", "pending", "consumed", "cancelled"}]
    BY <1>1, <1>2 DEF Conversation!TypeOK
  <2>5. /\ act' \in [Processes ->
              [call : {"none", "act", "confirm", "cancel"}, input : Inputs \cup {NoInput}]]
        /\ actPc' \in [Processes -> Steps]
    BY <1>1 DEF Conversation!TypeOK, Steps
  <2>6. result' \in [Processes ->
          [status : {"none", "succeeded", "rejected", "failed", "cancelled"}, mutation : BOOLEAN]]
    BY <1>1 DEF Conversation!TypeOK
  <2> QED BY <1>1, <2>1, <2>3, <2>4, <2>5, <2>6 DEF Conversation!TypeOK, Steps
<1>8. \A y \in Inputs \ {x} : Steady(y)
  BY <1>1, <1>5 DEF Steady, Conversation!CommitsOf, ReceiptsOf
<1>9. Conversation!CommitsOf(x)' = {} /\ ReceiptsOf(x)' = {} /\ runs'[x] = 0 /\ NoEffect(x)'
      /\ Quiet(x)'
  BY <1>1, <1>3 DEF Quiet, NoEffect, Conversation!CommitsOf, ReceiptsOf
<1>10. requests'[x] # "pending" /\ (requests[x] # "absent" => requests'[x] # "absent")
       /\ (requests'[x] # "absent" => x.mode = "confirmed")
  BY <1>1, <1>3, <1>5 DEF InputSound
<1>11. InputSound(x)' /\ ReceiptSound(x)'
  BY <1>5, <1>9, <1>10 DEF InputSound, ReceiptSound
<1>12. ProcessSound(p)'
  BY <1>5, <1>9, <1>10 DEF ProcessSound, Own, ActSteps
<1>13. \A q \in Processes \ {p} : Still(q) /\ (Own(q) => Conversation!Input(q) # x)
  BY <1>2, <1>6, NobodyElse
<1>14. made <= made'
  BY <1>1 DEF Conversation!TypeOK, Conversation!BoundAssumption
<1> QED
  <2>1. /\ proposals[x].status # "absent" =>
               proposals'[x].status # "absent" /\ proposals'[x].base = proposals[x].base
        /\ requests[x] # "absent" => requests'[x] # "absent"
        /\ Own(p)' => Conversation!Input(p)' = x
    BY <1>5, <1>10
  <2> QED BY <1>7, <1>8, <1>11, <1>12, <1>13, <1>14, <2>1, OneActs

(* The transition commits on the state the proposal is bound to.           *)
LEMMA ApplyStep ==
    ASSUME Conversation!InputAssumption, Conversation!BoundAssumption, ActInv,
           NEW p \in Processes, NEW x \in Inputs,
           Conversation!Input(p) = x, Conversation!Apply(p), ~UNCHANGED Conversation!authority
    PROVE  ActInv'
<1> DEFINE c == [input |-> x, prior |-> made, made |-> made + 1]
<1>1. /\ Conversation!TypeOK /\ ProcessSound(p) /\ InputSound(x) /\ ReceiptSound(x)
      /\ actPc[p] = "apply" /\ Own(p)
  BY Actor DEF Conversation!Apply, Own, ActSteps
<1>2. /\ made = seen[p] /\ made < MaxMade /\ made' = made + 1 /\ effects' = effects \cup {c}
      /\ result' = [result EXCEPT ![p] = [status |-> "succeeded", mutation |-> TRUE]]
      /\ actPc' = [actPc EXCEPT ![p] = "receipt"]
      /\ UNCHANGED <<proposals, requests, expired, receipts, correlated, runs, act, seen, crashes>>
  BY DEF Conversation!Apply, Conversation!HeadUnmoved, Conversation!Conclude,
     Conversation!Goto, Conversation!conversation
<1>3. /\ Quiet(x) /\ Warranted(x) /\ Undecided(x) /\ seen[p] = proposals[x].base
      /\ x.route = "service" /\ requests[x] # "pending" /\ proposals[x].status # "absent"
      /\ (x.mode = "proposal_only" => proposals[x].status # "pending")
  BY <1>1 DEF ProcessSound
<1>4. made \in Nat /\ made' \in Nat /\ made' \in 0..MaxMade /\ made <= made' /\ MaxMade \in Nat
  <2>1. made \in 0..MaxMade /\ MaxMade \in Nat
    BY <1>1 DEF Conversation!TypeOK, Conversation!BoundAssumption
  <2> QED BY <1>2, <2>1
<1>5. /\ actPc'[p] = "receipt" /\ Conversation!Input(p)' = x
      /\ result'[p].status = "succeeded" /\ result'[p].mutation = TRUE
      /\ \A q \in Processes \ {p} : Still(q)
  BY <1>1, <1>2 DEF Conversation!TypeOK, Conversation!Input, Still
<1>6. Conversation!TypeOK'
  <2>1. c \in [input : Inputs, prior : 0..MaxMade, made : 0..MaxMade]
    BY <1>1, <1>2, <1>4 DEF Conversation!TypeOK
  <2>2. effects' \subseteq [input : Inputs, prior : 0..MaxMade, made : 0..MaxMade]
    BY <1>1, <1>2, <2>1 DEF Conversation!TypeOK
  <2>3. result' \in [Processes ->
          [status : {"none", "succeeded", "rejected", "failed", "cancelled"}, mutation : BOOLEAN]]
    BY <1>1, <1>2 DEF Conversation!TypeOK
  <2> QED BY <1>1, <1>2, <1>4, <2>2, <2>3 DEF Conversation!TypeOK
<1>7. \A y \in Inputs \ {x} : Steady(y)
  BY <1>2 DEF Steady, Conversation!CommitsOf, ReceiptsOf
<1>8. /\ Conversation!CommitsOf(x)' = {c} /\ ReceiptsOf(x)' = {} /\ runs'[x] = 0
      /\ Warranted(x)' /\ Undecided(x)' /\ ~NoEffect(x)'
  <2>1. Conversation!CommitsOf(x) = {} /\ ReceiptsOf(x) = {} /\ runs[x] = 0
    BY <1>3 DEF Quiet, NoEffect
  <2>2. Conversation!CommitsOf(x)' = {c}
    BY <1>2, <2>1 DEF Conversation!CommitsOf
  <2>3. ReceiptsOf(x)' = {}
    BY <1>2, <2>1 DEF ReceiptsOf
  <2>4. Warranted(x)' /\ Undecided(x)'
    BY <1>2, <1>3 DEF Warranted, Undecided
  <2>5. ~NoEffect(x)'
    BY <2>2 DEF NoEffect
  <2> QED BY <1>2, <2>1, <2>2, <2>3, <2>4, <2>5
<1>9. c.prior = proposals'[x].base /\ c.made = made'
  BY <1>2, <1>3
<1>10. InputSound(x)' /\ ReceiptSound(x)'
  <2>1. /\ x.mode # "proposal_only" /\ (requests[x] # "absent" => x.mode = "confirmed")
    BY <1>1, <1>3 DEF InputSound, Warranted
  <2>2. ReceiptSound(x)'
    BY <1>8 DEF ReceiptSound
  <2>3. \A d \in Conversation!CommitsOf(x)' : d.prior = proposals'[x].base /\ d.made <= made'
    BY <1>4, <1>8, <1>9
  <2>4. \A d, e \in Conversation!CommitsOf(x)' : d = e
    BY <1>8
  <2> HIDE DEF c
  <2> QED BY <1>2, <1>3, <1>8, <2>1, <2>2, <2>3, <2>4 DEF InputSound
<1>11. ProcessSound(p)'
  <2>1. \A d \in Conversation!CommitsOf(x)' : seen'[p] = d.prior
    BY <1>2, <1>8
  <2> HIDE DEF c
  <2> QED BY <1>2, <1>3, <1>5, <1>8, <2>1 DEF ProcessSound, Own, ActSteps
<1>12. \A q \in Processes \ {p} : Still(q) /\ (Own(q) => Conversation!Input(q) # x)
  BY <1>1, <1>5, NobodyElse
<1> QED
  <2>1. /\ proposals[x].status # "absent" =>
               proposals'[x].status # "absent" /\ proposals'[x].base = proposals[x].base
        /\ requests[x] # "absent" => requests'[x] # "absent"
        /\ Own(p)' => Conversation!Input(p)' = x
    BY <1>2, <1>5
  <2> QED BY <1>4, <1>6, <1>7, <1>10, <1>11, <1>12, <2>1, OneActs

(* A Run is created once, whether its start succeeds or not.               *)
LEMMA PrepareStep ==
    ASSUME Conversation!InputAssumption, Conversation!BoundAssumption, ActInv,
           NEW p \in Processes, NEW x \in Inputs,
           Conversation!Input(p) = x, Conversation!PrepareRun(p)
    PROVE  ActInv'
<1>1. /\ Conversation!TypeOK /\ ProcessSound(p) /\ InputSound(x) /\ ReceiptSound(x)
      /\ actPc[p] = "prepare" /\ Own(p)
  BY Actor DEF Conversation!PrepareRun, Own, ActSteps
<1>2. /\ UNCHANGED <<proposals, requests, expired, receipts, correlated, made, effects, act, seen,
           crashes>>
      /\ runs' = runs \/ runs' = [runs EXCEPT ![x] = @ + 1]
      /\ \/ /\ runs' = [runs EXCEPT ![x] = @ + 1] /\ result' = result
            /\ actPc' = [actPc EXCEPT ![p] = "correlate"]
         \/ /\ result' = [result EXCEPT ![p] = [status |-> "failed", mutation |-> FALSE]]
            /\ actPc' = [actPc EXCEPT ![p] = "receipt"]
  BY DEF Conversation!PrepareRun, Conversation!Conclude, Conversation!Goto,
     Conversation!conversation, Conversation!authority
<1>3. /\ Quiet(x) /\ Warranted(x) /\ Undecided(x) /\ requests[x] # "pending"
      /\ proposals[x].status # "absent"
      /\ (x.mode = "proposal_only" => proposals[x].status # "pending")
  BY <1>1 DEF ProcessSound
<1>4. /\ runs[x] = 0 /\ runs'[x] \in {0, 1} /\ (actPc'[p] = "correlate" => runs'[x] = 1)
      /\ \A y \in Inputs \ {x} : runs'[y] = runs[y]
      /\ actPc'[p] \in {"correlate", "receipt"} /\ Conversation!Input(p)' = x
  <2>1. runs[x] = 0
    BY <1>3 DEF Quiet, NoEffect
  <2> QED BY <1>1, <1>2, <2>1 DEF Conversation!TypeOK, Conversation!Input
<1>5. actPc'[p] = "receipt" => result'[p] = [status |-> "failed", mutation |-> FALSE]
  BY <1>1, <1>2 DEF Conversation!TypeOK
<1>6. \A q \in Processes \ {p} : Still(q)
  BY <1>1, <1>2 DEF Conversation!TypeOK, Still
<1>7. Conversation!TypeOK'
  <2>1. actPc' = [actPc EXCEPT ![p] = "correlate"] \/ actPc' = [actPc EXCEPT ![p] = "receipt"]
    BY <1>2
  <2>2. actPc' \in [Processes -> Steps]
    BY <1>1, <2>1 DEF Conversation!TypeOK, Steps
  <2>3. result' = result
        \/ result' = [result EXCEPT ![p] = [status |-> "failed", mutation |-> FALSE]]
    BY <1>2
  <2>4. result' \in [Processes ->
          [status : {"none", "succeeded", "rejected", "failed", "cancelled"}, mutation : BOOLEAN]]
    <3>1. result \in [Processes ->
            [status : {"none", "succeeded", "rejected", "failed", "cancelled"}, mutation : BOOLEAN]]
      BY <1>1 DEF Conversation!TypeOK
    <3>2. [status |-> "failed", mutation |-> FALSE] \in
            [status : {"none", "succeeded", "rejected", "failed", "cancelled"}, mutation : BOOLEAN]
      OBVIOUS
    <3> QED BY <2>3, <3>1, <3>2
  <2>5. runs \in [Inputs -> Nat] /\ runs[x] + 1 \in Nat
    BY <1>1, <1>4 DEF Conversation!TypeOK
  <2>6. runs' \in [Inputs -> Nat]
    <3>1. runs' = runs \/ runs' = [runs EXCEPT ![x] = runs[x] + 1]
      BY <1>2
    <3> QED BY <2>5, <3>1
  <2>7. UNCHANGED <<proposals, requests, expired, receipts, correlated, made, effects, act, seen,
        crashes>>
    BY <1>2
  <2> QED BY <1>1, <2>2, <2>4, <2>6, <2>7 DEF Conversation!TypeOK, Steps
<1>8. \A y \in Inputs \ {x} : Steady(y)
  BY <1>2, <1>4 DEF Steady, Conversation!CommitsOf, ReceiptsOf
<1>9. Conversation!CommitsOf(x)' = {} /\ ReceiptsOf(x)' = {} /\ Warranted(x)' /\ Undecided(x)'
  BY <1>2, <1>3 DEF Quiet, NoEffect, Conversation!CommitsOf, ReceiptsOf, Warranted, Undecided
<1>10. InputSound(x)' /\ ReceiptSound(x)'
  <2>1. x.mode # "proposal_only" /\ (requests[x] # "absent" => x.mode = "confirmed")
    BY <1>1, <1>3 DEF InputSound, Warranted
  <2>2. ReceiptSound(x)'
    BY <1>9 DEF ReceiptSound
  <2> QED BY <1>2, <1>3, <1>4, <1>9, <2>1, <2>2 DEF InputSound
<1>11. ProcessSound(p)'
  <2>1. actPc'[p] = "receipt" => result'[p].status = "failed" /\ ~result'[p].mutation
    BY <1>5
  <2> QED BY <1>2, <1>3, <1>4, <1>9, <2>1 DEF ProcessSound, Own, ActSteps
<1>12. \A q \in Processes \ {p} : Still(q) /\ (Own(q) => Conversation!Input(q) # x)
  BY <1>1, <1>6, NobodyElse
<1>13. made <= made'
  BY <1>1, <1>2 DEF Conversation!TypeOK, Conversation!BoundAssumption
<1> QED
  <2>1. /\ proposals[x].status # "absent" =>
               proposals'[x].status # "absent" /\ proposals'[x].base = proposals[x].base
        /\ requests[x] # "absent" => requests'[x] # "absent"
        /\ Own(p)' => Conversation!Input(p)' = x
    BY <1>2, <1>4
  <2> QED BY <1>7, <1>8, <1>10, <1>11, <1>12, <1>13, <2>1, OneActs

LEMMA CorrelateStep ==
    ASSUME Conversation!InputAssumption, Conversation!BoundAssumption, ActInv,
           NEW p \in Processes, NEW x \in Inputs,
           Conversation!Input(p) = x, Conversation!Correlate(p)
    PROVE  ActInv'
<1>1. /\ Conversation!TypeOK /\ ProcessSound(p) /\ InputSound(x) /\ ReceiptSound(x)
      /\ actPc[p] = "correlate" /\ Own(p)
  BY Actor DEF Conversation!Correlate, Own, ActSteps
<1>2. /\ UNCHANGED <<proposals, requests, expired, receipts, made, effects, runs, act, seen,
           crashes>>
      /\ correlated' = correlated \cup {x}
      /\ result' = [result EXCEPT ![p] = [status |-> "succeeded", mutation |-> FALSE]]
      /\ actPc' = [actPc EXCEPT ![p] = "receipt"]
  BY DEF Conversation!Correlate, Conversation!Conclude, Conversation!Goto,
     Conversation!authority
<1>3. /\ Conversation!CommitsOf(x) = {} /\ runs[x] = 1 /\ ReceiptsOf(x) = {} /\ Undecided(x)
      /\ requests[x] # "pending" /\ proposals[x].status # "absent"
      /\ (x.mode = "proposal_only" => proposals[x].status # "pending")
  BY <1>1 DEF ProcessSound
<1>4. /\ actPc'[p] = "receipt" /\ Conversation!Input(p)' = x /\ x \in correlated'
      /\ result'[p].status = "succeeded" /\ ~result'[p].mutation
      /\ \A q \in Processes \ {p} : Still(q)
  BY <1>1, <1>2 DEF Conversation!TypeOK, Conversation!Input, Still
<1>5. Conversation!TypeOK'
  <2>1. result' \in [Processes ->
          [status : {"none", "succeeded", "rejected", "failed", "cancelled"}, mutation : BOOLEAN]]
    BY <1>1, <1>2 DEF Conversation!TypeOK
  <2> QED BY <1>1, <1>2, <2>1 DEF Conversation!TypeOK
<1>6. \A y \in Inputs \ {x} : Steady(y)
  BY <1>2 DEF Steady, Conversation!CommitsOf, ReceiptsOf
<1>7. /\ Conversation!CommitsOf(x)' = {} /\ ReceiptsOf(x)' = {} /\ runs'[x] = 1 /\ Undecided(x)'
      /\ NoEffect(x)' = NoEffect(x) /\ Warranted(x)' = Warranted(x) /\ ~NoEffect(x)
  BY <1>2, <1>3 DEF NoEffect, Conversation!CommitsOf, ReceiptsOf, Undecided, Warranted
<1>8. InputSound(x)' /\ ReceiptSound(x)'
  <2>1. ReceiptSound(x)'
    BY <1>7 DEF ReceiptSound
  <2> QED BY <1>1, <1>2, <1>3, <1>7, <2>1 DEF InputSound
<1>9. ProcessSound(p)'
  BY <1>2, <1>3, <1>4, <1>7 DEF ProcessSound, Own, ActSteps
<1>10. \A q \in Processes \ {p} : Still(q) /\ (Own(q) => Conversation!Input(q) # x)
  BY <1>1, <1>4, NobodyElse
<1>11. made <= made'
  BY <1>1, <1>2 DEF Conversation!TypeOK, Conversation!BoundAssumption
<1> QED
  <2>1. /\ proposals[x].status # "absent" =>
               proposals'[x].status # "absent" /\ proposals'[x].base = proposals[x].base
        /\ requests[x] # "absent" => requests'[x] # "absent"
        /\ Own(p)' => Conversation!Input(p)' = x
    BY <1>2, <1>4
  <2> QED BY <1>5, <1>6, <1>8, <1>9, <1>10, <1>11, <2>1, OneActs

(* The receipt: the states it names enclose the commit.                    *)
LEMMA ReceiptStep ==
    ASSUME Conversation!InputAssumption, Conversation!BoundAssumption, ActInv,
           NEW p \in Processes, NEW x \in Inputs,
           Conversation!Input(p) = x, Conversation!StoreReceipt(p)
    PROVE  ActInv'
<1> DEFINE r == [input |-> x, status |-> result[p].status, mutation |-> result[p].mutation,
                 before |-> seen[p], after |-> IF result[p].mutation THEN made ELSE seen[p]]
<1>1. /\ Conversation!TypeOK /\ ProcessSound(p) /\ InputSound(x) /\ ReceiptSound(x)
      /\ actPc[p] = "receipt" /\ Own(p)
  BY Actor DEF Conversation!StoreReceipt, Own, ActSteps
<1>2. /\ UNCHANGED <<requests, expired, correlated, made, effects, runs, act, seen, result,
           crashes>>
      /\ receipts' = receipts \cup {r}
      /\ proposals' = [proposals EXCEPT ![x].status =
                          IF result[p].status = "cancelled" THEN "cancelled" ELSE "completed"]
      /\ actPc' = [actPc EXCEPT ![p] = "done"]
  BY DEF Conversation!StoreReceipt, Conversation!StateAfter, Conversation!SetStatus,
     Conversation!Goto, Conversation!authority
<1>3. /\ ReceiptsOf(x) = {} /\ result[p].status # "none"
      /\ (result[p].mutation <=> Conversation!CommitsOf(x) # {})
      /\ \A c \in Conversation!CommitsOf(x) : seen[p] = c.prior
      /\ (result[p].status \in {"rejected", "cancelled"} => NoEffect(x))
      /\ (result[p].status = "succeeded" /\ x.route = "capability" => x \in correlated)
      /\ requests[x] # "pending" /\ proposals[x].status # "absent"
      /\ (x.mode = "proposal_only" => proposals[x].status # "pending")
  BY <1>1 DEF ProcessSound
<1>4. /\ proposals'[x].status \in {"cancelled", "completed"}
      /\ proposals'[x].base = proposals[x].base
      /\ \A y \in Inputs \ {x} : proposals'[y] = proposals[y]
      /\ actPc'[p] = "done" /\ Conversation!Input(p)' = x
      /\ \A q \in Processes \ {p} : Still(q)
  BY <1>1, <1>2 DEF Conversation!TypeOK, Conversation!Input, Still
<1>5. Conversation!TypeOK'
  <2>1. result[p].status \in {"succeeded", "rejected", "failed", "cancelled"}
        /\ result[p].mutation \in BOOLEAN /\ seen[p] \in 0..MaxMade /\ made \in 0..MaxMade
    BY <1>1, <1>3 DEF Conversation!TypeOK
  <2>2. r \in [input : Inputs, status : {"succeeded", "rejected", "failed", "cancelled"},
               mutation : BOOLEAN, before : 0..MaxMade, after : 0..MaxMade]
    <3>1. (IF result[p].mutation THEN made ELSE seen[p]) \in 0..MaxMade
      BY <2>1
    <3> QED BY <2>1, <3>1
  <2>3. receipts' \subseteq
          [input : Inputs, status : {"succeeded", "rejected", "failed", "cancelled"},
           mutation : BOOLEAN, before : 0..MaxMade, after : 0..MaxMade]
    <3>1. receipts \subseteq
            [input : Inputs, status : {"succeeded", "rejected", "failed", "cancelled"},
             mutation : BOOLEAN, before : 0..MaxMade, after : 0..MaxMade]
      BY <1>1 DEF Conversation!TypeOK
    <3>2. receipts' = receipts \cup {r}
      BY <1>2
    <3> HIDE DEF r
    <3> QED BY <2>2, <3>1, <3>2
  <2>4. proposals' \in [Inputs ->
          [status : {"absent", "pending", "confirmed", "cancelled", "completed"},
              base : 0..MaxMade]]
    <3>1. PICK st \in {"cancelled", "completed"} : proposals' = [proposals EXCEPT ![x].status = st]
      BY <1>2
    <3> HIDE DEF r
    <3> QED BY <1>1, <3>1, SMTT(30) DEF Conversation!TypeOK
  <2>5. actPc' \in [Processes -> Steps]
    BY <1>1, <1>2 DEF Conversation!TypeOK, Steps
  <2> QED BY <1>1, <1>2, <2>3, <2>4, <2>5 DEF Conversation!TypeOK, Steps
<1>6. \A y \in Inputs \ {x} : Steady(y)
  BY <1>2, <1>4 DEF Steady, Conversation!CommitsOf, ReceiptsOf
<1>7. /\ Conversation!CommitsOf(x)' = Conversation!CommitsOf(x) /\ NoEffect(x)' = NoEffect(x)
           /\ Warranted(x)' = Warranted(x)
      /\ runs'[x] = runs[x] /\ requests'[x] = requests[x] /\ correlated' = correlated
           /\ made' = made
  BY <1>2 DEF NoEffect, Conversation!CommitsOf, Warranted
<1>8. ReceiptsOf(x)' = {r}
  <2>1. r.input = x
    OBVIOUS
  <2> QED BY <1>2, <1>3, <2>1 DEF ReceiptsOf
<1>9. InputSound(x)'
  BY <1>1, <1>3, <1>4, <1>7 DEF InputSound
<1>10. ReceiptSound(x)'
  <2>1. r.status = result[p].status /\ r.mutation = result[p].mutation /\ r.before = seen[p]
        /\ (result[p].mutation => r.after = made)
    OBVIOUS
  <2>2. \A c \in Conversation!CommitsOf(x) : r.before = c.prior /\ r.after >= c.made
    <3> SUFFICES ASSUME NEW c \in Conversation!CommitsOf(x)
        PROVE  r.before = c.prior /\ r.after >= c.made
      OBVIOUS
    <3>1. c.made <= made /\ made \in Nat /\ c.made \in Nat
      BY <1>1, HeadsNat DEF InputSound
    <3>2. result[p].mutation
      BY <1>3
    <3> HIDE DEF r
    <3> QED BY <1>3, <2>1, <3>1, <3>2
  <2>3. /\ r.mutation <=> Conversation!CommitsOf(x) # {}
        /\ r.status \in {"rejected", "cancelled"} => NoEffect(x)
        /\ r.status = "succeeded" /\ x.route = "capability" => x \in correlated
    BY <1>3, <2>1
  <2>4. \A s \in ReceiptsOf(x)' : s = r
    BY <1>8
  <2>5. ReceiptSound(x)' = \A s \in ReceiptsOf(x)' :
            /\ \A t \in ReceiptsOf(x)' : t = s
            /\ s.mutation <=> Conversation!CommitsOf(x)' # {}
            /\ \A c \in Conversation!CommitsOf(x)' : s.before = c.prior /\ s.after >= c.made
            /\ s.status \in {"rejected", "cancelled"} => NoEffect(x)'
            /\ s.status = "succeeded" /\ x.route = "capability" => x \in correlated'
    BY DEF ReceiptSound
  <2> HIDE DEF r
  <2> QED BY <1>7, <2>2, <2>3, <2>4, <2>5
<1>11. ProcessSound(p)'
  BY <1>4 DEF ProcessSound, Own, ActSteps
<1>12. \A q \in Processes \ {p} : Still(q) /\ (Own(q) => Conversation!Input(q) # x)
  BY <1>1, <1>4, NobodyElse
<1>13. made <= made'
  BY <1>1, <1>2 DEF Conversation!TypeOK, Conversation!BoundAssumption
<1> QED
  <2>1. /\ proposals[x].status # "absent" =>
               proposals'[x].status # "absent" /\ proposals'[x].base = proposals[x].base
        /\ requests[x] # "absent" => requests'[x] # "absent"
        /\ Own(p)' => Conversation!Input(p)' = x
    BY <1>4, <1>7
  <2> HIDE DEF r
  <2> QED BY <1>5, <1>6, <1>9, <1>10, <1>11, <1>12, <1>13, <2>1, OneActs

LEMMA ActStep ==
    ASSUME Conversation!InputAssumption, Conversation!BoundAssumption
    PROVE  ActInv /\ [Conversation!Next]_(Conversation!vars) => ActInv'
<1> SUFFICES ASSUME ActInv, [Conversation!Next]_(Conversation!vars) PROVE ActInv'
  OBVIOUS
<1>1. CASE UNCHANGED Conversation!vars
  BY <1>1 DEF Conversation!vars, Conversation!conversation, Conversation!authority,
     Conversation!local, ActInv, Conversation!TypeOK, OwnAlone, InputsSound,
     ProcessesSound, InputSound, ReceiptSound, ProcessSound, Own, Conversation!Input, Quiet,
     NoEffect,
     Conversation!CommitsOf, ReceiptsOf, Warranted, Undecided
<1>2. CASE Conversation!OtherCommit \/ \E x \in Inputs : Conversation!Expire(x)
  BY <1>2, WorldStep
<1>3. ASSUME NEW p \in Processes, NEW x \in Inputs, Conversation!Receive(p, x)
             \/ Conversation!Confirm(p, x) \/ Conversation!Cancel(p, x)
      PROVE  ActInv'
  BY <1>3, CallBegins, CancelStep
<1>4. ASSUME NEW p \in Processes,
             \/ Conversation!Propose(p) \/ Conversation!AskConfirmation(p)
                  \/ Conversation!CheckBinding(p) \/ Conversation!Consume(p)
             \/ Conversation!Dispatch(p) \/ Conversation!Raise(p) \/ Conversation!Apply(p)
                  \/ Conversation!PrepareRun(p) \/ Conversation!Correlate(p)
             \/ Conversation!StoreReceipt(p) \/ Conversation!Finish(p) \/ Conversation!Crash(p)
      PROVE  ActInv'
  <2>1. CASE Conversation!Finish(p) \/ Conversation!Crash(p)
    BY <2>1, CallEnds
  <2>2. CASE Conversation!CheckBinding(p) \/ Conversation!Dispatch(p) \/ Conversation!Raise(p)
            \/ (Conversation!Apply(p) /\ UNCHANGED Conversation!authority)
    BY <2>2, CallProceeds
  <2>3. CASE \/ Conversation!Propose(p) \/ Conversation!AskConfirmation(p)
                  \/ Conversation!Consume(p)
                       \/ (Conversation!Apply(p) /\ ~UNCHANGED Conversation!authority)
             \/ Conversation!PrepareRun(p) \/ Conversation!Correlate(p)
                  \/ Conversation!StoreReceipt(p)
    <3>1. actPc[p] # "idle"
      BY <2>3 DEF Conversation!Propose, Conversation!AskConfirmation, Conversation!Consume,
         Conversation!Apply, Conversation!PrepareRun, Conversation!Correlate,
         Conversation!StoreReceipt
    <3>2. PICK x \in Inputs : Conversation!Input(p) = x
      BY <3>1, Actor
    <3> QED BY <2>3, <3>2, ProposeStep, AskStep, ConsumeStep, ApplyStep, PrepareStep,
       CorrelateStep,
               ReceiptStep
  <2> QED BY <1>4, <2>1, <2>2, <2>3
<1> QED BY <1>1, <1>2, <1>3, <1>4 DEF Conversation!Next

LEMMA ActAlways ==
    ASSUME Conversation!InputAssumption, Conversation!BoundAssumption
    PROVE  Conversation!Spec => []ActInv
<1>1. Conversation!Init => ActInv
  BY ActInit
<1>2. ActInv /\ [Conversation!Next]_(Conversation!vars) => ActInv'
  BY ActStep
<1> QED BY <1>1, <1>2, PTL DEF Conversation!Spec

-----------------------------------------------------------------------------
(* However many confirmations race and whoever dies when, an action has    *)
(* one effect at most, with the Confirmation its mode asks for and on the  *)
(* state it was bound to (_confirm and _execute of service.py).            *)
THEOREM ActsOnce ==
    ASSUME Conversation!InputAssumption, Conversation!BoundAssumption
    PROVE  Conversation!Spec => []Conversation!EffectsAuthorized
<1>1. ActInv => Conversation!EffectsAuthorized
  <2> SUFFICES ASSUME ActInv PROVE Conversation!EffectsAuthorized
    OBVIOUS
  <2>1. ASSUME NEW x \in Inputs, Conversation!Effects(x) > 0
        PROVE  /\ Conversation!Effects(x) = 1 /\ x.mode # "proposal_only"
               /\ x.mode = "confirmed" => requests[x] = "consumed"
    <3>1. InputSound(x)
      BY DEF ActInv, InputsSound
    <3>2. CASE Conversation!CommitsOf(x) = {}
      <4>1. Cardinality(Conversation!CommitsOf(x)) = 0
        BY <3>2, FS_EmptySet
      <4>2. runs[x] \in {0, 1}
        BY <3>1 DEF InputSound
      <4>3. Conversation!Effects(x) = 1 /\ runs[x] = 1
        BY <2>1, <4>1, <4>2, SameCount DEF Conversation!Effects
      <4> QED BY <3>1, <4>3 DEF InputSound, NoEffect, Warranted
    <3>3. CASE Conversation!CommitsOf(x) # {}
      <4>1. PICK c : Conversation!CommitsOf(x) = {c}
        BY <3>1, <3>3 DEF InputSound
      <4>2. Cardinality(Conversation!CommitsOf(x)) = 1
        BY <4>1, FS_Singleton
      <4>3. runs[x] = 0
        BY <3>1, <3>3 DEF InputSound
      <4>4. Conversation!Effects(x) = 1
        BY <4>2, <4>3, SameCount DEF Conversation!Effects
      <4> QED BY <3>1, <3>3, <4>4 DEF InputSound, NoEffect, Warranted
    <3> QED BY <3>2, <3>3
  <2>2. Conversation!OneWarrantedEffect
    BY <2>1 DEF Conversation!OneWarrantedEffect
  <2>3. Conversation!EffectOnBoundState
    <3> SUFFICES ASSUME NEW c \in effects PROVE c.prior = proposals[c.input].base
      BY DEF Conversation!EffectOnBoundState
    <3>1. c.input \in Inputs /\ c \in Conversation!CommitsOf(c.input)
      BY DEF ActInv, Conversation!TypeOK, Conversation!CommitsOf
    <3> QED BY <3>1 DEF ActInv, InputsSound, InputSound
  <2> QED BY <2>2, <2>3 DEF ActInv, Conversation!EffectsAuthorized
<1> QED BY <1>1, ActAlways, PTL

(* A receipt tells the truth about its action however late it is written   *)
(* (_result_receipt of service.py).                                        *)
THEOREM ReceiptsTrue ==
    ASSUME Conversation!InputAssumption, Conversation!BoundAssumption
    PROVE  Conversation!Spec => []Conversation!ReceiptsTellTruth
<1>1. ActInv => Conversation!ReceiptsTellTruth
  <2> SUFFICES ASSUME ActInv, NEW r \in receipts
               PROVE  /\ \A s \in receipts : s.input = r.input => s = r
                      /\ r.mutation = (Conversation!CommitsOf(r.input) # {})
                      /\ \A c \in Conversation!CommitsOf(r.input) : r.before = c.prior
                           /\ r.after >= c.made
                      /\ r.status \in {"rejected", "cancelled"} => Conversation!Effects(r.input) = 0
                      /\ r.status = "succeeded" /\ r.input.route = "capability"
                           => r.input \in correlated
    BY DEF Conversation!ReceiptsTellTruth
  <2>1. PICK x \in Inputs : r.input = x /\ r.mutation \in BOOLEAN
    BY DEF ActInv, Conversation!TypeOK
  <2>2. r \in ReceiptsOf(x) /\ ReceiptSound(x)
    BY <2>1 DEF ReceiptsOf, ActInv, InputsSound
  <2>3. /\ r.mutation <=> Conversation!CommitsOf(x) # {}
        /\ \A c \in Conversation!CommitsOf(x) : r.before = c.prior /\ r.after >= c.made
        /\ r.status \in {"rejected", "cancelled"} => NoEffect(x)
        /\ r.status = "succeeded" /\ x.route = "capability" => x \in correlated
    BY <2>2 DEF ReceiptSound
  <2>4. \A s \in receipts : s.input = r.input => s = r
    BY <2>1, <2>2 DEF ReceiptSound, ReceiptsOf
  <2>5. r.mutation = (Conversation!CommitsOf(x) # {})
    BY <2>1, <2>3
  <2>6. NoEffect(x) => Conversation!Effects(x) = 0
    BY FS_EmptySet, SameCount DEF NoEffect, Conversation!Effects
  <2> QED BY <2>1, <2>3, <2>4, <2>5, <2>6
<1> QED BY <1>1, ActAlways, PTL

(* Who answers a request first decides for good (_consume and the updates  *)
(* of the conversation store).                                             *)
THEOREM AnswersStay ==
    ASSUME Conversation!InputAssumption, Conversation!BoundAssumption
    PROVE  Conversation!Spec => [][Conversation!AnswersAreFinal]_(Conversation!vars)
<1>1. ActInv /\ [Conversation!Next]_(Conversation!vars)
      => [Conversation!AnswersAreFinal]_(Conversation!vars)
  <2> SUFFICES ASSUME ActInv, Conversation!Next, NEW y \in Inputs
               PROVE  /\ requests[y] \in {"consumed", "cancelled"} => requests'[y] = requests[y]
                      /\ proposals[y].status \in {"cancelled", "completed"}
                           => proposals'[y] = proposals[y]
    BY DEF Conversation!AnswersAreFinal
  <2>1. CASE UNCHANGED <<proposals, requests>>
    BY <2>1
  <2>2. ASSUME NEW p \in Processes,
               Conversation!Propose(p) \/ Conversation!AskConfirmation(p) \/ Conversation!Consume(p) \/ Conversation!StoreReceipt(p), ~UNCHANGED <<proposals, requests>>
        PROVE  /\ requests[y] \in {"consumed", "cancelled"} => requests'[y] = requests[y]
               /\ proposals[y].status \in {"cancelled", "completed"} => proposals'[y] = proposals[y]
    <3>1. PICK x \in Inputs : Conversation!Input(p) = x
      BY <2>2, Actor DEF Conversation!Propose, Conversation!AskConfirmation,
         Conversation!Consume, Conversation!StoreReceipt
    <3>2. CASE y # x
      BY <2>2, <3>1, <3>2 DEF ActInv, Conversation!TypeOK, Conversation!Propose,
         Conversation!AskConfirmation, Conversation!Consume, Conversation!StoreReceipt,
         Conversation!SetStatus
    <3>3. CASE y = x
      <4>1. ProcessSound(p) /\ InputSound(x) /\ Conversation!TypeOK
        BY <3>1, <2>2, Actor DEF Conversation!Propose, Conversation!AskConfirmation,
           Conversation!Consume, Conversation!StoreReceipt
      <4>2. CASE Conversation!Propose(p)
        BY <3>1, <3>3, <4>1, <4>2 DEF Conversation!Propose, ProcessSound
      <4>3. CASE Conversation!AskConfirmation(p)
        BY <3>1, <3>3, <4>1, <4>3 DEF Conversation!AskConfirmation, ProcessSound
      <4>4. CASE Conversation!Consume(p)
        BY <2>2, <3>1, <3>3, <4>1, <4>4 DEF Conversation!Consume, InputSound
      <4>5. CASE Conversation!StoreReceipt(p)
        BY <3>1, <3>3, <4>1, <4>5 DEF Conversation!StoreReceipt, ProcessSound,
           Conversation!SetStatus, Undecided, Conversation!TypeOK
      <4> QED BY <2>2, <4>2, <4>3, <4>4, <4>5
    <3> QED BY <3>2, <3>3
  <2>3. ASSUME NEW p \in Processes, NEW x \in Inputs, Conversation!Cancel(p, x)
        PROVE  /\ requests[y] \in {"consumed", "cancelled"} => requests'[y] = requests[y]
               /\ proposals[y].status \in {"cancelled", "completed"} => proposals'[y] = proposals[y]
    <3>1. CASE y # x
      BY <2>3, <3>1 DEF ActInv, Conversation!TypeOK, Conversation!Cancel, Conversation!SetStatus
    <3>2. CASE y = x
      <4>1. InputSound(x)
        BY DEF ActInv, InputsSound
      <4> QED BY <2>3, <3>2, <4>1 DEF Conversation!Cancel, Conversation!Cancellable, InputSound
    <3> QED BY <3>1, <3>2
  <2> QED
    BY <2>1, <2>2, <2>3 DEF Conversation!Next, Conversation!OtherCommit, Conversation!Expire,
       Conversation!Receive, Conversation!Confirm, Conversation!CheckBinding,
       Conversation!Dispatch, Conversation!Raise,
       Conversation!Apply, Conversation!PrepareRun, Conversation!Correlate, Conversation!Finish,
       Conversation!Crash, Conversation!Forget, Conversation!conversation
<1> QED BY <1>1, ActAlways, PTL DEF Conversation!Spec

-----------------------------------------------------------------------------
(* What is proved of Decisions and of Confirmations holds where one        *)
(* process handles both: a behaviour of the two is one of each.            *)

AnswerAssumption ==
    /\ Gate!ResponseAssumption /\ Gate!NoResponseAssumption
    /\ Conversation!InputAssumption /\ Conversation!BoundAssumption

LEMMA DecisionsBehave == Spec => Gate!Spec
<1>1. Init => Gate!Init
  BY DEF Init
<1>2. [Next]_<<service, gateVars, actionVars>> => [Gate!Next]_(Gate!vars)
  BY DEF Next, gateVars, Gate!vars, Gate!store, Gate!authority
<1> QED BY <1>1, <1>2, PTL DEF Spec, Gate!Spec

LEMMA ActionsBehave == Spec => Conversation!Spec
<1>1. Init => Conversation!Init
  BY DEF Init
<1>2. [Next]_<<service, gateVars, actionVars>> => [Conversation!Next]_(Conversation!vars)
  BY DEF Next, actionVars, Conversation!vars, Conversation!conversation, Conversation!authority,
     Conversation!local
<1> QED BY <1>1, <1>2, PTL DEF Spec, Conversation!Spec

(* Whoever races, dies or retries, every commit was made for the one       *)
(* response that owns its request (core/decision/service.py, resolve).     *)
THEOREM DecisionsOwned == ASSUME AnswerAssumption PROVE Spec => []CommitsAreOwned
<1>1. Gate!Spec => []Gate!CommitsAreOwned
  BY OwnedCommits DEF AnswerAssumption
<1> QED BY <1>1, DecisionsBehave, PTL DEF CommitsAreOwned

(* An action has one effect at most, with the Confirmation its mode asks   *)
(* for and on the state it was bound to (core/conversation/service.py).    *)
THEOREM ActionsAuthorized == ASSUME AnswerAssumption PROVE Spec => []EffectsAuthorized
<1>1. Conversation!Spec => []Conversation!EffectsAuthorized
  BY ActsOnce DEF AnswerAssumption
<1> QED BY <1>1, ActionsBehave, PTL DEF EffectsAuthorized

(* A receipt says what happened to the state, however late it is written.  *)
THEOREM ReceiptsHold == ASSUME AnswerAssumption PROVE Spec => []ReceiptsTellTruth
<1>1. Conversation!Spec => []Conversation!ReceiptsTellTruth
  BY ReceiptsTrue DEF AnswerAssumption
<1> QED BY <1>1, ActionsBehave, PTL DEF ReceiptsTellTruth

(* Who answers first decides for good, whatever is being answered.         *)
THEOREM AnswersHold == ASSUME AnswerAssumption PROVE Spec => AnswersAreFinal
<1>1. Gate!Spec => [][Gate!AnswersAreFinal]_(Gate!vars)
  BY FinalAnswers DEF AnswerAssumption
<1>2. Conversation!Spec => [][Conversation!AnswersAreFinal]_(Conversation!vars)
  BY AnswersStay DEF AnswerAssumption
<1>3. [Gate!AnswersAreFinal]_(Gate!vars) /\ [Conversation!AnswersAreFinal]_(Conversation!vars)
        => [Gate!AnswersAreFinal /\ Conversation!AnswersAreFinal]_<<gateVars, actionVars>>
  <2>1. UNCHANGED Gate!vars => Gate!AnswersAreFinal
    BY DEF Gate!vars, Gate!store, Gate!authority, Gate!AnswersAreFinal
  <2>2. UNCHANGED Conversation!vars => Conversation!AnswersAreFinal
    BY DEF Conversation!vars, Conversation!conversation, Conversation!authority,
       Conversation!local, Conversation!AnswersAreFinal
  <2> QED BY <2>1, <2>2
<1> QED BY <1>1, <1>2, <1>3, DecisionsBehave, ActionsBehave, PTL DEF AnswersAreFinal
===============================================================================
