--------------------------- MODULE WorkConversation ---------------------------
(***************************************************************************)
(* The Work Conversation runtime (core/conversation with the coordinator   *)
(* of core/decision/conversation.py): a typed action becomes a proposal    *)
(* bound to the current state, a state-changing one waits for a single-use *)
(* Confirmation, the execution goes to a registered service or starts a    *)
(* capability Run, and a receipt says what came of it.  The conversation   *)
(* database, the Research State and the execution store share no           *)
(* transaction; several processes work on one conversation and may die.    *)
(*                                                                         *)
(* The state and research-context binding of a proposal is the number of   *)
(* the HEAD it was made at.  Research State is a HEAD that a commit moves  *)
(* if it is still the one the request was built on.                        *)
(***************************************************************************)
EXTENDS Naturals, FiniteSets

CONSTANTS
    Inputs,        \* typed actions: mode, route
    Processes,
    MaxActions,    \* bound: actions received
    MaxHead,       \* bound: commits by anyone
    MaxCrashes,    \* bound: deaths of processes
    NoInput

(* mode: a mere proposal, an action that needs a Confirmation, one that    *)
(* does not; route: a Harness service that may request a transition, or a  *)
(* capability invocation.                                                  *)
TypedAction(x) ==
    /\ x.mode \in {"proposal_only", "confirmed", "direct"}
    /\ x.route \in {"service", "capability"}

InputAssumption == NoInput \notin Inputs /\ \A x \in Inputs : TypedAction(x)
BoundAssumption == {MaxActions, MaxHead, MaxCrashes} \subseteq Nat

VARIABLES
    proposals,    \* proposals.status and the state binding of the document
    requests,     \* confirmation_requests.status
    expired,      \* requests whose expires_at has passed
    receipts,     \* action_receipts: input, status, mutation, before, after
    correlated,   \* inputs whose Run is in run_correlations
    head, commits, \* the authoritative state: commits by input, prior, made
    runs,         \* Runs created, counted by input
    pc, job,      \* where each process stands, and in what call
    seen,         \* the state it loaded
    result,       \* what its receipt will say
    crashes

conversation == <<proposals, requests, expired, receipts, correlated>>
authority == <<head, commits>>
local == <<pc, job, seen, result>>
vars == <<conversation, authority, runs, local, crashes>>

NoJob == [call |-> "none", input |-> NoInput]

Pending(b) == [status |-> "pending", base |-> b]

NoResult == [status |-> "none", mutation |-> FALSE]

Init ==
    /\ proposals = [x \in Inputs |-> [status |-> "absent", base |-> 0]]
    /\ requests = [x \in Inputs |-> "absent"]
    /\ expired = {} /\ receipts = {} /\ correlated = {}
    /\ head = 0 /\ commits = {}
    /\ runs = [x \in Inputs |-> 0]
    /\ pc = [p \in Processes |-> "idle"]
    /\ job = [p \in Processes |-> NoJob]
    /\ seen = [p \in Processes |-> 0]
    /\ result = [p \in Processes |-> NoResult]
    /\ crashes = 0

Goto(p, step) == pc' = [pc EXCEPT ![p] = step]

Input(p) == job[p].input

Begin(p, call, x, step) ==
    /\ pc[p] = "idle"
    /\ job' = [job EXCEPT ![p] = [call |-> call, input |-> x]]
    /\ Goto(p, step)

LoadState(p) == seen' = [seen EXCEPT ![p] = head]

Conclude(p, status, mutation) ==
    /\ result' = [result EXCEPT ![p] = [status |-> status, mutation |-> mutation]]
    /\ Goto(p, "receipt")

SetStatus(x, s) == proposals' = [proposals EXCEPT ![x].status = s]

-----------------------------------------------------------------------------
(* The world: others commit, and time passes                                *)

OtherCommit ==
    /\ head < MaxHead
    /\ head' = head + 1
    /\ UNCHANGED <<conversation, commits, runs, local, crashes>>

Expire(x) ==
    /\ requests[x] = "pending" /\ x \notin expired
    /\ expired' = expired \cup {x}
    /\ UNCHANGED <<proposals, requests, receipts, correlated, authority, runs, local, crashes>>

-----------------------------------------------------------------------------
(* process_action_draft                                                     *)

Received == {x \in Inputs : proposals[x].status # "absent" \/ \E p \in Processes : Input(p) = x}

(* Identities are fresh: an input is proposed once.                        *)
Receive(p, x) ==
    /\ x \notin Received
    /\ Cardinality(Received) < MaxActions
    /\ Begin(p, "act", x, "propose")
    /\ LoadState(p)
    /\ UNCHANGED <<conversation, authority, runs, result, crashes>>

Propose(p) ==
    LET x == Input(p) IN
    /\ pc[p] = "propose"
    /\ proposals' = [proposals EXCEPT ![x] = Pending(seen[p])]
    /\ Goto(p, CASE x.mode = "proposal_only" -> "done"
                 [] x.mode = "confirmed" -> "ask"
                 [] x.mode = "direct" -> "execute")
    /\ UNCHANGED <<requests, expired, receipts, correlated, authority, runs,
                   job, seen, result, crashes>>

AskConfirmation(p) ==
    /\ pc[p] = "ask"
    /\ requests' = [requests EXCEPT ![Input(p)] = "pending"]
    /\ Goto(p, "done")
    /\ UNCHANGED <<proposals, expired, receipts, correlated, authority, runs,
                   job, seen, result, crashes>>

-----------------------------------------------------------------------------
(* _confirm and _cancel                                                     *)

(* The coordinator lists the pending requests first; a human other than    *)
(* the one the request names is refused like an unknown one.               *)
Confirm(p, x) ==
    /\ requests[x] = "pending"
    /\ Begin(p, "confirm", x, "check")
    /\ UNCHANGED <<conversation, authority, runs, seen, result, crashes>>

(* Seeded fault: the state the request was made for is not compared. *)
ConfirmableAnywhere(p) == Input(p) \notin expired

Confirmable(p) == head = proposals[Input(p)].base /\ Input(p) \notin expired

CheckBinding(p) ==
    /\ pc[p] = "check"
    /\ LoadState(p)
    /\ Goto(p, IF Confirmable(p) THEN "consume" ELSE "done")
    /\ UNCHANGED <<conversation, authority, runs, job, result, crashes>>

Consume(p) ==
    LET x == Input(p) IN
    /\ pc[p] = "consume"
    /\ IF requests[x] = "pending"
         THEN /\ requests' = [requests EXCEPT ![x] = "consumed"]
              /\ SetStatus(x, "confirmed")
              /\ Goto(p, "execute")
         ELSE Goto(p, "done") /\ UNCHANGED <<requests, proposals>>
    /\ UNCHANGED <<expired, receipts, correlated, authority, runs, job, seen, result, crashes>>

Cancellable(x) ==
    IF x.mode = "proposal_only" THEN proposals[x].status = "pending"
    ELSE requests[x] = "pending"

(* A mere proposal or a request is cancelled by an update of its own; the  *)
(* proposal of a cancelled request only while it is pending.               *)
Cancel(p, x) ==
    /\ Cancellable(x)
    /\ Begin(p, "cancel", x, "receipt")
    /\ IF x.mode = "proposal_only" THEN UNCHANGED requests
       ELSE requests' = [requests EXCEPT ![x] = "cancelled"]
    /\ IF proposals[x].status = "pending" THEN SetStatus(x, "cancelled")
       ELSE UNCHANGED proposals
    /\ seen' = [seen EXCEPT ![p] = proposals[x].base]
    /\ result' = [result EXCEPT ![p] = [status |-> "cancelled", mutation |-> FALSE]]
    /\ UNCHANGED <<expired, receipts, correlated, authority, runs, crashes>>

-----------------------------------------------------------------------------
(* _execute                                                                 *)

(* The Human Decision the action needs may be missing or pending, and the  *)
(* service may fail, succeed without a transition or request one.          *)
Dispatch(p) ==
    LET x == Input(p) IN
    /\ pc[p] = "execute"
    /\ \/ Conclude(p, "rejected", FALSE)
       \/ x.route = "service" /\ Conclude(p, "failed", FALSE)
       \/ x.route = "service" /\ Conclude(p, "succeeded", FALSE)
       \/ x.route = "service" /\ Goto(p, "apply") /\ UNCHANGED result
       \/ x.route = "capability" /\ Goto(p, "prepare") /\ UNCHANGED result
    /\ UNCHANGED <<conversation, authority, runs, job, seen, crashes>>

(* A service that raises a ConversationRuntimeError ends the call.         *)
Raise(p) ==
    /\ pc[p] = "execute" /\ Input(p).route = "service"
    /\ Goto(p, "done")
    /\ UNCHANGED <<conversation, authority, runs, job, seen, result, crashes>>

HeadUnmoved(p) == head = seen[p]

(* StateTransitionService.apply, on the state loaded before.               *)
Apply(p) ==
    /\ pc[p] = "apply"
    /\ \/ /\ HeadUnmoved(p) /\ head < MaxHead
          /\ head' = head + 1
          /\ commits' = commits \cup {[input |-> Input(p), prior |-> head, made |-> head + 1]}
          /\ Conclude(p, "succeeded", TRUE)
       \/ Conclude(p, "rejected", FALSE) /\ UNCHANGED authority
    /\ UNCHANGED <<conversation, runs, job, seen, crashes>>

(* execute_managed or prepare_external, refused unless the Context Pack is *)
(* bound to the current state; a refusal may also come after the Run was   *)
(* created, when its start is overtaken.                                   *)
PrepareRun(p) ==
    LET x == Input(p) IN
    /\ pc[p] = "prepare"
    /\ \/ /\ HeadUnmoved(p)
          /\ runs' = [runs EXCEPT ![x] = @ + 1]
          /\ Goto(p, "correlate") /\ UNCHANGED result
       \/ /\ UNCHANGED runs \/ runs' = [runs EXCEPT ![x] = @ + 1]
          /\ Conclude(p, "failed", FALSE)
    /\ UNCHANGED <<conversation, authority, job, seen, crashes>>

Correlate(p) ==
    /\ pc[p] = "correlate"
    /\ correlated' = correlated \cup {Input(p)}
    /\ Conclude(p, "succeeded", FALSE)
    /\ UNCHANGED <<proposals, requests, expired, receipts, authority, runs, job, seen, crashes>>

(* Seeded fault: the receipt names the state that was loaded before.       *)
StateAfterKept(p) == seen[p]

(* After a transition the state is loaded again: it may be a later one.    *)
StateAfter(p) == IF result[p].mutation THEN head ELSE seen[p]

StoreReceipt(p) ==
    LET x == Input(p)
        r == result[p] IN
    /\ pc[p] = "receipt"
    /\ receipts' = receipts \cup
         {[input |-> x, status |-> r.status, mutation |-> r.mutation, before |-> seen[p],
           after |-> StateAfter(p)]}
    /\ SetStatus(x, IF r.status = "cancelled" THEN "cancelled" ELSE "completed")
    /\ Goto(p, "done")
    /\ UNCHANGED <<requests, expired, correlated, authority, runs, job, seen, result, crashes>>

-----------------------------------------------------------------------------

Forget(p) ==
    /\ Goto(p, "idle")
    /\ job' = [job EXCEPT ![p] = NoJob]
    /\ seen' = [seen EXCEPT ![p] = 0]
    /\ result' = [result EXCEPT ![p] = NoResult]
    /\ UNCHANGED <<conversation, authority, runs>>

Finish(p) == pc[p] = "done" /\ Forget(p) /\ UNCHANGED crashes

(* A process dies, or a database raises: nothing resumes the call.         *)
Crash(p) ==
    /\ pc[p] \notin {"idle", "done"}
    /\ crashes < MaxCrashes
    /\ crashes' = crashes + 1
    /\ Forget(p)

Next ==
    \/ OtherCommit
    \/ \E x \in Inputs : Expire(x)
    \/ \E p \in Processes :
          \/ \E x \in Inputs : Receive(p, x) \/ Confirm(p, x) \/ Cancel(p, x)
          \/ Propose(p) \/ AskConfirmation(p) \/ CheckBinding(p) \/ Consume(p)
          \/ Dispatch(p) \/ Raise(p) \/ Apply(p) \/ PrepareRun(p) \/ Correlate(p)
          \/ StoreReceipt(p) \/ Finish(p) \/ Crash(p)

Spec == Init /\ [][Next]_vars

-----------------------------------------------------------------------------
(* Properties                                                               *)

CommitsOf(x) == {c \in commits : c.input = x}

Effects(x) == Cardinality(CommitsOf(x)) + runs[x]

(* Every variable has the shape of the rows and calls it stands for.       *)
TypeOK ==
    /\ proposals \in [Inputs ->
          [status : {"absent", "pending", "confirmed", "cancelled", "completed"},
           base : 0..MaxHead]]
    /\ requests \in [Inputs -> {"absent", "pending", "consumed", "cancelled"}]
    /\ expired \subseteq Inputs /\ correlated \subseteq Inputs
    /\ receipts \subseteq
          [input : Inputs, status : {"succeeded", "rejected", "failed", "cancelled"},
           mutation : BOOLEAN, before : 0..MaxHead, after : 0..MaxHead]
    /\ head \in 0..MaxHead
    /\ commits \subseteq [input : Inputs, prior : 0..MaxHead, made : 0..MaxHead]
    /\ runs \in [Inputs -> Nat]
    /\ pc \in [Processes -> {"idle", "propose", "ask", "check", "consume", "execute",
                             "apply", "prepare", "correlate", "receipt", "done"}]
    /\ job \in [Processes ->
          [call : {"none", "act", "confirm", "cancel"}, input : Inputs \cup {NoInput}]]
    /\ seen \in [Processes -> 0..MaxHead]
    /\ result \in [Processes ->
          [status : {"none", "succeeded", "rejected", "failed", "cancelled"},
           mutation : BOOLEAN]]
    /\ crashes \in 0..MaxCrashes

(* However many confirmations of it race, an action has one effect at      *)
(* most; one that awaits a Confirmation or was cancelled has none, and a   *)
(* mere proposal never has any.                                            *)
OneWarrantedEffect ==
    \A x \in Inputs : Effects(x) > 0 =>
        /\ Effects(x) = 1
        /\ x.mode # "proposal_only"
        /\ x.mode = "confirmed" => requests[x] = "consumed"

(* An action changes the state it was proposed and confirmed for or none:  *)
(* nothing rebases it over a commit that came in between.                  *)
EffectOnBoundState == \A c \in commits : c.prior = proposals[c.input].base

(* An action has one effect at most, with the Confirmation its mode asks   *)
(* for and on the state it was bound to.                                   *)
EffectsAuthorized == TypeOK /\ OneWarrantedEffect /\ EffectOnBoundState

(* A receipt tells the truth however late it is written: there is one per  *)
(* action, it claims a mutation exactly if the action committed, the       *)
(* states it names enclose that commit, and a Run it reports is one whose  *)
(* result can be collected.                                                *)
ReceiptsTellTruth ==
    \A r \in receipts :
        /\ \A s \in receipts : s.input = r.input => s = r
        /\ r.mutation = (CommitsOf(r.input) # {})
        /\ \A c \in CommitsOf(r.input) : r.before = c.prior /\ r.after >= c.made
        /\ r.status \in {"rejected", "cancelled"} => Effects(r.input) = 0
        /\ r.status = "succeeded" /\ r.input.route = "capability" => r.input \in correlated

(* Who answers a request first decides for good: a consumed or cancelled   *)
(* request, and a cancelled or completed proposal, stay what they are.     *)
AnswersAreFinal ==
    \A x \in Inputs :
        /\ requests[x] \in {"consumed", "cancelled"} => requests'[x] = requests[x]
        /\ proposals[x].status \in {"cancelled", "completed"} => proposals'[x] = proposals[x]
=============================================================================
