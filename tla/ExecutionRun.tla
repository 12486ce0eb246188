----------------------------- MODULE ExecutionRun -----------------------------
(***************************************************************************)
(* Capability Runs (core/execution/service.py) over the local execution    *)
(* store.  Every call is a sequence of separate store transactions, and    *)
(* several processes prepare, execute, collect and abort the same Runs;    *)
(* any of them may die between two transactions.  SUPERSEDED is in the     *)
(* code's tables but no call writes it.                                    *)
(*                                                                         *)
(* A result is what an adapter or a human hands over: the Handoff with its *)
(* identity, the Run it names, whether the canonical validation accepts it *)
(* and the verdict it carries.                                             *)
(***************************************************************************)
EXTENDS Naturals, Sequences

CONSTANTS
    Runs,
    Managed,      \* those executed by an adapter; the rest are external
    Parent,       \* the Run each one retries, or NoRun
    Handoffs,     \* records with id, run, fits, verdict
    Processes,
    MaxCrashes,   \* bound: deaths of processes and results the store failed to take
    NoRun, NoHandoff

HandoffRecord(h) ==
    /\ h.run \in Runs
    /\ h.fits \in BOOLEAN
    /\ h.verdict \in {"valid", "partial", "rejected"}

RunAssumption ==
    /\ NoRun \notin Runs
    /\ Managed \subseteq Runs
    /\ Parent \in [Runs -> Runs \cup {NoRun}]
HandoffAssumption ==
    NoHandoff \notin Handoffs /\ \A h \in Handoffs : HandoffRecord(h)
CrashAssumption == MaxCrashes \in Nat

VARIABLES
    status,        \* runs.status, "ABSENT" before create_run
    attempt,       \* runs.attempt
    handoffRef,    \* runs.handoff_ref with its digest
    events,        \* run_events: the to_status of each, by sequence
    documents,     \* stored Handoffs
    diagnostics,   \* diagnostics with the result they keep
    candidates,    \* StateDeltaProposals handed to callers
    pc, job,       \* where each process stands, and with which call
    abandoned,     \* Runs a dying process was working on
    crashes

store == <<status, attempt, handoffRef, events, documents, diagnostics>>
process == <<pc, job>>
vars == <<store, candidates, process, abandoned, crashes>>

Terminal == {"COMPLETED", "FAILED", "ABORTED"}

AllowedTransitions ==
    [s \in {"PREPARED", "RUNNING"} |->
        IF s = "PREPARED" THEN {"RUNNING", "ABORTED"} ELSE Terminal]

Calls == {"execute", "prepare", "collect", "abort"}

NoJob == [call |-> "none", run |-> NoRun, handoff |-> NoHandoff, seen |-> "ABSENT"]

Init ==
    /\ status = [r \in Runs |-> "ABSENT"]
    /\ attempt = [r \in Runs |-> 0]
    /\ handoffRef = [r \in Runs |-> NoHandoff]
    /\ events = [r \in Runs |-> <<>>]
    /\ documents = {}
    /\ diagnostics = {}
    /\ candidates = {}
    /\ pc = [p \in Processes |-> "idle"]
    /\ job = [p \in Processes |-> NoJob]
    /\ abandoned = {}
    /\ crashes = 0

-----------------------------------------------------------------------------
(* The store's transactions                                                 *)

Goto(p, step) == pc' = [pc EXCEPT ![p] = step] /\ UNCHANGED job

Begin(p, call, r, h, step) ==
    /\ pc[p] = "idle"
    /\ pc' = [pc EXCEPT ![p] = step]
    /\ job' = [job EXCEPT ![p] =
                 [call |-> call, run |-> r, handoff |-> h, seen |-> status[r]]]

Sequence(from) == IF from = "PREPARED" THEN 2 ELSE 3

(* The event must continue the history; otherwise the store raises.        *)
Contiguous(r, from) == Sequence(from) = Len(events[r]) + 1

Transition(r, from, to) ==
    /\ status[r] = from
    /\ Contiguous(r, from)
    /\ to \in AllowedTransitions[from]
    /\ status' = [status EXCEPT ![r] = to]
    /\ events' = [events EXCEPT ![r] = Append(@, to)]
    /\ UNCHANGED <<attempt, documents, diagnostics>>

(* The compare-and-set finds another status.                               *)
Overtaken(r, from) == status[r] # from

Diagnose(p) ==
    /\ diagnostics' = diagnostics \cup {[run |-> job[p].run, handoff |-> job[p].handoff]}
    /\ UNCHANGED <<status, attempt, handoffRef, events, documents>>

-----------------------------------------------------------------------------
(* _prepare and the start of the Run                                        *)

RetryAllowed(r) == Parent[r] # NoRun => status[Parent[r]] \in Terminal

Prepare(p, r) ==
    /\ RetryAllowed(r)
    /\ Begin(p, IF r \in Managed THEN "execute" ELSE "prepare", r, NoHandoff, "create")
    /\ UNCHANGED <<store, candidates, abandoned, crashes>>

CreateRun(p) ==
    LET r == job[p].run IN
    /\ pc[p] = "create"
    /\ IF status[r] = "ABSENT"
         THEN /\ status' = [status EXCEPT ![r] = "PREPARED"]
              /\ attempt' = [attempt EXCEPT ![r] =
                               IF Parent[r] = NoRun THEN 1 ELSE attempt[Parent[r]] + 1]
              /\ Goto(p, "announce")
         ELSE /\ Goto(p, "done")             \* Run ID is single-use
              /\ UNCHANGED <<status, attempt>>
    /\ UNCHANGED <<handoffRef, events, documents, diagnostics, candidates, abandoned, crashes>>

AppendInitial(p) ==
    LET r == job[p].run IN
    /\ pc[p] = "announce"
    /\ events[r] = <<>> /\ status[r] = "PREPARED"
    /\ events' = [events EXCEPT ![r] = <<"PREPARED">>]
    /\ Goto(p, "start")
    /\ UNCHANGED <<status, attempt, handoffRef, documents, diagnostics,
                   candidates, abandoned, crashes>>

Start(p) ==
    LET r == job[p].run IN
    /\ pc[p] = "start"
    /\ \/ /\ Transition(r, "PREPARED", "RUNNING")
          /\ UNCHANGED handoffRef
          /\ Goto(p, IF r \in Managed THEN "adapter" ELSE "done")
       \/ Overtaken(r, "PREPARED") /\ Goto(p, "done") /\ UNCHANGED store
    /\ UNCHANGED <<candidates, abandoned, crashes>>

(* The adapter returns some result, or raises.                             *)
AdapterReturns(p, h) ==
    /\ pc[p] = "adapter"
    /\ pc' = [pc EXCEPT ![p] = "capture"]
    /\ job' = [job EXCEPT ![p].handoff = h]
    /\ UNCHANGED <<store, candidates, abandoned, crashes>>

AdapterRaises(p) ==
    /\ pc[p] = "adapter"
    /\ Goto(p, "fail")
    /\ UNCHANGED <<store, candidates, abandoned, crashes>>

-----------------------------------------------------------------------------
(* collect_external and _accept_output                                      *)

(* What comes too late for an aborted Run is kept as a diagnostic; a Run   *)
(* in another state than RUNNING refuses the call.                         *)
Collect(p, r, h) ==
    /\ r \notin Managed
    /\ status[r] \in {"RUNNING", "ABORTED"}
    /\ Begin(p, "collect", r, h, IF status[r] = "RUNNING" THEN "capture" ELSE "diagnose")
    /\ UNCHANGED <<store, candidates, abandoned, crashes>>

(* An identity already used for other content fails closed.                *)
Collides(h) == \E d \in documents : d.id = h.id /\ d # h

Valid(r, h) == h.run = r /\ h.fits

(* Seeded fault: the store's refusal is not caught. *)
CaptureUncaught(p) ==
    LET h == job[p].handoff IN
    /\ pc[p] = "capture"
    /\ \/ Collides(h) /\ Goto(p, "done") /\ UNCHANGED documents
       \/ /\ ~Collides(h)
          /\ documents' = documents \cup {h}
          /\ Goto(p, IF Valid(job[p].run, h) THEN "complete" ELSE "fail")
    /\ UNCHANGED <<status, attempt, handoffRef, events, diagnostics,
                   candidates, abandoned, crashes>>

(* The raw Handoff is stored before it is validated; its extension or an   *)
(* artifact may still be refused.                                          *)
Capture(p) ==
    LET r == job[p].run
        h == job[p].handoff IN
    /\ pc[p] = "capture"
    /\ \/ Collides(h) /\ Goto(p, "fail") /\ UNCHANGED documents
       \/ /\ ~Collides(h)
          /\ documents' = documents \cup {h}
          /\ \/ Goto(p, "fail")
             \/ Valid(r, h) /\ Goto(p, "complete")
    /\ UNCHANGED <<status, attempt, handoffRef, events, diagnostics,
                   candidates, abandoned, crashes>>

(* The store raises for another reason: the Run fails, and the result is   *)
(* neither stored nor kept as a diagnostic.                                *)
LoseResult(p) ==
    /\ pc[p] = "capture"
    /\ crashes < MaxCrashes
    /\ crashes' = crashes + 1
    /\ pc' = [pc EXCEPT ![p] = "fail"]
    /\ job' = [job EXCEPT ![p].handoff = NoHandoff]
    /\ UNCHANGED <<store, candidates, abandoned>>

Complete(p) ==
    LET r == job[p].run
        h == job[p].handoff IN
    /\ pc[p] = "complete"
    /\ \/ /\ Transition(r, "RUNNING", "COMPLETED")
          /\ handoffRef' = [handoffRef EXCEPT ![r] = h]
          /\ Goto(p, IF h.verdict = "rejected" THEN "done" ELSE "normalize")
       \/ Overtaken(r, "RUNNING") /\ Goto(p, "diagnose") /\ UNCHANGED store
    /\ UNCHANGED <<candidates, abandoned, crashes>>

(* Seeded fault: what comes too late is dropped. *)
DropLateResult(p) ==
    /\ pc[p] = "diagnose"
    /\ Goto(p, "done")
    /\ UNCHANGED <<store, candidates, abandoned, crashes>>

KeepAsDiagnostic(p) ==
    /\ pc[p] = "diagnose"
    /\ Diagnose(p)
    /\ Goto(p, "done")
    /\ UNCHANGED <<candidates, abandoned, crashes>>

(* Normalization may refuse: the State moved, or the content is unfit.     *)
Normalize(p) ==
    /\ pc[p] = "normalize"
    /\ \/ candidates' = candidates \cup {[run |-> job[p].run, handoff |-> job[p].handoff]}
       \/ UNCHANGED candidates
    /\ Goto(p, "done")
    /\ UNCHANGED <<store, abandoned, crashes>>

Fail(p) ==
    LET r == job[p].run IN
    /\ pc[p] = "fail"
    /\ \/ Transition(r, "RUNNING", "FAILED") /\ UNCHANGED handoffRef
       \/ Overtaken(r, "RUNNING") /\ UNCHANGED store
    /\ Goto(p, "done")
    /\ UNCHANGED <<candidates, abandoned, crashes>>

-----------------------------------------------------------------------------
(* abort, and processes that leave                                          *)

Abort(p, r) ==
    /\ status[r] # "ABSENT"
    /\ Begin(p, "abort", r, NoHandoff,
             IF status[r] \in Terminal THEN "done" ELSE "abort")
    /\ UNCHANGED <<store, candidates, abandoned, crashes>>

AbortTransition(p) ==
    LET r == job[p].run
        from == job[p].seen IN
    /\ pc[p] = "abort"
    /\ \/ Transition(r, from, "ABORTED") /\ UNCHANGED handoffRef /\ Goto(p, "cancel")
       \/ /\ Overtaken(r, from) \/ ~Contiguous(r, from)
          /\ Goto(p, "done") /\ UNCHANGED store
    /\ UNCHANGED <<candidates, abandoned, crashes>>

(* The adapter's cancel hook is best effort and stops nothing; that it     *)
(* failed is noted in a diagnostic nothing reads.                          *)
Cancel(p) ==
    /\ pc[p] = "cancel"
    /\ Goto(p, "done")
    /\ UNCHANGED <<store, candidates, abandoned, crashes>>

Finish(p) ==
    /\ pc[p] = "done"
    /\ pc' = [pc EXCEPT ![p] = "idle"]
    /\ job' = [job EXCEPT ![p] = NoJob]
    /\ UNCHANGED <<store, candidates, abandoned, crashes>>

(* A process dies, or the store raises and the call goes no further.       *)
Crash(p) ==
    /\ pc[p] \notin {"idle", "done"}
    /\ crashes < MaxCrashes
    /\ crashes' = crashes + 1
    /\ abandoned' = abandoned \cup
         {r \in Runs : r = job[p].run /\ pc[p] # "create" /\ job[p].call \in {"execute", "prepare"}}
    /\ pc' = [pc EXCEPT ![p] = "idle"]
    /\ job' = [job EXCEPT ![p] = NoJob]
    /\ UNCHANGED <<store, candidates>>

Step(p) ==
    \/ CreateRun(p) \/ AppendInitial(p) \/ Start(p)
    \/ AdapterRaises(p) \/ (\E h \in Handoffs : AdapterReturns(p, h))
    \/ Capture(p) \/ LoseResult(p) \/ Complete(p)
    \/ KeepAsDiagnostic(p) \/ Normalize(p) \/ Fail(p)
    \/ AbortTransition(p) \/ Cancel(p)

Next ==
    \E p \in Processes :
        \/ Step(p) \/ Finish(p) \/ Crash(p)
        \/ \E r \in Runs :
              \/ Prepare(p, r) \/ Abort(p, r)
              \/ \E h \in Handoffs : Collect(p, r, h)

Spec == Init /\ [][Next]_vars

(* A live process carries its call through; the adapter returns or raises. *)
FairSpec == Spec /\ \A p \in Processes : WF_vars(Step(p))

-----------------------------------------------------------------------------
(* Properties                                                               *)

Steps == {"idle", "create", "announce", "start", "adapter", "capture", "complete",
          "diagnose", "normalize", "fail", "abort", "cancel", "done"}

(* Every variable has the shape of the rows and calls it stands for.       *)
TypeOK ==
    /\ status \in [Runs -> Terminal \cup {"ABSENT", "PREPARED", "RUNNING"}]
    /\ attempt \in [Runs -> Nat]
    /\ handoffRef \in [Runs -> Handoffs \cup {NoHandoff}]
    /\ events \in [Runs -> Seq(Terminal \cup {"PREPARED", "RUNNING"})]
    /\ documents \subseteq Handoffs
    /\ diagnostics \subseteq [run : Runs, handoff : Handoffs]
    /\ candidates \subseteq [run : Runs, handoff : Handoffs]
    /\ pc \in [Processes -> Steps]
    /\ job \in [Processes -> [call : Calls \cup {"none"}, run : Runs \cup {NoRun},
                              handoff : Handoffs \cup {NoHandoff},
                              seen : Terminal \cup {"ABSENT", "PREPARED", "RUNNING"}]]
    /\ abandoned \subseteq Runs
    /\ crashes \in 0..MaxCrashes

FollowsLifecycle(history, now) ==
    IF history = <<>> THEN now \in {"ABSENT", "PREPARED"}
    ELSE /\ now = history[Len(history)]
         /\ history[1] = "PREPARED"
         /\ \A i \in 2..Len(history) :
               /\ history[i - 1] \in {"PREPARED", "RUNNING"}
               /\ history[i] \in AllowedTransitions[history[i - 1]]

(* The Run projection and its append-only history agree whatever races:    *)
(* the last event is the status, the history is a path of the lifecycle,   *)
(* and a Run without history has gone nowhere.                             *)
HistoryMatches == \A r \in Runs : FollowsLifecycle(events[r], status[r])

(* A terminal Run never reopens, changes its outcome or its Handoff, nor   *)
(* gets another event, however late a result or an abort arrives.          *)
NothingAfterTheEnd ==
    \A r \in Runs : status[r] \in Terminal =>
        /\ status'[r] = status[r]
        /\ handoffRef'[r] = handoffRef[r]
        /\ events'[r] = events[r]

(* A completed Run, and no other, records a Handoff, which is stored and   *)
(* passed validation against that Run.                                     *)
CompletionBacked ==
    \A r \in Runs :
        IF status[r] = "COMPLETED"
        THEN /\ handoffRef[r] \in documents
             /\ handoffRef[r].run = r /\ handoffRef[r].fits
        ELSE handoffRef[r] = NoHandoff

(* Racing collectors of one Run hand out at most one candidate, for the    *)
(* Handoff the Run recorded, and a rejected one never yields any.          *)
OneCandidate ==
    \A c \in candidates :
        /\ status[c.run] = "COMPLETED"
        /\ c.handoff = handoffRef[c.run]
        /\ c.handoff.verdict # "rejected"

(* A result that reached the runtime is kept, as the stored Handoff or as  *)
(* a diagnostic, unless its identity was taken by other content or the     *)
(* store failed to write it.                                               *)
Kept(p) ==
    \/ job[p].handoff \in documents
    \/ \E d \in diagnostics : d.run = job[p].run /\ d.handoff = job[p].handoff
    \/ Collides(job[p].handoff)

ReturnsKept ==
    \A p \in Processes : pc[p] = "done" /\ job[p].handoff # NoHandoff => Kept(p)

(* A retry exists only beside its finished parent and counts on from it.   *)
RetryAfterTerminal ==
    \A r \in Runs : status[r] # "ABSENT" /\ Parent[r] # NoRun =>
        status[Parent[r]] \in Terminal /\ attempt[r] = attempt[Parent[r]] + 1

(* A Run that ended has its events in order, one candidate at most, and is *)
(* COMPLETED only with a result that was valid for it; what anybody        *)
(* returned is kept if the store could write it, and a retry follows a Run *)
(* that ended.                                                             *)
ResultsRetained ==
    /\ TypeOK /\ HistoryMatches /\ CompletionBacked
    /\ OneCandidate /\ ReturnsKept /\ RetryAfterTerminal

(* Whatever the adapter answers and whoever aborts meanwhile, a managed    *)
(* Run that no dying process abandoned comes to a terminal status.         *)
ManagedRunsEnd ==
    \A r \in Managed :
        status[r] \in {"PREPARED", "RUNNING"} ~> status[r] \in Terminal \/ r \in abandoned

=============================================================================
