---------------------------- MODULE ExecutionStore ----------------------------
(***************************************************************************)
(* The execution store: Runs with their documents, and the artifacts that  *)
(* are kept for them.  The two share nothing but the processes that use    *)
(* them: a behaviour picks one and the other stands still.  (What captures *)
(* need of a Run, that it is RUNNING, is in CaptureStore.)                 *)
(* What is proved of each holds of the store that keeps the two.           *)
(***************************************************************************)
EXTENDS Naturals, Sequences, FiniteSets, SequenceTheorems, FiniteSetTheorems, TLAPS

CONSTANTS
    Processes,
    Runs, Managed, Parent, Handoffs, MaxCrashes, NoRun, NoHandoff,
    Jobs, RoleLimit, MaxFaults, Free, NoCall

VARIABLES
    service,
    status, attempt, handoffRef, events, documents, diagnostics, candidates, pc, job,
    abandoned, crashes,
    lock, reservation, running, files, rows, trace, capturePc, captureJob, todo, fresh, faults

Execution == INSTANCE ExecutionRun

Store == INSTANCE CaptureStore
    WITH Writers <- Processes, pc <- capturePc, job <- captureJob, NoJob <- NoCall

runVars == <<status, attempt, handoffRef, events, documents, diagnostics, candidates, pc, job,
             abandoned, crashes>>
storeVars == <<lock, reservation, running, files, rows, trace, capturePc, captureJob,
               todo, fresh, faults>>

Init ==
    /\ service \in {"runs", "artifacts"}
    /\ Execution!Init /\ Store!Init

Next ==
    /\ UNCHANGED service
    /\ \/ service = "runs" /\ Execution!Next /\ UNCHANGED storeVars
       \/ service = "artifacts" /\ Store!Next /\ UNCHANGED runVars

(* A live process carries its call through; the adapter returns or raises. *)
Spec ==
    /\ Init /\ [][Next]_<<service, runVars, storeVars>>
    /\ \A p \in Processes : WF_runVars(service = "runs" /\ Execution!Step(p))

(* A Run that ended has its events in order, one candidate at most, and is *)
(* COMPLETED only with a result that was valid for it; what anybody        *)
(* returned is kept if the store could write it, and a retry follows a Run *)
(* that ended.                                                             *)
ResultsRetained == Execution!ResultsRetained

(* Whatever the adapter answers and whoever aborts meanwhile, a managed    *)
(* Run that no dying process abandoned comes to a terminal status.         *)
ManagedRunsEnd == Execution!ManagedRunsEnd

(* No committed row is ever without its file, whoever fails and cleans up, *)
(* but for the bytes a capture shares with another Run's call; an identity *)
(* has one content and no Run more captures than its limits.               *)
NoDangling == Store!NoDangling

(* Once a Run has ended, no late result or abort changes its outcome, and  *)
(* no capture or batch in progress adds a row or an event to it (an output *)
(* that is put for it may still come).                                     *)
NothingAfterTheEnd ==
    [][Execution!NothingAfterTheEnd /\ Store!NothingAfterTheEnd]_<<runVars, storeVars>>

-----------------------------------------------------------------------------
Statuses == Execution!Terminal \cup {"ABSENT", "PREPARED", "RUNNING"}

Records == [call : Execution!Calls \cup {"none"}, run : Runs \cup {NoRun},
            handoff : Handoffs \cup {NoHandoff}, seen : Statuses]

(* What a call knows at each of its steps: the Run it works on, the result *)
(* that it holds and what became of that, and for a retry that the parent  *)
(* has ended.                                                              *)
CallSound(p) ==
    LET r == job[p].run
        h == job[p].handoff
    IN  /\ pc[p] # "idle" => r \in Runs
        /\ pc[p] \in {"idle", "create", "announce", "start", "adapter", "abort", "cancel"} =>
              h = NoHandoff
        /\ pc[p] = "create" => Execution!RetryAllowed(r)
        /\ pc[p] \in {"capture", "complete", "diagnose", "normalize"} => h \in Handoffs
        /\ pc[p] \in {"complete", "normalize"} => h \in documents /\ Execution!Valid(r, h)
        /\ pc[p] = "normalize" =>
              status[r] = "COMPLETED" /\ handoffRef[r] = h /\ h.verdict # "rejected"
        /\ pc[p] = "abort" => job[p].seen \in {"PREPARED", "RUNNING"}
        /\ pc[p] \in {"fail", "done"} /\ h # NoHandoff => Execution!Kept(p)

CallsSound == \A p \in Processes : CallSound(p)

RunInv == Execution!ResultsRetained /\ CallsSound

(* What no step takes back: stored results, ended Runs, assigned attempts. *)
StoreGrows ==
    /\ documents \subseteq documents' /\ diagnostics \subseteq diagnostics'
    /\ \A r \in Runs :
          /\ status[r] # "ABSENT" => status'[r] # "ABSENT" /\ attempt'[r] = attempt[r]
          /\ status[r] \in Execution!Terminal
               => status'[r] = status[r] /\ handoffRef'[r] = handoffRef[r]
                                       /\ events'[r] = events[r]

LEMMA RunInit ==
    ASSUME Execution!RunAssumption, Execution!HandoffAssumption, Execution!CrashAssumption
    PROVE  Execution!Init => RunInv
<1> SUFFICES ASSUME Execution!Init PROVE RunInv
  OBVIOUS
<1>1. Execution!TypeOK
  BY DEF Execution!Init, Execution!TypeOK, Execution!NoJob, Execution!Steps,
     Execution!CrashAssumption
<1>2. Execution!HistoryMatches /\ Execution!CompletionBacked /\ Execution!OneCandidate
      /\ Execution!ReturnsKept /\ Execution!RetryAfterTerminal
  BY DEF Execution!Init, Execution!NoJob, Execution!HistoryMatches,
     Execution!FollowsLifecycle, Execution!CompletionBacked, Execution!OneCandidate,
         Execution!ReturnsKept, Execution!RetryAfterTerminal
<1>3. CallsSound
  BY DEF Execution!Init, Execution!NoJob, CallsSound, CallSound
<1> QED BY <1>1, <1>2, <1>3 DEF RunInv, Execution!ResultsRetained

(* A history that follows the lifecycle still does with the next status.   *)
LEMMA HistoryGrows ==
    ASSUME NEW history \in Seq(Execution!Terminal \cup {"PREPARED", "RUNNING"}), history # <<>>,
           NEW from \in {"PREPARED", "RUNNING"}, NEW to \in Execution!AllowedTransitions[from],
           Execution!FollowsLifecycle(history, from)
    PROVE  Execution!FollowsLifecycle(Append(history, to), to)
<1> DEFINE n == Len(history)
           next == Append(history, to)
<1>1. n \in Nat \ {0} /\ to \in Execution!Terminal \cup {"RUNNING"}
  BY EmptySeq, LenProperties DEF Execution!AllowedTransitions, Execution!Terminal
<1>2. Len(next) = n + 1 /\ next[n + 1] = to /\ \A i \in 1..n : next[i] = history[i]
  BY <1>1, AppendProperties DEF Execution!Terminal
<1>3. next # <<>> /\ next[1] = "PREPARED"
  BY <1>1, <1>2 DEF Execution!FollowsLifecycle
<1>4. ASSUME NEW i \in 2..(n + 1)
      PROVE  next[i - 1] \in {"PREPARED", "RUNNING"}
             /\ next[i] \in Execution!AllowedTransitions[next[i - 1]]
  <2>1. CASE i = n + 1
    BY <1>1, <1>2, <2>1 DEF Execution!FollowsLifecycle
  <2>2. CASE i \in 2..n
    BY <1>1, <1>2, <2>2 DEF Execution!FollowsLifecycle
  <2> QED BY <1>1, <1>4, <2>1, <2>2
<1> QED BY <1>2, <1>3, <1>4 DEF Execution!FollowsLifecycle

(* One process moves within the store; the others keep what they know.     *)
LEMMA RunOthers ==
    ASSUME Execution!RunAssumption, RunInv, StoreGrows, NEW p \in Processes,
           NEW d \in Processes \ {p},
           UNCHANGED <<pc[d], job[d]>>
    PROVE  CallSound(d)'
<1>1. Execution!Kept(d) => Execution!Kept(d)'
  BY DEF StoreGrows, Execution!Kept, Execution!Collides
<1>2. pc[d] = "create" => Execution!RetryAllowed(job[d].run)'
  BY DEF RunInv, CallsSound, CallSound, Execution!RetryAllowed, StoreGrows,
     Execution!RunAssumption
<1>3. pc[d] # "idle" => job[d].run \in Runs
  BY DEF RunInv, CallsSound, CallSound
<1>4. pc[d] = "normalize" => UNCHANGED <<status[job[d].run], handoffRef[job[d].run]>>
  BY <1>3 DEF RunInv, CallsSound, CallSound, StoreGrows, Execution!Terminal
<1> QED BY <1>1, <1>2, <1>3, <1>4 DEF RunInv, CallsSound, CallSound, Execution!Valid, StoreGrows

(* Any step of one process that leaves statuses, events and handoffRef as  *)
(* they are, and adds only sound documents, diagnostics and candidates.    *)
LEMMA RunQuiet ==
    ASSUME Execution!RunAssumption, Execution!HandoffAssumption, RunInv, NEW p \in Processes,
           UNCHANGED <<status, attempt, handoffRef, events>>,
           documents \subseteq documents', diagnostics \subseteq diagnostics',
           \A c \in candidates' \ candidates :
               /\ c.run \in Runs /\ status[c.run] = "COMPLETED"
               /\ c.handoff = handoffRef[c.run] /\ c.handoff.verdict # "rejected",
           Execution!TypeOK', CallSound(p)',
           \A d \in Processes \ {p} : UNCHANGED <<pc[d], job[d]>>
    PROVE  RunInv' /\ StoreGrows
<1>1. StoreGrows
  BY DEF StoreGrows
<1>2. CallsSound'
  BY <1>1, RunOthers DEF CallsSound
<1>3. Execution!HistoryMatches' /\ Execution!RetryAfterTerminal'
  BY DEF RunInv, Execution!ResultsRetained, Execution!HistoryMatches,
     Execution!RetryAfterTerminal
<1>4. Execution!CompletionBacked' /\ Execution!OneCandidate'
  BY DEF RunInv, Execution!ResultsRetained, Execution!CompletionBacked, Execution!OneCandidate
<1>5. Execution!ReturnsKept'
  BY <1>2 DEF CallsSound, CallSound, Execution!ReturnsKept
<1> QED BY <1>1, <1>2, <1>3, <1>4, <1>5 DEF RunInv, Execution!ResultsRetained

(* A status that changes by the store's compare-and-set.                   *)
LEMMA RunMoves ==
    ASSUME Execution!RunAssumption, Execution!HandoffAssumption, RunInv, NEW p \in Processes,
           NEW r \in Runs, NEW from \in {"PREPARED", "RUNNING"}, NEW to,
           Execution!Transition(r, from, to), UNCHANGED <<candidates, job, abandoned, crashes>>,
           NEW s \in Execution!Steps \ {"idle"}, pc' = [pc EXCEPT ![p] = s], pc[p] # "idle",
           CallSound(p)',
           to # "COMPLETED" => UNCHANGED handoffRef,
           to = "COMPLETED" =>
              /\ handoffRef' = [handoffRef EXCEPT ![r] = job[p].handoff]
              /\ job[p].handoff \in documents /\ Execution!Valid(r, job[p].handoff)
    PROVE  RunInv' /\ StoreGrows
<1>1. Execution!TypeOK /\ status[r] = from /\ Len(events[r]) > 0
      /\ to \in Execution!Terminal \cup {"RUNNING"}
  BY LenProperties DEF RunInv, Execution!ResultsRetained, Execution!TypeOK,
     Execution!Transition, Execution!Contiguous, Execution!Sequence,
     Execution!AllowedTransitions, Execution!Terminal
<1>2. /\ status'[r] = to /\ events'[r] = Append(events[r], to) /\ documents' = documents
      /\ \A q \in Runs \ {r} : UNCHANGED <<status[q], events[q], handoffRef[q]>>
      /\ UNCHANGED <<attempt, diagnostics>>
  BY <1>1 DEF Execution!Transition, Execution!TypeOK
<1>3. StoreGrows
  BY <1>1, <1>2 DEF StoreGrows, Execution!Terminal
<1>4. Execution!TypeOK'
  <2>1. status' \in [Runs -> Statuses]
    BY <1>1 DEF Execution!Transition, Execution!TypeOK, Statuses
  <2>2. handoffRef' \in [Runs -> Handoffs \cup {NoHandoff}]
    BY <1>1 DEF Execution!TypeOK
  <2>3. events' \in [Runs -> Seq(Execution!Terminal \cup {"PREPARED", "RUNNING"})]
    BY <1>1, AppendProperties DEF Execution!Transition, Execution!TypeOK
  <2> QED BY <1>1, <1>2, <2>1, <2>2, <2>3 DEF Execution!TypeOK, Statuses
<1>5. Execution!HistoryMatches'
  <2>1. events[r] \in Seq(Execution!Terminal \cup {"PREPARED", "RUNNING"}) /\ events[r] # <<>>
    BY <1>1, EmptySeq DEF Execution!TypeOK
  <2>2. Execution!FollowsLifecycle(events'[r], status'[r])
    BY <1>1, <1>2, <2>1, HistoryGrows DEF Execution!Transition, RunInv,
       Execution!ResultsRetained, Execution!HistoryMatches
  <2> QED BY <1>2, <2>2 DEF RunInv, Execution!ResultsRetained, Execution!HistoryMatches
<1>6. Execution!CompletionBacked'
  <2>1. handoffRef[r] = NoHandoff
    BY <1>1 DEF RunInv, Execution!ResultsRetained, Execution!CompletionBacked
  <2> QED BY <1>1, <1>2, <2>1 DEF RunInv, Execution!ResultsRetained,
     Execution!CompletionBacked, Execution!Valid, Execution!TypeOK
<1>7. Execution!OneCandidate'
  BY <1>1, <1>2 DEF RunInv, Execution!ResultsRetained, Execution!OneCandidate, Execution!TypeOK
<1>8. Execution!RetryAfterTerminal'
  BY <1>1, <1>2 DEF RunInv, Execution!ResultsRetained, Execution!RetryAfterTerminal,
     Execution!RunAssumption, Execution!Terminal
<1>9. CallsSound'
  BY <1>1, <1>3, RunOthers DEF CallsSound, Execution!TypeOK
<1>10. Execution!ReturnsKept'
  BY <1>9 DEF CallsSound, CallSound, Execution!ReturnsKept
<1> QED BY <1>3, <1>4, <1>5, <1>6, <1>7, <1>8, <1>9, <1>10 DEF RunInv, Execution!ResultsRetained

(* create_run: a retry is created beside a parent that has ended.          *)
LEMMA RunCreated ==
    ASSUME Execution!RunAssumption, Execution!HandoffAssumption, RunInv, NEW p \in Processes,
           Execution!CreateRun(p)
    PROVE  RunInv' /\ StoreGrows
<1> DEFINE r == job[p].run
<1>1. /\ r \in Runs /\ Execution!TypeOK /\ Execution!RetryAllowed(r) /\ job[p].handoff = NoHandoff
      /\ UNCHANGED <<job, handoffRef, events, documents, diagnostics, candidates, abandoned,
           crashes>>
  BY DEF Execution!CreateRun, Execution!Goto, RunInv, Execution!ResultsRetained, CallsSound,
     CallSound
<1>2. PICK s \in {"announce", "done"} : pc' = [pc EXCEPT ![p] = s]
  BY DEF Execution!CreateRun, Execution!Goto
<1>3. /\ pc' \in [Processes -> Execution!Steps] /\ pc'[p] \in {"announce", "done"}
      /\ \A d \in Processes \ {p} : UNCHANGED <<pc[d], job[d]>>
  BY <1>1, <1>2 DEF Execution!TypeOK, Execution!Steps
<1>4. CallSound(p)'
  BY <1>1, <1>3 DEF CallSound
<1>5. CASE status[r] = "ABSENT"
  <2>1. status' = [status EXCEPT ![r] = "PREPARED"]
        /\ attempt' = [attempt EXCEPT ![r] = IF Parent[r] = NoRun THEN 1
             ELSE attempt[Parent[r]] + 1]
    BY <1>5 DEF Execution!CreateRun
  <2>2. Parent[r] # NoRun =>
          Parent[r] \in Runs \ {r} /\ status[Parent[r]] \in Execution!Terminal
              /\ attempt[Parent[r]] \in Nat
    BY <1>1, <1>5 DEF Execution!RunAssumption, Execution!RetryAllowed, Execution!Terminal,
       Execution!TypeOK
  <2>3. Execution!TypeOK'
    <3>1. attempt' \in [Runs -> Nat]
      BY <1>1, <2>1, <2>2 DEF Execution!TypeOK
    <3>2. status' \in [Runs -> Statuses]
      BY <1>1, <2>1 DEF Execution!TypeOK, Statuses
    <3> QED BY <1>1, <1>3, <3>1, <3>2 DEF Execution!TypeOK, Statuses
  <2>4. /\ status'[r] = "PREPARED"
        /\ Parent[r] # NoRun => attempt'[r] = attempt[Parent[r]] + 1
        /\ \A q \in Runs \ {r} : UNCHANGED <<status[q], attempt[q]>>
    BY <1>1, <2>1 DEF Execution!TypeOK
  <2>5. StoreGrows
    BY <1>1, <1>5, <2>4 DEF StoreGrows, Execution!Terminal
  <2>6. Execution!HistoryMatches'
    <3>1. ASSUME events[r] # <<>> PROVE FALSE
      <4> DEFINE S == Execution!Terminal \cup {"PREPARED", "RUNNING"}
                 n == Len(events[r])
      <4>1. events[r] \in Seq(S)
        BY <1>1 DEF Execution!TypeOK
      <4>2. n \in 1..Len(events[r])
        BY <3>1, <4>1, EmptySeq, LenProperties
      <4>3. events[r][n] \in S
        BY <4>1, <4>2, ElementOfSeq
      <4>4. events[r][n] = "ABSENT"
        BY <1>1, <1>5, <3>1 DEF RunInv, Execution!ResultsRetained, Execution!HistoryMatches,
           Execution!FollowsLifecycle
      <4> QED BY <4>3, <4>4 DEF Execution!Terminal
    <3> QED BY <1>1, <2>4, <3>1 DEF RunInv, Execution!ResultsRetained,
       Execution!HistoryMatches, Execution!FollowsLifecycle
  <2>7. Execution!CompletionBacked'
    BY <1>1, <1>5, <2>4 DEF RunInv, Execution!ResultsRetained, Execution!CompletionBacked
  <2>8. Execution!OneCandidate'
    BY <1>1, <1>5, <2>4 DEF RunInv, Execution!ResultsRetained, Execution!OneCandidate,
       Execution!TypeOK
  <2>9. Execution!RetryAfterTerminal'
    BY <1>1, <1>5, <2>2, <2>4
       DEF RunInv, Execution!ResultsRetained, Execution!RetryAfterTerminal,
          Execution!RunAssumption, Execution!Terminal
  <2>10. CallsSound'
    BY <1>3, <1>4, <2>5, RunOthers DEF CallsSound
  <2>11. Execution!ReturnsKept'
    BY <2>10 DEF CallsSound, CallSound, Execution!ReturnsKept
  <2> QED BY <2>3, <2>5, <2>6, <2>7, <2>8, <2>9, <2>10, <2>11 DEF RunInv,
     Execution!ResultsRetained
<1>6. CASE status[r] # "ABSENT"
  <2>1. UNCHANGED <<status, attempt>>
    BY <1>6 DEF Execution!CreateRun
  <2>2. Execution!TypeOK'
    BY <1>1, <1>3, <2>1 DEF Execution!TypeOK
  <2> QED BY <1>1, <1>3, <1>4, <2>1, <2>2, RunQuiet
<1> QED BY <1>5, <1>6

(* append_event of PREPARED, by the process that created the Run or by one *)
(* that finds it without history.                                          *)
LEMMA RunAnnounced ==
    ASSUME Execution!RunAssumption, Execution!HandoffAssumption, RunInv, NEW p \in Processes,
           Execution!AppendInitial(p)
    PROVE  RunInv' /\ StoreGrows
<1> DEFINE r == job[p].run
<1>1. /\ r \in Runs /\ Execution!TypeOK /\ job[p].handoff = NoHandoff /\ status[r] = "PREPARED"
      /\ pc' = [pc EXCEPT ![p] = "start"] /\ events' = [events EXCEPT ![r] = <<"PREPARED">>]
      /\ UNCHANGED <<job, status, attempt, handoffRef, documents, diagnostics, candidates,
                     abandoned, crashes>>
  BY DEF Execution!AppendInitial, Execution!Goto, RunInv, Execution!ResultsRetained,
     CallsSound, CallSound
<1>2. /\ pc' \in [Processes -> Execution!Steps] /\ pc'[p] = "start"
      /\ \A d \in Processes \ {p} : UNCHANGED <<pc[d], job[d]>>
  BY <1>1 DEF Execution!TypeOK, Execution!Steps
<1>3. CallSound(p)'
  BY <1>1, <1>2 DEF CallSound
<1>4. Execution!TypeOK'
  BY <1>1, <1>2 DEF Execution!TypeOK
<1>5. StoreGrows
  BY <1>1 DEF StoreGrows, Execution!Terminal, Execution!TypeOK
<1>6. Execution!HistoryMatches'
  <2>1. events'[r] = <<"PREPARED">> /\ \A q \in Runs \ {r} : UNCHANGED events[q]
    BY <1>1 DEF Execution!TypeOK
  <2>2. Execution!FollowsLifecycle(<<"PREPARED">>, "PREPARED")
    BY DEF Execution!FollowsLifecycle
  <2> QED BY <1>1, <2>1, <2>2 DEF RunInv, Execution!ResultsRetained, Execution!HistoryMatches
<1>7. Execution!CompletionBacked' /\ Execution!OneCandidate' /\ Execution!RetryAfterTerminal'
  BY <1>1 DEF RunInv, Execution!ResultsRetained, Execution!CompletionBacked,
     Execution!OneCandidate, Execution!RetryAfterTerminal
<1>8. CallsSound'
  BY <1>2, <1>3, <1>5, RunOthers DEF CallsSound
<1>9. Execution!ReturnsKept'
  BY <1>8 DEF CallsSound, CallSound, Execution!ReturnsKept
<1> QED BY <1>4, <1>5, <1>6, <1>7, <1>8, <1>9 DEF RunInv, Execution!ResultsRetained

(* The steps that change a status, or find that it is another.             *)
LEMMA RunTransitions ==
    ASSUME Execution!RunAssumption, Execution!HandoffAssumption, RunInv, NEW p \in Processes,
           Execution!Start(p) \/ Execution!Complete(p) \/ Execution!Fail(p)
               \/ Execution!AbortTransition(p)
    PROVE  RunInv' /\ StoreGrows
<1> DEFINE r == job[p].run
           h == job[p].handoff
<1>1. /\ r \in Runs /\ pc[p] \in {"start", "complete", "fail", "abort"} /\ Execution!TypeOK
      /\ UNCHANGED <<candidates, job, abandoned, crashes>>
  BY DEF Execution!Start, Execution!Complete, Execution!Fail, Execution!AbortTransition,
     Execution!Goto, RunInv, Execution!ResultsRetained, CallsSound, CallSound
<1>2. ASSUME NEW s \in Execution!Steps \ {"idle"}, pc' = [pc EXCEPT ![p] = s]
      PROVE  /\ pc' \in [Processes -> Execution!Steps] /\ pc'[p] = s
             /\ \A d \in Processes \ {p} : UNCHANGED <<pc[d], job[d]>>
  BY <1>1, <1>2 DEF Execution!TypeOK
<1>3. CASE UNCHANGED Execution!store
  <2>1. PICK s \in {"adapter", "done", "diagnose", "normalize", "cancel"} :
             pc' = [pc EXCEPT ![p] = s]
    BY DEF Execution!Start, Execution!Complete, Execution!Fail, Execution!AbortTransition,
       Execution!Goto
  <2>2. /\ s \in Execution!Steps \ {"idle"}
        /\ UNCHANGED <<status, attempt, handoffRef, events, documents, diagnostics>>
    BY <1>3 DEF Execution!store, Execution!Steps
  <2>3. /\ pc' \in [Processes -> Execution!Steps] /\ pc'[p] = s
        /\ \A d \in Processes \ {p} : UNCHANGED <<pc[d], job[d]>>
    BY <1>2, <2>1, <2>2
  <2>4. Execution!TypeOK'
    BY <1>1, <2>2, <2>3 DEF Execution!TypeOK
  <2>5. CallSound(p)'
    <3>1. ASSUME NEW from, NEW to, Execution!Transition(r, from, to), from # to PROVE FALSE
      BY <1>1, <2>2, <3>1 DEF Execution!Transition, Execution!TypeOK
    <3>2. CASE Execution!Start(p) /\ Execution!Overtaken(r, "PREPARED")
      BY <1>1, <2>2, <3>2 DEF Execution!Start, Execution!Overtaken, Execution!Transition,
         Execution!Goto, Execution!TypeOK, RunInv, CallsSound, CallSound
    <3>3. CASE Execution!Complete(p) /\ Execution!Overtaken(r, "RUNNING")
      BY <1>1, <2>2, <3>3 DEF Execution!Complete, Execution!Overtaken, Execution!Transition,
         Execution!Goto, Execution!TypeOK, RunInv, CallsSound,
         CallSound
    <3>4. CASE Execution!Fail(p)
      BY <1>1, <2>2, <3>4 DEF Execution!Fail, Execution!Goto, Execution!TypeOK, RunInv,
         CallsSound, CallSound, Execution!Kept, Execution!Collides
    <3>5. CASE Execution!AbortTransition(p)
              /\ (Execution!Overtaken(r, job[p].seen) \/ ~Execution!Contiguous(r, job[p].seen))
      BY <1>1, <2>2, <3>5 DEF Execution!AbortTransition, Execution!Overtaken,
         Execution!Transition, Execution!Goto, Execution!TypeOK, RunInv,
         CallsSound, CallSound
    <3>6. job[p].seen # "ABORTED" \/ pc[p] # "abort"
      BY DEF RunInv, CallsSound, CallSound
    <3> QED BY <3>1, <3>2, <3>3, <3>4, <3>5, <3>6 DEF Execution!Start, Execution!Complete,
       Execution!AbortTransition
  <2> QED BY <1>1, <2>2, <2>3, <2>4, <2>5, RunQuiet
<1>4. CASE Execution!Transition(r, "PREPARED", "RUNNING") /\ Execution!Start(p)
          /\ UNCHANGED handoffRef
  <2>1. PICK s \in {"adapter", "done"} : pc' = [pc EXCEPT ![p] = s]
    BY <1>4 DEF Execution!Start, Execution!Goto
  <2>2. s \in Execution!Steps \ {"idle"} /\ pc[p] = "start"
    BY <1>4 DEF Execution!Steps, Execution!Start
  <2>3. CallSound(p)'
    BY <1>1, <1>2, <2>1, <2>2 DEF CallSound, RunInv, CallsSound
  <2>4. /\ "RUNNING" # "COMPLETED" => UNCHANGED handoffRef
        /\ "RUNNING" = "COMPLETED" => /\ handoffRef' = [handoffRef EXCEPT ![r] = h]
                                  /\ h \in documents /\ Execution!Valid(r, h)
    BY <1>4
  <2> QED BY <1>1, <1>4, <2>4, <2>1, <2>2, <2>3, RunMoves
<1>5. CASE /\ Execution!Transition(r, "RUNNING", "COMPLETED") /\ Execution!Complete(p)
           /\ handoffRef' = [handoffRef EXCEPT ![r] = h]
           /\ Execution!Goto(p, IF h.verdict = "rejected" THEN "done" ELSE "normalize")
  <2>1. PICK s \in {"done", "normalize"} :
             pc' = [pc EXCEPT ![p] = s] /\ (s = "normalize" => h.verdict # "rejected")
    BY <1>5 DEF Execution!Goto
  <2>2. /\ s \in Execution!Steps \ {"idle"} /\ pc[p] = "complete"
        /\ h \in documents /\ Execution!Valid(r, h) /\ h \in Handoffs
    BY <1>5 DEF Execution!Steps, Execution!Complete, RunInv, CallsSound, CallSound
  <2>3. status'[r] = "COMPLETED" /\ handoffRef'[r] = h /\ documents' = documents
    BY <1>1, <1>5 DEF Execution!Transition, Execution!TypeOK
  <2>4. CallSound(p)'
    BY <1>1, <1>2, <2>1, <2>2, <2>3 DEF CallSound, Execution!Valid, Execution!Kept
  <2> QED BY <1>1, <1>5, <2>1, <2>2, <2>4, RunMoves
<1>6. CASE Execution!Transition(r, "RUNNING", "FAILED") /\ Execution!Fail(p) /\ UNCHANGED handoffRef
  <2>1. pc' = [pc EXCEPT ![p] = "done"] /\ "done" \in Execution!Steps \ {"idle"} /\ pc[p] = "fail"
    BY <1>6 DEF Execution!Fail, Execution!Goto, Execution!Steps
  <2>2. UNCHANGED <<documents, diagnostics>>
    BY <1>6 DEF Execution!Transition
  <2>3. CallSound(p)'
    BY <1>1, <1>2, <2>1, <2>2 DEF CallSound, RunInv, CallsSound, Execution!Kept,
       Execution!Collides
  <2>4. /\ "FAILED" # "COMPLETED" => UNCHANGED handoffRef
        /\ "FAILED" = "COMPLETED" => /\ handoffRef' = [handoffRef EXCEPT ![r] = h]
                                  /\ h \in documents /\ Execution!Valid(r, h)
    BY <1>6
  <2> QED BY <1>1, <1>6, <2>4, <2>1, <2>3, RunMoves
<1>7. CASE /\ Execution!Transition(r, job[p].seen, "ABORTED") /\ Execution!AbortTransition(p)
           /\ UNCHANGED handoffRef /\ Execution!Goto(p, "cancel")
  <2>1. pc' = [pc EXCEPT ![p] = "cancel"] /\ "cancel" \in Execution!Steps \ {"idle"}
        /\ pc[p] = "abort"
    BY <1>7 DEF Execution!AbortTransition, Execution!Goto, Execution!Steps
  <2>2. CallSound(p)' /\ job[p].seen \in {"PREPARED", "RUNNING"}
    BY <1>1, <1>2, <2>1 DEF CallSound, RunInv, CallsSound
  <2>4. /\ "ABORTED" # "COMPLETED" => UNCHANGED handoffRef
        /\ "ABORTED" = "COMPLETED" => /\ handoffRef' = [handoffRef EXCEPT ![r] = h]
                                  /\ h \in documents /\ Execution!Valid(r, h)
    BY <1>7
  <2> QED BY <1>1, <1>7, <2>4, <2>1, <2>2, RunMoves
<1> QED BY <1>3, <1>4, <1>5, <1>6, <1>7 DEF Execution!Start, Execution!Complete,
   Execution!Fail, Execution!AbortTransition

(* Results that are stored, kept beside the store, or handed out.          *)
LEMMA RunResults ==
    ASSUME Execution!RunAssumption, Execution!HandoffAssumption, RunInv, NEW p \in Processes,
           Execution!Capture(p) \/ Execution!KeepAsDiagnostic(p) \/ Execution!Normalize(p)
    PROVE  RunInv' /\ StoreGrows
<1> DEFINE r == job[p].run
           h == job[p].handoff
<1>1. /\ r \in Runs /\ h \in Handoffs /\ Execution!TypeOK /\ CallSound(p)
      /\ UNCHANGED <<status, attempt, handoffRef, events, job, abandoned, crashes>>
      /\ documents \subseteq documents' /\ diagnostics \subseteq diagnostics'
  BY DEF Execution!Capture, Execution!KeepAsDiagnostic, Execution!Normalize, Execution!Goto,
     Execution!Diagnose, Execution!store, RunInv, Execution!ResultsRetained,
     CallsSound, CallSound
<1>2. PICK s \in {"fail", "complete", "done"} : pc' = [pc EXCEPT ![p] = s]
  BY DEF Execution!Capture, Execution!KeepAsDiagnostic, Execution!Normalize, Execution!Goto
<1>3. /\ pc' \in [Processes -> Execution!Steps] /\ pc'[p] = s
      /\ \A d \in Processes \ {p} : UNCHANGED <<pc[d], job[d]>>
  BY <1>1, <1>2 DEF Execution!TypeOK, Execution!Steps
<1>4. documents' \subseteq Handoffs /\ diagnostics' \subseteq [run : Runs, handoff : Handoffs]
      /\ candidates' \subseteq [run : Runs, handoff : Handoffs]
  BY <1>1 DEF Execution!Capture, Execution!KeepAsDiagnostic, Execution!Normalize,
     Execution!Diagnose, Execution!store, Execution!TypeOK
<1>5. Execution!TypeOK'
  BY <1>1, <1>3, <1>4 DEF Execution!TypeOK
<1>6. CallSound(p)'
  <2>1. CASE Execution!Capture(p) /\ Execution!Collides(h)
    <3>1. Execution!Kept(p)' /\ s = "fail"
      BY <1>1, <1>2, <2>1 DEF Execution!Capture, Execution!Goto, Execution!Kept,
         Execution!Collides, Execution!TypeOK
    <3> QED BY <1>1, <1>3, <3>1 DEF CallSound
  <2>2. CASE Execution!Capture(p) /\ ~Execution!Collides(h)
    <3>1. h \in documents' /\ (s = "complete" => Execution!Valid(r, h))
          /\ s \in {"fail", "complete"}
      BY <1>1, <1>2, <2>2 DEF Execution!Capture, Execution!Goto, Execution!TypeOK
    <3> QED BY <1>1, <1>3, <3>1 DEF CallSound, Execution!Kept, Execution!Valid
  <2>3. CASE Execution!KeepAsDiagnostic(p)
    <3> DEFINE d == [run |-> r, handoff |-> h]
    <3>1. d \in diagnostics' /\ d.run = job'[p].run /\ d.handoff = job'[p].handoff /\ s = "done"
      BY <1>1, <1>2, <2>3 DEF Execution!KeepAsDiagnostic, Execution!Diagnose, Execution!Goto,
         Execution!TypeOK
    <3>2. Execution!Kept(p)'
      BY <3>1 DEF Execution!Kept
    <3> QED BY <1>1, <1>3, <3>1, <3>2 DEF CallSound
  <2>4. CASE Execution!Normalize(p)
    <3>1. h \in documents' /\ s = "done"
      BY <1>1, <1>2, <2>4 DEF Execution!Normalize, Execution!Goto, Execution!TypeOK, CallSound
    <3> QED BY <1>1, <1>3, <3>1 DEF CallSound, Execution!Kept
  <2> QED BY <2>1, <2>2, <2>3, <2>4
<1>7. \A c \in candidates' \ candidates :
         /\ c.run \in Runs /\ status[c.run] = "COMPLETED"
         /\ c.handoff = handoffRef[c.run] /\ c.handoff.verdict # "rejected"
  BY <1>1 DEF Execution!Capture, Execution!KeepAsDiagnostic, Execution!Normalize, CallSound
<1> QED BY <1>1, <1>3, <1>5, <1>6, <1>7, RunQuiet

(* A step of one process that leaves the store alone.                      *)
LEMMA RunLocal ==
    ASSUME Execution!RunAssumption, Execution!HandoffAssumption, RunInv, NEW p \in Processes,
           UNCHANGED <<Execution!store, candidates>>, abandoned' \subseteq Runs,
           crashes' \in 0..MaxCrashes,
           NEW s \in Execution!Steps, NEW j \in Records,
           pc' = [pc EXCEPT ![p] = s], job' = [job EXCEPT ![p] = j], CallSound(p)'
    PROVE  RunInv' /\ StoreGrows
<1>1. /\ Execution!TypeOK
      /\ UNCHANGED <<status, attempt, handoffRef, events, documents, diagnostics, candidates>>
  BY DEF Execution!store, RunInv, Execution!ResultsRetained
<1>2. /\ pc' \in [Processes -> Execution!Steps] /\ job' \in [Processes -> Records]
      /\ \A d \in Processes \ {p} : UNCHANGED <<pc[d], job[d]>>
  BY <1>1 DEF Execution!TypeOK, Records, Statuses
<1>3. Execution!TypeOK'
  BY <1>1, <1>2 DEF Execution!TypeOK, Records, Statuses
<1> QED BY <1>1, <1>2, <1>3, RunQuiet

(* A call begins, with what is checked of the store before.                *)
LEMMA RunBegins ==
    ASSUME Execution!RunAssumption, Execution!HandoffAssumption, RunInv, NEW p \in Processes,
           NEW r \in Runs,
           \/ Execution!Prepare(p, r) \/ Execution!Abort(p, r)
           \/ \E h \in Handoffs : Execution!Collect(p, r, h)
    PROVE  RunInv' /\ StoreGrows
<1>1. PICK call \in Execution!Calls, h \in Handoffs \cup {NoHandoff},
           s \in Execution!Steps : Execution!Begin(p, call, r, h, s)
  BY DEF Execution!Prepare, Execution!Abort, Execution!Collect, Execution!Calls, Execution!Steps
<1>2. UNCHANGED <<Execution!store, candidates, abandoned, crashes>> /\ Execution!TypeOK
  BY DEF Execution!Prepare, Execution!Abort, Execution!Collect, RunInv,
     Execution!ResultsRetained
<1> DEFINE j == [call |-> call, run |-> r, handoff |-> h, seen |-> status[r]]
<1>3. /\ j \in Records /\ pc' = [pc EXCEPT ![p] = s] /\ job' = [job EXCEPT ![p] = j]
      /\ pc'[p] = s /\ job'[p] = j
  BY <1>1, <1>2 DEF Execution!Begin, Records, Statuses, Execution!TypeOK
<1>4. UNCHANGED <<status, handoffRef, documents, diagnostics>>
  BY <1>2 DEF Execution!store
<1>5. CallSound(p)'
  <2>1. CASE Execution!Prepare(p, r)
    <3>1. h = NoHandoff /\ s = "create" /\ Execution!RetryAllowed(r)
      BY <1>1, <1>2, <1>3, <2>1 DEF Execution!Prepare, Execution!Begin, Execution!TypeOK,
         Records
    <3> QED BY <1>3, <1>4, <3>1 DEF CallSound, Execution!RetryAllowed
  <2>2. CASE Execution!Abort(p, r)
    <3>1. h = NoHandoff /\ s = (IF status[r] \in Execution!Terminal THEN "done" ELSE "abort")
          /\ status[r] # "ABSENT"
      BY <1>1, <1>2, <1>3, <2>2 DEF Execution!Abort, Execution!Begin, Execution!TypeOK, Records
    <3>2. s \in {"done", "abort"} /\ (s = "abort" => status[r] \in {"PREPARED", "RUNNING"})
      BY <1>2, <3>1 DEF Execution!TypeOK
    <3> QED BY <1>3, <3>1, <3>2 DEF CallSound
  <2>3. CASE \E g \in Handoffs : Execution!Collect(p, r, g)
    <3>1. h \in Handoffs /\ s \in {"capture", "diagnose"}
      BY <1>1, <1>2, <1>3, <2>3 DEF Execution!Collect, Execution!Begin, Execution!TypeOK,
         Records
    <3> QED BY <1>3, <3>1 DEF CallSound
  <2> QED BY <2>1, <2>2, <2>3
<1>6. abandoned' \subseteq Runs /\ crashes' \in 0..MaxCrashes
  BY <1>2 DEF Execution!TypeOK
<1> QED BY <1>2, <1>3, <1>5, <1>6, RunLocal

(* The adapter is waited for, the store does not take a result, and a call *)
(* returns or its process dies.                                            *)
LEMMA RunWaits ==
    ASSUME Execution!RunAssumption, Execution!HandoffAssumption, Execution!CrashAssumption,
           RunInv, NEW p \in Processes,
           \/ Execution!AdapterRaises(p) \/ (\E h \in Handoffs : Execution!AdapterReturns(p, h))
           \/ Execution!Cancel(p) \/ Execution!Finish(p) \/ Execution!Crash(p)
           \/ Execution!LoseResult(p)
    PROVE  RunInv' /\ StoreGrows
<1>1. /\ Execution!TypeOK /\ CallSound(p) /\ UNCHANGED <<Execution!store, candidates>>
      /\ job[p] \in Records /\ Execution!NoJob \in Records /\ "ABSENT" \in Statuses
  BY DEF Execution!AdapterRaises, Execution!AdapterReturns, Execution!Cancel,
     Execution!Finish, Execution!Crash, Execution!LoseResult, RunInv,
     Execution!ResultsRetained, CallsSound, Execution!TypeOK, Records, Statuses, Execution!NoJob
<1>2. abandoned' \subseteq Runs /\ crashes' \in 0..MaxCrashes
  BY <1>1 DEF Execution!AdapterRaises, Execution!AdapterReturns, Execution!Cancel,
     Execution!Finish, Execution!Crash, Execution!LoseResult, Execution!TypeOK,
     Execution!CrashAssumption
<1>3. CASE Execution!AdapterRaises(p) \/ Execution!Cancel(p)
  <2>1. PICK s \in {"fail", "done"} : pc' = [pc EXCEPT ![p] = s] /\ UNCHANGED job
    BY <1>3 DEF Execution!AdapterRaises, Execution!Cancel, Execution!Goto
  <2>2. s \in Execution!Steps /\ job' = [job EXCEPT ![p] = job[p]] /\ pc'[p] = s
    BY <1>1, <2>1 DEF Execution!Steps, Execution!TypeOK
  <2>3. CallSound(p)'
    BY <1>1, <1>3, <2>1, <2>2 DEF CallSound, Execution!AdapterRaises, Execution!Cancel
  <2> QED BY <1>1, <1>2, <2>1, <2>2, <2>3, RunLocal
<1>4. ASSUME NEW h \in Handoffs, Execution!AdapterReturns(p, h) PROVE RunInv' /\ StoreGrows
  <2>1. /\ pc' = [pc EXCEPT ![p] = "capture"] /\ job' = [job EXCEPT ![p].handoff = h]
        /\ pc[p] = "adapter"
    BY <1>4 DEF Execution!AdapterReturns
  <2> DEFINE j == [job[p] EXCEPT !.handoff = h]
  <2>2. /\ "capture" \in Execution!Steps /\ j \in Records /\ job' = [job EXCEPT ![p] = j]
        /\ pc'[p] = "capture" /\ job'[p].run = job[p].run /\ job'[p].handoff = h
    BY <1>1, <2>1 DEF Execution!Steps, Execution!TypeOK, Records
  <2>3. CallSound(p)'
    BY <1>1, <2>1, <2>2 DEF CallSound
  <2> QED BY <1>1, <1>2, <2>1, <2>2, <2>3, RunLocal
<1>5. CASE Execution!Finish(p) \/ Execution!Crash(p)
  <2>1. pc' = [pc EXCEPT ![p] = "idle"] /\ job' = [job EXCEPT ![p] = Execution!NoJob]
    BY <1>5 DEF Execution!Finish, Execution!Crash
  <2>2. "idle" \in Execution!Steps /\ pc'[p] = "idle" /\ job'[p].handoff = NoHandoff
    BY <1>1, <2>1 DEF Execution!Steps, Execution!TypeOK, Execution!NoJob
  <2>3. CallSound(p)'
    BY <2>2 DEF CallSound
  <2> QED BY <1>1, <1>2, <2>1, <2>2, <2>3, RunLocal
<1>6. CASE Execution!LoseResult(p)
  <2> DEFINE j == [job[p] EXCEPT !.handoff = NoHandoff]
  <2>1. /\ pc' = [pc EXCEPT ![p] = "fail"] /\ job' = [job EXCEPT ![p] = j]
        /\ pc[p] = "capture"
    BY <1>6 DEF Execution!LoseResult
  <2>2. /\ "fail" \in Execution!Steps /\ j \in Records
        /\ pc'[p] = "fail" /\ job'[p].run = job[p].run /\ job'[p].handoff = NoHandoff
    BY <1>1, <2>1 DEF Execution!Steps, Execution!TypeOK, Records
  <2>3. CallSound(p)'
    BY <1>1, <2>1, <2>2 DEF CallSound
  <2> QED BY <1>1, <1>2, <2>1, <2>2, <2>3, RunLocal
<1> QED BY <1>3, <1>4, <1>5, <1>6

LEMMA RunStep ==
    ASSUME Execution!RunAssumption, Execution!HandoffAssumption, Execution!CrashAssumption,
           RunInv, [Execution!Next]_(Execution!vars)
    PROVE  RunInv' /\ StoreGrows
<1>1. ASSUME NEW p \in Processes, Execution!Step(p) PROVE RunInv' /\ StoreGrows
  BY <1>1, RunCreated, RunAnnounced, RunTransitions, RunResults, RunWaits DEF Execution!Step
<1>2. ASSUME NEW p \in Processes, Execution!Finish(p) \/ Execution!Crash(p)
      PROVE  RunInv' /\ StoreGrows
  BY <1>2, RunWaits
<1>3. ASSUME NEW p \in Processes, NEW r \in Runs,
             \/ Execution!Prepare(p, r) \/ Execution!Abort(p, r)
             \/ \E h \in Handoffs : Execution!Collect(p, r, h)
      PROVE  RunInv' /\ StoreGrows
  BY <1>3, RunBegins
<1>4. CASE UNCHANGED Execution!vars
  <2>1. RunInv' <=> RunInv
    BY <1>4 DEF Execution!vars, Execution!store, Execution!process, RunInv,
       Execution!ResultsRetained, Execution!TypeOK, Execution!HistoryMatches,
       Execution!CompletionBacked, Execution!OneCandidate, Execution!ReturnsKept,
       Execution!RetryAfterTerminal, CallsSound, CallSound,
       Execution!RetryAllowed, Execution!Kept, Execution!Collides
  <2> QED BY <1>4, <2>1 DEF Execution!vars, Execution!store, StoreGrows
<1> QED BY <1>1, <1>2, <1>3, <1>4 DEF Execution!Next

(* Whatever races, fails or dies: the history of a Run is a lifecycle that *)
(* agrees with its status, COMPLETED rests on a stored result valid for    *)
(* that Run, one candidate at most is handed out, what was returned is     *)
(* kept, and a retry follows a Run that ended.                             *)
THEOREM RetainedResults ==
    ASSUME Execution!RunAssumption, Execution!HandoffAssumption, Execution!CrashAssumption
    PROVE  Execution!Spec => []Execution!ResultsRetained
<1>1. Execution!Init => RunInv
  BY RunInit
<1>2. RunInv /\ [Execution!Next]_(Execution!vars) => RunInv'
  BY RunStep
<1>3. RunInv => Execution!ResultsRetained
  BY DEF RunInv
<1> QED BY <1>1, <1>2, <1>3, PTL DEF Execution!Spec

(* No late result, abort, retry or crash changes a Run that has ended: its *)
(* outcome, its Handoff and its events stay what they are.                 *)
THEOREM EndedForGood ==
    ASSUME Execution!RunAssumption, Execution!HandoffAssumption, Execution!CrashAssumption
    PROVE  Execution!Spec => [][Execution!NothingAfterTheEnd]_(Execution!vars)
<1>1. Execution!Init => RunInv
  BY RunInit
<1>2. RunInv /\ [Execution!Next]_(Execution!vars) => RunInv'
  BY RunStep
<1>3. RunInv /\ [Execution!Next]_(Execution!vars) => [Execution!NothingAfterTheEnd]_(Execution!vars)
  BY RunStep DEF StoreGrows, Execution!NothingAfterTheEnd
<1> QED BY <1>1, <1>2, <1>3, PTL DEF Execution!Spec

-----------------------------------------------------------------------------
(* CaptureStore counts alike.                                              *)
LEMMA SameCount ==
    \A S : Store!Cardinality(S) = Cardinality(S) /\ Store!IsFiniteSet(S) = IsFiniteSet(S)
<1> SUFFICES ASSUME NEW S
             PROVE  Store!Cardinality(S) = Cardinality(S) /\ Store!IsFiniteSet(S) = IsFiniteSet(S)
  OBVIOUS
<1>1. Store!IsFiniteSet(S) = IsFiniteSet(S)
  BY DEF Store!IsFiniteSet, IsFiniteSet
<1>2. Store!Cardinality(S) = Cardinality(S)
  BY DEF Store!Cardinality, Cardinality
<1> QED BY <1>1, <1>2

(* What a writer has stored so far.                                        *)
Stored(w) == Store!Contents(captureJob[w].items \ todo[w])

(* Where a writer stands: with a call, with the write lock exactly while   *)
(* it writes, with its Run's reservation while it captures, and with the   *)
(* Run still open that it writes for.                                      *)
WriterSound(w) ==
    /\ capturePc[w] # "idle" => captureJob[w] \in Jobs
    /\ capturePc[w] = "write" <=> lock = w
    /\ capturePc[w] \in {"preflight", "look", "clean"} => captureJob[w].op = "capture"
    /\ capturePc[w] # "idle" /\ captureJob[w].op = "capture" => reservation[captureJob[w].run] = w
    /\ capturePc[w] = "write"
         => Stored(w) \ Store!Contested \subseteq files /\ todo[w] \subseteq captureJob[w].items
    /\ capturePc[w] = "write" /\ captureJob[w].op \notin {"input", "put"}
         => captureJob[w].run \in running

(* The files it would remove are its own, and what is registered of them   *)
(* is contested.                                                           *)
RemovableSound(w) ==
    /\ capturePc[w] \in {"begin", "write", "clean"} /\ captureJob[w].op = "capture" =>
                 fresh[w] \subseteq Store!Contents(captureJob[w].items)
                     /\ fresh[w] \cap Store!Contents(rows) \subseteq Store!Contested
    /\ capturePc[w] = "write" /\ captureJob[w].op = "batch"
         => fresh[w] \cap Store!Contents(rows) \subseteq Store!Contested

WritersSound == \A w \in Processes : WriterSound(w) /\ RemovableSound(w)

RowsFinite == IsFiniteSet(rows)

StoreInv == Store!NoDangling /\ WritersSound /\ RowsFinite

LEMMA StoreInit == ASSUME Store!JobAssumption, Store!BoundAssumption PROVE Store!Init => StoreInv
<1> SUFFICES ASSUME Store!Init PROVE StoreInv
  OBVIOUS
<1>1. Store!TypeOK
  BY DEF Store!Init, Store!TypeOK, Store!BoundAssumption, Store!Contents
<1>2. Store!FilesPresent /\ Store!WithinLimits /\ Store!OneContentPerIdentity
  BY DEF Store!Init, Store!FilesPresent, Store!WithinLimits, Store!OneContentPerIdentity,
     Store!Contents
<1>3. WritersSound
  BY DEF Store!Init, WritersSound, WriterSound, RemovableSound, Store!JobAssumption
<1>4. RowsFinite
  BY FS_EmptySet DEF Store!Init, RowsFinite
<1> QED BY <1>1, <1>2, <1>3, <1>4 DEF StoreInv, Store!NoDangling

-----------------------------------------------------------------------------
(* Lemmas about what a registration adds.                                  *)

LEMMA ContentsMonotone ==
    ASSUME NEW A, NEW B, A \subseteq B PROVE Store!Contents(A) \subseteq Store!Contents(B)
BY DEF Store!Contents

LEMMA ContentsAdded ==
    ASSUME NEW A, NEW B PROVE Store!Contents(A \cup B) = Store!Contents(A) \cup Store!Contents(B)
BY DEF Store!Contents

LEMMA ContentsOfRows == ASSUME NEW j PROVE Store!Contents(Store!Rows(j)) = Store!Contents(j.items)
<1>1. \A i \in j.items : Store!Row(j, i).content = i.content
  BY DEF Store!Row
<1>2. Store!Contents(Store!Rows(j)) = {Store!Row(j, i).content : i \in j.items}
  BY DEF Store!Contents, Store!Rows
<1> QED BY <1>1, <1>2 DEF Store!Contents

(* The rows of a call are no more than its items, in each role.            *)
LEMMA RowsCounted ==
    ASSUME NEW j, Store!JobRecord(j), NEW role
    PROVE  LET K == {k \in j.items : k.role = role}
               T == {r \in Store!Rows(j) : r.role = role}
           IN  IsFiniteSet(T) /\ Cardinality(T) <= Cardinality(K) /\ IsFiniteSet(Store!Rows(j))
<1> DEFINE K == {k \in j.items : k.role = role}
           T == {r \in Store!Rows(j) : r.role = role}
           f == [k \in K |-> Store!Row(j, k)]
           g == [k \in j.items |-> Store!Row(j, k)]
<1>1. IsFiniteSet(K) /\ IsFiniteSet(j.items)
  <2>1. IsFiniteSet(j.items)
    BY SameCount DEF Store!JobRecord
  <2> QED BY <2>1, FS_Subset
<1>2. f \in Surjection(K, T)
  <2>1. \A k \in j.items : Store!Row(j, k).role = k.role
    BY DEF Store!Row
  <2> QED BY <2>1 DEF Surjection, Store!Rows
<1>3. IsFiniteSet(T) /\ Cardinality(T) <= Cardinality(K)
  BY <1>1, <1>2, FS_Surjection
<1>4. g \in Surjection(j.items, Store!Rows(j))
  BY DEF Surjection, Store!Rows
<1>5. IsFiniteSet(Store!Rows(j))
  BY <1>1, <1>4, FS_Surjection
<1> QED BY <1>3, <1>5

(* What the transaction checks keeps the limits and the identities.        *)
LEMMA LimitsKept ==
    ASSUME Store!JobAssumption, Store!BoundAssumption, StoreInv, NEW j \in Jobs,
           Store!Admissible(j),
           rows' = rows \cup Store!Rows(j)
    PROVE  Store!WithinLimits' /\ Store!OneContentPerIdentity' /\ RowsFinite'
<1>1. Store!JobRecord(j) /\ Store!TypeOK /\ IsFiniteSet(rows)
  BY DEF Store!JobAssumption, StoreInv, Store!NoDangling, RowsFinite
<1>2. RowsFinite'
  BY <1>1, RowsCounted, FS_Union DEF RowsFinite
<1>3. Store!OneContentPerIdentity'
  <2>1. ASSUME NEW r \in rows, NEW s \in Store!Rows(j), r.id = s.id, r.role = "input"
               <=> s.role = "input"
        PROVE  r = s
    <3>1. PICK i \in j.items : s = Store!Row(j, i)
      BY DEF Store!Rows
    <3>2. s.id = i.id /\ s.role = i.role /\ s.content = i.content
      BY <3>1 DEF Store!Row
    <3>3. CASE j.op # "input"
      BY <1>1, <2>1, <3>2, <3>3 DEF Store!Admissible, Store!NewIdentities, Store!JobRecord
    <3>4. CASE j.op = "input"
      <4>1. r.role = "input" /\ s.role = "input" /\ r.content = s.content
        BY <1>1, <2>1, <3>2, <3>4 DEF Store!Admissible, Store!InputTaken, Store!JobRecord
      <4>2. PICK k \in Jobs : \E m \in k.items : r = Store!Row(k, m)
        BY <1>1 DEF Store!TypeOK, Store!Rows
      <4>3. Store!JobRecord(k)
        BY DEF Store!JobAssumption
      <4>4. r.run = NoRun
        BY <4>1, <4>2, <4>3 DEF Store!Row, Store!JobRecord
      <4> QED BY <2>1, <3>1, <3>2, <3>4, <4>1, <4>2, <4>4 DEF Store!Row
    <3> QED BY <3>3, <3>4
  <2>2. ASSUME NEW r \in Store!Rows(j), NEW s \in Store!Rows(j), r.id = s.id PROVE r = s
    BY <1>1, <2>2 DEF Store!Rows, Store!Row, Store!JobRecord
  <2> QED BY <2>1, <2>2 DEF Store!OneContentPerIdentity, StoreInv, Store!NoDangling
<1>4. Store!WithinLimits'
  <2> SUFFICES ASSUME NEW r \in rows', r.role \notin {"input", "output"}
               PROVE  Cardinality({s \in rows' : s.run = r.run /\ s.role = r.role}) <= RoleLimit
    BY SameCount DEF Store!WithinLimits
  <2> DEFINE Old == {s \in rows : s.run = r.run /\ s.role = r.role}
             New == {s \in Store!Rows(j) : s.run = r.run /\ s.role = r.role}
  <2>1. {s \in rows' : s.run = r.run /\ s.role = r.role} = Old \cup New
    OBVIOUS
  <2>2. CASE New = {}
    BY <2>1, <2>2, SameCount DEF Store!WithinLimits, StoreInv, Store!NoDangling
  <2>3. CASE New # {}
    <3>1. PICK i \in j.items : Store!Row(j, i).run = r.run /\ Store!Row(j, i).role = r.role
      BY <2>3 DEF Store!Rows
    <3>2. i.role = r.role /\ j.op \notin {"input", "put"} /\ r.run = j.run
      BY <1>1, <3>1 DEF Store!Row, Store!JobRecord
    <3> DEFINE K == {k \in j.items : k.role = i.role}
               T == {s \in Store!Rows(j) : s.role = i.role}
    <3>3. Old = Store!InRole(j, i) /\ New \subseteq T
      BY <3>2 DEF Store!InRole
    <3>4. Cardinality(Store!InRole(j, i)) + Cardinality(K) <= RoleLimit
      BY <3>2, SameCount DEF Store!Admissible, Store!WithinRoleLimit
    <3>5. IsFiniteSet(T) /\ Cardinality(T) <= Cardinality(K) /\ IsFiniteSet(K)
      <4>1. IsFiniteSet(T) /\ Cardinality(T) <= Cardinality(K)
        BY <1>1, RowsCounted
      <4>2. IsFiniteSet(j.items) /\ K \in SUBSET j.items
        BY <1>1, SameCount DEF Store!JobRecord
      <4> QED BY <4>1, <4>2, FS_Subset
    <3>6. IsFiniteSet(New) /\ Cardinality(New) <= Cardinality(T)
      BY <3>3, <3>5, FS_Subset
    <3>7. IsFiniteSet(Old)
      BY <1>1, FS_Subset
    <3>8. Cardinality(Old \cup New) <= Cardinality(Old) + Cardinality(New)
      <4>1. Cardinality(Old \cup New)
            = Cardinality(Old) + Cardinality(New) - Cardinality(Old \cap New)
        BY <3>6, <3>7, FS_Union
      <4>2. IsFiniteSet(Old \cap New)
        BY <3>7, FS_Intersection
      <4>3. Cardinality(Old) \in Nat /\ Cardinality(New) \in Nat
            /\ Cardinality(Old \cap New) \in Nat
        BY <3>6, <3>7, <4>2, FS_CardinalityType
      <4> QED BY <4>1, <4>3
    <3>9. /\ Cardinality(Old) \in Nat /\ Cardinality(New) \in Nat /\ Cardinality(T) \in Nat
          /\ Cardinality(K) \in Nat /\ Cardinality(Old \cup New) \in Nat /\ RoleLimit \in Nat
      BY <3>5, <3>6, <3>7, FS_CardinalityType, FS_Union DEF Store!BoundAssumption
    <3>10. Cardinality(Old) + Cardinality(K) <= RoleLimit
      BY <3>3, <3>4
    <3> HIDE DEF Old, New, T, K
    <3>11. Cardinality(Old \cup New) <= RoleLimit
      BY <3>5, <3>6, <3>8, <3>9, <3>10
    <3> QED BY <2>1, <3>11
  <2> QED BY <2>2, <2>3
<1> QED BY <1>2, <1>3, <1>4

-----------------------------------------------------------------------------
(* What one writer does leaves the others as they are, if the files that   *)
(* they stored or rely on stay and nothing but contested content that they *)
(* may remove is registered.                                               *)
LEMMA WriterKept ==
    ASSUME StoreInv, NEW d \in Processes,
           UNCHANGED <<capturePc[d], captureJob[d], todo[d], fresh[d]>>,
           lock = d <=> lock' = d,
           \A r \in Runs : reservation[r] = d => reservation'[r] = d,
           capturePc[d] = "write"
               => Stored(d) \ Store!Contested \subseteq files' /\ running' = running,
           (capturePc[d] \in {"begin", "write", "clean"} /\ captureJob[d].op = "capture")
             \/ (capturePc[d] = "write" /\ captureJob[d].op = "batch")
                  => fresh[d] \cap Store!Contents(rows') \subseteq Store!Contested,
           Store!JobAssumption
    PROVE  WriterSound(d)' /\ RemovableSound(d)'
<1>1. WriterSound(d) /\ RemovableSound(d)
  BY DEF StoreInv, WritersSound
<1>2. capturePc[d] # "idle" => captureJob[d].run \in Runs
  BY <1>1 DEF WriterSound, Store!JobAssumption, Store!JobRecord
<1>3. UNCHANGED Stored(d)
  BY DEF Stored
<1>4. WriterSound(d)'
  BY <1>1, <1>2, <1>3 DEF WriterSound
<1>5. RemovableSound(d)'
  BY <1>1 DEF RemovableSound
<1> QED BY <1>4, <1>5

(* What a capture shares with the call of any other writer is contested:   *)
(* its Run is reserved, so that the other call is of another Run.          *)
LEMMA CapturesApart ==
    ASSUME Store!JobAssumption, StoreInv, NEW w \in Processes, NEW d \in Processes \ {w},
           capturePc[w] # "idle", capturePc[d] # "idle", captureJob[w].op = "capture"
    PROVE  Store!Contents(captureJob[w].items) \cap Store!Contents(captureJob[d].items)
           \subseteq Store!Contested
<1>1. /\ captureJob[w] \in Jobs /\ captureJob[d] \in Jobs /\ reservation[captureJob[w].run] = w
      /\ captureJob[d].op = "capture" => reservation[captureJob[d].run] = d
  BY DEF StoreInv, WritersSound, WriterSound
<1> QED BY <1>1 DEF Store!Contested

(* A step of one writer that changes no file, row or Run.                  *)
LEMMA StoreLocal ==
    ASSUME Store!JobAssumption, StoreInv, NEW w \in Processes, UNCHANGED <<files, rows, running>>,
           \A d \in Processes \ {w} :
              /\ UNCHANGED <<capturePc[d], captureJob[d], todo[d], fresh[d]>>
              /\ lock = d <=> lock' = d
              /\ \A r \in Runs : reservation[r] = d => reservation'[r] = d,
           Store!TypeOK', WriterSound(w)', RemovableSound(w)'
    PROVE  StoreInv'
<1>1. Store!FilesPresent' /\ Store!WithinLimits' /\ Store!OneContentPerIdentity' /\ RowsFinite'
  BY DEF StoreInv, Store!NoDangling, Store!FilesPresent, Store!WithinLimits,
     Store!OneContentPerIdentity, RowsFinite
<1>2. ASSUME NEW d \in Processes \ {w} PROVE WriterSound(d)' /\ RemovableSound(d)'
  <2>1. WriterSound(d) /\ RemovableSound(d)
    BY DEF StoreInv, WritersSound
  <2> QED BY <2>1, WriterKept DEF WriterSound, RemovableSound
<1> QED BY <1>1, <1>2 DEF StoreInv, Store!NoDangling, WritersSound

(* A call begins and looks, under its reservation or with the write lock.  *)
LEMMA StoreBegins ==
    ASSUME Store!JobAssumption, StoreInv, NEW w \in Processes,
           \/ \E j \in Jobs : Store!Reserve(w, j) \/ Store!Request(w, j)
           \/ Store!Preflight(w) \/ Store!LookForText(w)
    PROVE  StoreInv'
<1> USE DEF Store!db
<1>1. /\ Store!TypeOK /\ WriterSound(w) /\ RemovableSound(w)
           /\ Store!Contents(rows) \ Store!Contested \subseteq files
      /\ UNCHANGED <<lock, files, rows, running, trace, todo, faults>>
  BY DEF StoreInv, Store!NoDangling, Store!FilesPresent, WritersSound, Store!Reserve,
     Store!Request, Store!Preflight, Store!LookForText
<1>2. ASSUME NEW j \in Jobs, Store!Reserve(w, j) \/ Store!Request(w, j) PROVE StoreInv'
  <2>1. PICK s \in {"preflight", "begin"} : capturePc' = [capturePc EXCEPT ![w] = s]
    BY <1>2 DEF Store!Reserve, Store!Request, Store!Goto
  <2>2. /\ captureJob' = [captureJob EXCEPT ![w] = j] /\ fresh' = fresh /\ capturePc[w] = "idle"
             /\ lock # w
        /\ j.run \in Runs
    BY <1>1, <1>2 DEF Store!Reserve, Store!Request, Store!Idle, WriterSound,
       Store!JobAssumption, Store!JobRecord
  <2>3. reservation' = reservation \/ reservation' = [reservation EXCEPT ![j.run] = w]
    BY <1>2 DEF Store!Reserve, Store!Request
  <2>4. \A d \in Processes \ {w} :
              /\ UNCHANGED <<capturePc[d], captureJob[d], todo[d], fresh[d]>>
              /\ lock = d <=> lock' = d
    BY <1>1, <2>1, <2>2 DEF Store!TypeOK
  <2>5. ASSUME NEW d \in Processes \ {w}, NEW r \in Runs, reservation[r] = d
        PROVE  reservation'[r] = d
    <3>1. CASE Store!Request(w, j)
      BY <2>5, <3>1 DEF Store!Request
    <3>2. CASE Store!Reserve(w, j)
      BY <1>1, <2>2, <2>5, <3>2 DEF Store!Reserve, Store!TypeOK, Store!JobAssumption
    <3> QED BY <1>2, <3>1, <3>2
  <2>6. capturePc'[w] = s /\ captureJob'[w] = j
    BY <1>1, <2>1, <2>2 DEF Store!TypeOK
  <2>7. Store!TypeOK'
    BY <1>1, <2>1, <2>2, <2>3 DEF Store!TypeOK
  <2>8. WriterSound(w)' /\ RemovableSound(w)'
    <3>1. CASE Store!Request(w, j)
      <4>1. s = "begin" /\ j.op # "capture"
        BY <1>1, <2>6, <3>1 DEF Store!Request, Store!Goto, Store!TypeOK
      <4> QED BY <1>1, <2>2, <2>6, <4>1 DEF WriterSound, RemovableSound
    <3>2. CASE Store!Reserve(w, j)
      <4>1. s = "preflight" /\ j.op = "capture" /\ reservation'[j.run] = w
        BY <1>1, <2>2, <2>6, <3>2 DEF Store!Reserve, Store!Goto, Store!TypeOK
      <4> QED BY <1>1, <2>2, <2>6, <4>1 DEF WriterSound, RemovableSound
    <3> QED BY <1>2, <3>1, <3>2
  <2> QED BY <1>1, <2>4, <2>5, <2>7, <2>8, StoreLocal
<1>3. CASE Store!Preflight(w) \/ Store!LookForText(w)
  <2>1. PICK s \in {"look", "leave", "begin"} :
           capturePc' = [capturePc EXCEPT ![w] = s] /\ (s = "begin" => Store!LookForText(w))
    BY <1>3 DEF Store!Preflight, Store!LookForText, Store!Goto
  <2>2. /\ UNCHANGED <<captureJob, reservation>> /\ lock # w
             /\ capturePc[w] \in {"preflight", "look"}
        /\ captureJob[w] \in Jobs /\ captureJob[w].op = "capture"
    BY <1>1, <1>3 DEF Store!Preflight, Store!LookForText, WriterSound
  <2>3. fresh' = fresh
        \/ fresh' = [fresh EXCEPT ![w] = Store!Contents(Store!TextOf(captureJob[w])) \ files]
    BY <1>3 DEF Store!Preflight, Store!LookForText
  <2>4. Store!Contents(Store!TextOf(captureJob[w])) \subseteq Store!Contents(captureJob[w].items)
    BY DEF Store!Contents, Store!TextOf
  <2>5. Store!Contents(captureJob[w].items) \subseteq Store!Contents(Store!Items)
    BY <2>2 DEF Store!Contents, Store!Items
  <2>6. Store!TypeOK'
    BY <1>1, <2>1, <2>2, <2>3, <2>4, <2>5 DEF Store!TypeOK
  <2>7. \A d \in Processes \ {w} : UNCHANGED <<capturePc[d], captureJob[d], todo[d], fresh[d]>>
    BY <1>1, <2>1, <2>2, <2>3 DEF Store!TypeOK
  <2>8. capturePc'[w] = s
        /\ (s = "begin" => fresh'[w] = Store!Contents(Store!TextOf(captureJob[w])) \ files)
    BY <1>1, <2>1 DEF Store!TypeOK, Store!LookForText
  <2>9. WriterSound(w)' /\ RemovableSound(w)'
    BY <1>1, <2>2, <2>4, <2>8 DEF WriterSound, RemovableSound
  <2> QED BY <1>1, <2>2, <2>6, <2>7, <2>9, StoreLocal
<1> QED BY <1>2, <1>3

(* The write transaction begins, with everything still to be stored.       *)
LEMMA StoreOpens ==
    ASSUME Store!JobAssumption, StoreInv, NEW w \in Processes, Store!BeginTransaction(w)
    PROVE  StoreInv'
<1> USE DEF Store!db
<1>1. /\ Store!TypeOK /\ WriterSound(w) /\ RemovableSound(w)
           /\ Store!Contents(rows) \ Store!Contested \subseteq files
      /\ UNCHANGED <<files, rows, running, trace, reservation, captureJob, faults>>
      /\ capturePc[w] = "begin" /\ lock = Free /\ Free \notin Processes /\ captureJob[w] \in Jobs
  BY DEF StoreInv, Store!NoDangling, Store!FilesPresent, WritersSound, Store!BeginTransaction,
     WriterSound, Store!JobAssumption
<1>2. captureJob[w].items \subseteq Store!Items
      /\ Store!Contents(captureJob[w].items) \subseteq Store!Contents(Store!Items)
  BY <1>1 DEF Store!Items, Store!Contents
<1>3. CASE /\ Store!Admissible(captureJob[w]) \/ captureJob[w].op \in {"input", "put"}
           /\ lock' = w
           /\ todo' = [todo EXCEPT ![w] = captureJob[w].items]
           /\ fresh' = IF captureJob[w].op = "batch"
                       THEN [fresh EXCEPT ![w] = Store!NewTargets(captureJob[w])] ELSE fresh
           /\ Store!Goto(w, "write")
  <2>1. /\ capturePc'[w] = "write" /\ todo'[w] = captureJob[w].items
        /\ captureJob[w].op = "batch" => fresh'[w] = Store!NewTargets(captureJob[w])
        /\ captureJob[w].op # "batch" => fresh'[w] = fresh[w]
        /\ \A d \in Processes \ {w} : UNCHANGED <<capturePc[d], captureJob[d], todo[d], fresh[d]>>
    BY <1>1, <1>3 DEF Store!Goto, Store!TypeOK
  <2>2. Store!NewTargets(captureJob[w]) \subseteq Store!Contents(Store!Items)
        /\ Store!NewTargets(captureJob[w]) \cap Store!Contents(rows) \subseteq Store!Contested
    BY <1>1, <1>2 DEF Store!NewTargets
  <2>3. Store!TypeOK'
    <3>1. capturePc' \in [Processes -> {"idle", "preflight", "look", "begin", "write", "clean",
          "leave"}]
          /\ todo' \in [Processes -> SUBSET Store!Items]
      BY <1>1, <1>2, <1>3 DEF Store!Goto, Store!TypeOK
    <3>2. fresh' \in [Processes -> SUBSET Store!Contents(Store!Items)]
      BY <1>1, <1>3, <2>2 DEF Store!TypeOK
    <3> QED BY <1>1, <1>3, <3>1, <3>2 DEF Store!TypeOK
  <2>4. Stored(w)' = {}
    BY <1>1, <2>1 DEF Stored, Store!Contents
  <2>5. captureJob[w].op \notin {"input", "put"}
         => captureJob[w].run \in running
    BY <1>3 DEF Store!Admissible
  <2>6. WriterSound(w)'
    BY <1>1, <1>3, <2>1, <2>4, <2>5 DEF WriterSound
  <2>7. RemovableSound(w)'
    BY <1>1, <2>1, <2>2 DEF RemovableSound
  <2> QED BY <1>1, <1>3, <2>1, <2>3, <2>6, <2>7, StoreLocal
<1>4. CASE UNCHANGED <<lock, todo, fresh>> /\ captureJob[w].op \notin {"input", "put"}
           /\ Store!Goto(w, IF captureJob[w].op = "capture" THEN "clean" ELSE "leave")
  <2>1. PICK s \in {"clean", "leave"} :
           capturePc' = [capturePc EXCEPT ![w] = s] /\ (s = "clean" => captureJob[w].op = "capture")
    BY <1>4 DEF Store!Goto
  <2>2. capturePc'[w] = s /\ \A d \in Processes \ {w} : UNCHANGED capturePc[d]
    BY <1>1, <2>1 DEF Store!TypeOK
  <2>3. Store!TypeOK'
    BY <1>1, <1>4, <2>1 DEF Store!TypeOK
  <2>4. WriterSound(w)' /\ RemovableSound(w)'
    BY <1>1, <1>4, <2>1, <2>2 DEF WriterSound, RemovableSound
  <2> QED BY <1>1, <1>4, <2>2, <2>3, <2>4, StoreLocal
<1> QED BY <1>3, <1>4 DEF Store!BeginTransaction

(* An event is appended, and a call ends or its writer dies.               *)
LEMMA StoreEnds ==
    ASSUME Store!JobAssumption, Store!BoundAssumption, StoreInv, NEW w \in Processes,
           Store!AppendEvent(w) \/ Store!Leave(w) \/ Store!Crash(w)
    PROVE  StoreInv'
<1> USE DEF Store!db
<1>1. /\ Store!TypeOK /\ WriterSound(w) /\ RemovableSound(w)
      /\ UNCHANGED <<files, rows, running>>
  BY DEF StoreInv, Store!NoDangling, WritersSound, Store!AppendEvent, Store!Leave, Store!Crash
<1>2. CASE Store!AppendEvent(w)
  <2>1. UNCHANGED <<lock, reservation, capturePc, captureJob, todo, fresh>>
    BY <1>2 DEF Store!AppendEvent, Store!local
  <2>2. Store!TypeOK'
    BY <1>1, <1>2, <2>1 DEF Store!AppendEvent, Store!TypeOK, WriterSound
  <2>3. WriterSound(w)' /\ RemovableSound(w)'
    BY <1>1, <2>1 DEF WriterSound, RemovableSound, Stored
  <2> QED BY <1>1, <2>1, <2>2, <2>3, StoreLocal
<1>3. CASE Store!Leave(w) \/ Store!Crash(w)
  <2>1. /\ capturePc' = [capturePc EXCEPT ![w] = "idle"]
             /\ captureJob' = [captureJob EXCEPT ![w] = NoCall]
        /\ todo' = [todo EXCEPT ![w] = {}] /\ fresh' = [fresh EXCEPT ![w] = {}]
        /\ reservation' = [r \in Runs |-> IF reservation[r] = w THEN Free ELSE reservation[r]]
        /\ lock' = IF lock = w THEN Free ELSE lock
    BY <1>1, <1>3 DEF Store!Leave, Store!Crash, Store!Forget, WriterSound
  <2>2. trace' = trace /\ faults' \in 0..MaxFaults
    <3>1. faults' = faults \/ (faults < MaxFaults /\ faults' = faults + 1)
      BY <1>3 DEF Store!Leave, Store!Crash, Store!Fault
    <3>2. faults \in 0..MaxFaults /\ MaxFaults \in Nat
      BY <1>1 DEF Store!TypeOK, Store!BoundAssumption
    <3>3. trace' = trace
      BY <1>3 DEF Store!Leave, Store!Crash
    <3> QED BY <3>1, <3>2, <3>3
  <2>3. Store!TypeOK'
    BY <1>1, <2>1, <2>2 DEF Store!TypeOK
  <2>4. /\ \A d \in Processes \ {w} : UNCHANGED <<capturePc[d], captureJob[d], todo[d], fresh[d]>>
        /\ capturePc'[w] = "idle" /\ lock' # w
    BY <1>1, <2>1 DEF Store!TypeOK, Store!JobAssumption
  <2>5. \A d \in Processes \ {w} : (lock = d <=> lock' = d)
                                   /\ \A r \in Runs : reservation[r] = d => reservation'[r] = d
    BY <2>1 DEF Store!JobAssumption
  <2>6. WriterSound(w)' /\ RemovableSound(w)'
    BY <2>4 DEF WriterSound, RemovableSound
  <2> QED BY <1>1, <2>3, <2>4, <2>5, <2>6, StoreLocal
<1> QED BY <1>2, <1>3

(* A file is stored under the write lock.                                  *)
LEMMA StoreWrites ==
    ASSUME Store!JobAssumption, StoreInv, NEW w \in Processes, NEW i \in todo[w],
           Store!StoreBlob(w, i)
    PROVE  StoreInv'
<1> USE DEF Store!db
<1>1. /\ Store!TypeOK /\ WriterSound(w) /\ RemovableSound(w)
           /\ Store!Contents(rows) \ Store!Contested \subseteq files
      /\ capturePc[w] = "write" /\ lock = w /\ captureJob[w] \in Jobs
      /\ UNCHANGED <<lock, reservation, rows, running, trace, capturePc, captureJob, faults>>
      /\ files' = files \cup {i.content}
      /\ todo' = [todo EXCEPT ![w] = @ \ {i}]
  BY DEF StoreInv, Store!NoDangling, Store!FilesPresent, WritersSound, Store!StoreBlob,
     WriterSound
<1>2. /\ i \in captureJob[w].items /\ i \in Store!Items
      /\ i.content \in Store!Contents(Store!Items)
           /\ i.content \in Store!Contents(captureJob[w].items)
  BY <1>1 DEF WriterSound, Store!Items, Store!Contents
<1>3. PICK new \in SUBSET {i.content} :
         fresh' = [fresh EXCEPT ![w] = @ \cup new]
             /\ new \cap Store!Contents(rows) \subseteq Store!Contested
  <2>1. CASE fresh' = fresh
    <3>1. fresh' = [fresh EXCEPT ![w] = @ \cup {}]
      <4>1. fresh[w] \cup {} = fresh[w]
        OBVIOUS
      <4> QED BY <1>1, <2>1, <4>1 DEF Store!TypeOK
    <3> WITNESS {} \in SUBSET {i.content}
    <3> QED BY <3>1
  <2>2. CASE fresh' = [fresh EXCEPT ![w] = @ \cup {i.content}] /\ i.content \notin files
    <3>1. {i.content} \cap Store!Contents(rows) \subseteq Store!Contested
      BY <1>1, <2>2
    <3> WITNESS {i.content} \in SUBSET {i.content}
    <3> QED BY <2>2, <3>1
  <2> QED BY <2>1, <2>2 DEF Store!StoreBlob
<1>4. /\ todo'[w] = todo[w] \ {i} /\ fresh'[w] = fresh[w] \cup new
      /\ \A d \in Processes \ {w} : UNCHANGED <<capturePc[d], captureJob[d], todo[d], fresh[d]>>
  BY <1>1, <1>3 DEF Store!TypeOK
<1>5. Store!TypeOK'
  <2>1. todo' \in [Processes -> SUBSET Store!Items]
    BY <1>1 DEF Store!TypeOK
  <2>2. fresh' \in [Processes -> SUBSET Store!Contents(Store!Items)]
    BY <1>1, <1>2, <1>3 DEF Store!TypeOK
  <2> QED BY <1>1, <1>2, <2>1, <2>2 DEF Store!TypeOK
<1>6. Store!FilesPresent' /\ Store!WithinLimits' /\ Store!OneContentPerIdentity' /\ RowsFinite'
  BY <1>1 DEF StoreInv, Store!NoDangling, Store!FilesPresent, Store!WithinLimits,
     Store!OneContentPerIdentity, RowsFinite
<1>7. WriterSound(w)'
  <2>1. Stored(w)' \subseteq Stored(w) \cup {i.content}
    BY <1>1, <1>4 DEF Stored, Store!Contents
  <2> QED BY <1>1, <1>4, <2>1 DEF WriterSound
<1>8. RemovableSound(w)'
  BY <1>1, <1>2, <1>3, <1>4 DEF RemovableSound
<1>9. ASSUME NEW d \in Processes \ {w} PROVE WriterSound(d)' /\ RemovableSound(d)'
  <2>1. WriterSound(d) /\ RemovableSound(d)
    BY DEF StoreInv, WritersSound
  <2> QED BY <1>1, <1>4, <2>1, WriterKept DEF WriterSound, RemovableSound
<1> QED BY <1>5, <1>6, <1>7, <1>8, <1>9 DEF StoreInv, Store!NoDangling, WritersSound

(* The rows of a call commit while it holds the lock: files that another   *)
(* writer would remove are among theirs only if they are contested.        *)
LEMMA StoreCommits ==
    ASSUME Store!JobAssumption, Store!BoundAssumption, StoreInv, NEW w \in Processes,
           Store!Commit(w)
    PROVE  StoreInv'
<1> USE DEF Store!db
<1>1. /\ Store!TypeOK /\ WriterSound(w) /\ RemovableSound(w)
           /\ Store!Contents(rows) \ Store!Contested \subseteq files
      /\ capturePc[w] = "write" /\ lock = w /\ captureJob[w] \in Jobs /\ todo[w] = {}
           /\ Store!Admissible(captureJob[w])
      /\ rows' = rows \cup Store!Rows(captureJob[w])
      /\ UNCHANGED <<reservation, running, trace, files, captureJob, todo, fresh, faults>>
      /\ lock' = Free /\ capturePc' = [capturePc EXCEPT ![w] = "leave"]
  BY DEF StoreInv, Store!NoDangling, Store!FilesPresent, WritersSound, Store!Commit,
     WriterSound, Store!Written, Store!Goto
<1>2. Store!WithinLimits' /\ Store!OneContentPerIdentity' /\ RowsFinite'
  BY <1>1, LimitsKept
<1>3. Store!Contents(rows') = Store!Contents(rows) \cup Store!Contents(captureJob[w].items)
  BY <1>1, ContentsAdded, ContentsOfRows
<1>4. Store!Contents(captureJob[w].items) \ Store!Contested \subseteq files
  <2>1. Stored(w) = Store!Contents(captureJob[w].items)
    <3>1. captureJob[w].items \ todo[w] = captureJob[w].items
      BY <1>1
    <3> QED BY <3>1 DEF Stored
  <2> QED BY <1>1, <2>1 DEF WriterSound
<1>5. Store!FilesPresent'
  BY <1>1, <1>3, <1>4 DEF Store!FilesPresent, Store!Contents
<1>6. Store!TypeOK'
  <2>1. rows' \subseteq UNION {Store!Rows(j) : j \in Jobs}
    BY <1>1 DEF Store!TypeOK
  <2> QED BY <1>1, <2>1 DEF Store!TypeOK
<1>7. /\ \A d \in Processes \ {w} : UNCHANGED <<capturePc[d], captureJob[d], todo[d], fresh[d]>>
      /\ capturePc'[w] = "leave" /\ lock' # w
  BY <1>1 DEF Store!TypeOK, Store!JobAssumption
<1>8. WriterSound(w)' /\ RemovableSound(w)'
  BY <1>1, <1>7 DEF WriterSound, RemovableSound
<1>9. ASSUME NEW d \in Processes \ {w} PROVE WriterSound(d)' /\ RemovableSound(d)'
  <2>1. WriterSound(d) /\ RemovableSound(d) /\ capturePc[d] # "write" /\ lock # d /\ lock' # d
    BY <1>1 DEF StoreInv, WritersSound, WriterSound, Store!JobAssumption
  <2>2. ASSUME capturePc[d] \in {"begin", "write", "clean"}, captureJob[d].op = "capture"
        PROVE  fresh[d] \cap Store!Contents(rows') \subseteq Store!Contested
    <3>1. Store!Contents(captureJob[d].items) \cap Store!Contents(captureJob[w].items)
          \subseteq Store!Contested
      BY <1>1, <2>2, CapturesApart
    <3> QED BY <1>3, <2>1, <2>2, <3>1 DEF RemovableSound
  <2> QED BY <1>1, <1>7, <2>1, <2>2, WriterKept
<1> QED BY <1>2, <1>5, <1>6, <1>8, <1>9 DEF StoreInv, Store!NoDangling, WritersSound

(* A registration fails, or a capture cleans up after it failed: the files *)
(* that go, if not contested, are registered by no one and relied on by no *)
(* other writer.                                                           *)
LEMMA StoreRemoves ==
    ASSUME Store!JobAssumption, Store!BoundAssumption, StoreInv, NEW w \in Processes,
           Store!Rollback(w) \/ Store!CleanUp(w)
    PROVE  StoreInv'
<1> USE DEF Store!db
<1>1. /\ Store!TypeOK /\ WriterSound(w) /\ RemovableSound(w)
           /\ Store!Contents(rows) \ Store!Contested \subseteq files
      /\ captureJob[w] \in Jobs /\ capturePc[w] \in {"write", "clean"}
      /\ UNCHANGED <<reservation, rows, running, trace, captureJob, todo, fresh>>
  BY DEF StoreInv, Store!NoDangling, Store!FilesPresent, WritersSound, Store!Rollback,
     Store!CleanUp, WriterSound
<1>2. PICK s \in {"clean", "leave"} :
         capturePc' = [capturePc EXCEPT ![w] = s] /\ (s = "clean" => captureJob[w].op = "capture")
  BY DEF Store!Rollback, Store!CleanUp, Store!Goto
<1>3. PICK gone \in SUBSET fresh[w] :
         /\ files' = files \ gone
         /\ gone # {} => \/ capturePc[w] = "clean" /\ captureJob[w].op = "capture"
                         \/ capturePc[w] = "write" /\ captureJob[w].op = "batch"
  <2>1. CASE files' = files
    <3>1. files' = files \ {}
      BY <2>1
    <3> WITNESS {} \in SUBSET fresh[w]
    <3> QED BY <3>1
  <2>2. CASE files' = files \ fresh[w] /\ (\/ capturePc[w] = "clean"
                                           \/ capturePc[w] = "write" /\ captureJob[w].op = "batch")
    <3>1. capturePc[w] = "clean" => captureJob[w].op = "capture"
      BY <1>1 DEF WriterSound
    <3> WITNESS fresh[w] \in SUBSET fresh[w]
    <3> QED BY <2>2, <3>1
  <2> QED BY <2>1, <2>2 DEF Store!Rollback, Store!CleanUp
<1>4. Store!Contents(rows) \ Store!Contested \subseteq files' /\ files' \subseteq files
  BY <1>1, <1>3 DEF RemovableSound
<1>5. Store!FilesPresent' /\ Store!WithinLimits' /\ Store!OneContentPerIdentity' /\ RowsFinite'
  BY <1>1, <1>4 DEF StoreInv, Store!NoDangling, Store!FilesPresent, Store!WithinLimits,
     Store!OneContentPerIdentity, RowsFinite
<1>6. faults' \in 0..MaxFaults
  <2>1. faults' = faults \/ (faults < MaxFaults /\ faults' = faults + 1)
    BY DEF Store!Rollback, Store!CleanUp, Store!Fault
  <2>2. faults \in 0..MaxFaults /\ MaxFaults \in Nat
    BY <1>1 DEF Store!TypeOK, Store!BoundAssumption
  <2> QED BY <2>1, <2>2
<1>7. lock' = (IF capturePc[w] = "write" THEN Free ELSE lock)
      /\ (capturePc[w] = "write" <=> lock = w)
  BY <1>1 DEF Store!Rollback, Store!CleanUp, WriterSound
<1>8. Store!TypeOK'
  BY <1>1, <1>2, <1>4, <1>6, <1>7 DEF Store!TypeOK
<1>9. /\ \A d \in Processes \ {w} : UNCHANGED <<capturePc[d], captureJob[d], todo[d], fresh[d]>>
           /\ (lock = d <=> lock' = d)
      /\ capturePc'[w] = s /\ lock' # w
  BY <1>1, <1>2, <1>7 DEF Store!TypeOK, Store!JobAssumption
<1>10. WriterSound(w)' /\ RemovableSound(w)'
  BY <1>1, <1>2, <1>9 DEF WriterSound, RemovableSound
<1>11. ASSUME NEW d \in Processes \ {w} PROVE WriterSound(d)' /\ RemovableSound(d)'
  <2>1. WriterSound(d) /\ RemovableSound(d)
    BY DEF StoreInv, WritersSound
  <2>2. ASSUME capturePc[d] = "write" PROVE Stored(d) \ Store!Contested \subseteq files'
    <3>1. Stored(d) \ Store!Contested \subseteq files /\ lock = d /\ captureJob[d] \in Jobs
      BY <2>1, <2>2 DEF WriterSound
    <3>2. CASE gone = {}
      BY <1>3, <3>1, <3>2
    <3>3. CASE gone # {}
      <4>1. capturePc[w] = "clean" /\ captureJob[w].op = "capture"
        BY <1>3, <1>7, <3>1, <3>3
      <4>2. Store!Contents(captureJob[w].items) \cap Store!Contents(captureJob[d].items)
            \subseteq Store!Contested
        BY <2>2, <4>1, CapturesApart
      <4>3. fresh[w] \subseteq Store!Contents(captureJob[w].items)
        BY <1>1, <4>1 DEF RemovableSound
      <4>4. Stored(d) \subseteq Store!Contents(captureJob[d].items)
        BY DEF Stored, Store!Contents
      <4> QED BY <1>3, <3>1, <4>2, <4>3, <4>4
    <3> QED BY <3>2, <3>3
  <2> QED BY <1>1, <1>9, <2>1, <2>2, WriterKept DEF RemovableSound
<1> QED BY <1>5, <1>8, <1>10, <1>11 DEF StoreInv, Store!NoDangling, WritersSound

(* A Run ends only while nobody holds the lock that writes for it.         *)
LEMMA StoreRunEnds ==
    ASSUME StoreInv, NEW r \in Runs, Store!RunEnds(r), Store!JobAssumption
    PROVE  StoreInv'
<1>1. UNCHANGED <<lock, reservation, rows, trace, files, capturePc, captureJob, todo, fresh,
      faults>>
  BY DEF Store!RunEnds, Store!local
<1>2. Store!TypeOK /\ lock = Free /\ running' \subseteq running
  BY DEF StoreInv, Store!NoDangling, Store!RunEnds
<1>3. Store!TypeOK'
  BY <1>1, <1>2 DEF Store!TypeOK
<1>4. Store!FilesPresent' /\ Store!WithinLimits' /\ Store!OneContentPerIdentity' /\ RowsFinite'
  BY <1>1 DEF StoreInv, Store!NoDangling, Store!FilesPresent, Store!WithinLimits,
     Store!OneContentPerIdentity, RowsFinite
<1>5. ASSUME NEW d \in Processes PROVE WriterSound(d)' /\ RemovableSound(d)'
  <2>1. WriterSound(d) /\ RemovableSound(d) /\ capturePc[d] # "write"
    BY <1>2 DEF StoreInv, WritersSound, WriterSound, Store!JobAssumption
  <2> QED BY <1>1, <2>1 DEF WriterSound, RemovableSound, Stored
<1> QED BY <1>3, <1>4, <1>5 DEF StoreInv, Store!NoDangling, WritersSound

-----------------------------------------------------------------------------
LEMMA StoreStep ==
    ASSUME Store!JobAssumption, Store!BoundAssumption, StoreInv, [Store!Next]_(Store!vars)
    PROVE  StoreInv'
<1>1. CASE \E w \in Processes : \/ \E j \in Jobs : Store!Reserve(w, j) \/ Store!Request(w, j)
                                \/ Store!Preflight(w) \/ Store!LookForText(w)
  BY <1>1, StoreBegins
<1>2. CASE \E w \in Processes : Store!BeginTransaction(w)
  BY <1>2, StoreOpens
<1>3. CASE \E w \in Processes : \E i \in todo[w] : Store!StoreBlob(w, i)
  BY <1>3, StoreWrites
<1>4. CASE \E w \in Processes : Store!AppendEvent(w) \/ Store!Leave(w) \/ Store!Crash(w)
  BY <1>4, StoreEnds
<1>5. CASE \E w \in Processes : Store!Commit(w)
  BY <1>5, StoreCommits
<1>6. CASE \E w \in Processes : Store!Rollback(w) \/ Store!CleanUp(w)
  BY <1>6, StoreRemoves
<1>7. CASE \E r \in Runs : Store!RunEnds(r)
  BY <1>7, StoreRunEnds
<1>8. CASE UNCHANGED Store!vars
  <2>1. UNCHANGED <<lock, reservation, running, rows, trace, files, capturePc, captureJob, todo,
        fresh, faults>>
    BY <1>8 DEF Store!vars, Store!db, Store!local
  <2> QED BY <2>1 DEF StoreInv, Store!NoDangling, Store!TypeOK, Store!FilesPresent,
     Store!WithinLimits, Store!OneContentPerIdentity,
                      RowsFinite, WritersSound, WriterSound, RemovableSound, Stored
<1> QED BY <1>1, <1>2, <1>3, <1>4, <1>5, <1>6, <1>7, <1>8 DEF Store!Next

(* Whatever writers crash, fail or clean up, no committed row is without   *)
(* its file unless a capture of one Run shares those bytes with another    *)
(* call (retention.py's clean-up outside the lock), no role of captures holds *)
(* more than its limit, and an identity has one content.                   *)
THEOREM FilesKept ==
    ASSUME Store!JobAssumption, Store!BoundAssumption PROVE Store!Spec => []Store!NoDangling
<1>1. Store!Init => StoreInv
  BY StoreInit
<1>2. StoreInv /\ [Store!Next]_(Store!vars) => StoreInv'
  BY StoreStep
<1>3. StoreInv => Store!NoDangling
  BY DEF StoreInv
<1> QED BY <1>1, <1>2, <1>3, PTL DEF Store!Spec

(* So no row at all is ever without its file where the bytes of a capture  *)
(* are its own Run's.                                                      *)
THEOREM AllFilesKept ==
    ASSUME Store!JobAssumption, Store!BoundAssumption, Store!Contested = {}
    PROVE  Store!Spec => [](Store!Contents(rows) \subseteq files)
<1>1. Store!NoDangling => Store!Contents(rows) \subseteq files
  BY DEF Store!NoDangling, Store!FilesPresent
<1> QED BY <1>1, FilesKept, PTL

(* What a capture or a batch adds belongs to a Run that is RUNNING when it *)
(* commits, and so does an event of the trace, written to another database *)
(* while the lock of this one is held.  Inputs belong to no Run, and an    *)
(* output is put for its Run whatever became of that.                      *)
THEOREM NothingAddedLater ==
    ASSUME Store!JobAssumption, Store!BoundAssumption
    PROVE  Store!Spec => [][Store!NothingAfterTheEnd]_(Store!vars)
<1>1. ASSUME StoreInv, [Store!Next]_(Store!vars) PROVE [Store!NothingAfterTheEnd]_(Store!vars)
  <2>1. ASSUME NEW w \in Processes, Store!Commit(w) PROVE Store!NothingAfterTheEnd
    <3>1. trace' = trace /\ rows' = rows \cup Store!Rows(captureJob[w])
          /\ Store!Admissible(captureJob[w]) /\ captureJob[w] \in Jobs
      BY <1>1, <2>1 DEF StoreInv, WritersSound, WriterSound, Store!Commit
    <3>2. ASSUME NEW r \in Store!Rows(captureJob[w]), r.role \notin {"input", "output"}
          PROVE  r.run \in running
      <4>1. PICK i \in captureJob[w].items : r = Store!Row(captureJob[w], i)
        BY DEF Store!Rows
      <4>2. captureJob[w].op \notin {"input", "put"} /\ r.run = captureJob[w].run
        BY <3>1, <3>2, <4>1 DEF Store!Row, Store!JobAssumption, Store!JobRecord
      <4> QED BY <3>1, <4>2 DEF Store!Admissible
    <3> QED BY <3>1, <3>2 DEF Store!NothingAfterTheEnd
  <2>2. ASSUME NEW w \in Processes, Store!AppendEvent(w) PROVE Store!NothingAfterTheEnd
    <3>1. rows' = rows /\ trace' = trace \cup {captureJob[w]} /\ captureJob[w].run \in running
      BY <1>1, <2>2 DEF StoreInv, WritersSound, WriterSound, Store!AppendEvent
    <3> QED BY <3>1 DEF Store!NothingAfterTheEnd
  <2>3. CASE UNCHANGED <<rows, trace>>
    BY <2>3 DEF Store!NothingAfterTheEnd
  <2>4. \/ \E w \in Processes : Store!Commit(w) \/ Store!AppendEvent(w)
        \/ UNCHANGED <<rows, trace>>
    BY <1>1 DEF Store!Next, Store!vars, Store!db, Store!Reserve, Store!Request,
       Store!Preflight, Store!LookForText, Store!BeginTransaction, Store!StoreBlob,
                Store!Rollback, Store!CleanUp, Store!Leave, Store!Crash, Store!RunEnds
  <2> QED BY <2>1, <2>2, <2>3, <2>4
<1>2. Store!Init => StoreInv
  BY StoreInit
<1>3. StoreInv /\ [Store!Next]_(Store!vars) => StoreInv'
  BY StoreStep
<1> QED BY <1>1, <1>2, <1>3, PTL DEF Store!Spec

-----------------------------------------------------------------------------
(* What is proved of Runs and of artifacts holds of the store that keeps   *)
(* both: a behaviour of the store is one of each.                          *)

StoreAssumption ==
    /\ Execution!RunAssumption /\ Execution!HandoffAssumption /\ Execution!CrashAssumption
    /\ Store!JobAssumption /\ Store!BoundAssumption

LEMMA RunsBehave == Spec => Execution!Spec
<1>1. Init => Execution!Init
  BY DEF Init
<1>2. [Next]_<<service, runVars, storeVars>> => [Execution!Next]_(Execution!vars)
  BY DEF Next, runVars, Execution!vars, Execution!store, Execution!process
<1> QED BY <1>1, <1>2, PTL DEF Spec, Execution!Spec

LEMMA ArtifactsBehave == Spec => Store!Spec
<1>1. Init => Store!Init
  BY DEF Init
<1>2. [Next]_<<service, runVars, storeVars>> => [Store!Next]_(Store!vars)
  BY DEF Next, storeVars, Store!vars, Store!db, Store!local
<1> QED BY <1>1, <1>2, PTL DEF Spec, Store!Spec

(* Of the store as a whole: what anybody returned is kept, in order, and a *)
(* COMPLETED Run rests on the one valid result it names.                   *)
THEOREM StoreRetains == ASSUME StoreAssumption PROVE Spec => []ResultsRetained
<1>1. Execution!Spec => []Execution!ResultsRetained
  BY RetainedResults DEF StoreAssumption
<1> QED BY <1>1, RunsBehave, PTL DEF ResultsRetained

(* Of the store as a whole: no committed row is ever without its file but  *)
(* for contested bytes, and no role holds more than its limit.             *)
THEOREM StoreKeepsFiles == ASSUME StoreAssumption PROVE Spec => []NoDangling
<1>1. Store!Spec => []Store!NoDangling
  BY FilesKept DEF StoreAssumption
<1> QED BY <1>1, ArtifactsBehave, PTL DEF NoDangling

(* Of the store as a whole: a Run that ended keeps its outcome and its     *)
(* history, and no capture, batch or trace event is added to it any more.  *)
THEOREM StoreEndsForGood == ASSUME StoreAssumption PROVE Spec => NothingAfterTheEnd
<1>1. Execution!Spec => [][Execution!NothingAfterTheEnd]_(Execution!vars)
  BY EndedForGood DEF StoreAssumption
<1>2. Store!Spec => [][Store!NothingAfterTheEnd]_(Store!vars)
  BY NothingAddedLater DEF StoreAssumption
<1>3. [Execution!NothingAfterTheEnd]_(Execution!vars) /\ [Store!NothingAfterTheEnd]_(Store!vars)
        => [Execution!NothingAfterTheEnd /\ Store!NothingAfterTheEnd]_<<runVars, storeVars>>
  <2>1. UNCHANGED Execution!vars => Execution!NothingAfterTheEnd
    BY DEF Execution!vars, Execution!store, Execution!process, Execution!NothingAfterTheEnd
  <2>2. UNCHANGED Store!vars => Store!NothingAfterTheEnd
    BY DEF Store!vars, Store!db, Store!local, Store!NothingAfterTheEnd
  <2> QED BY <2>1, <2>2
<1> QED BY <1>1, <1>2, <1>3, RunsBehave, ArtifactsBehave, PTL DEF NothingAfterTheEnd
===============================================================================
