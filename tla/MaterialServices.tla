---------------------------- MODULE MaterialServices ----------------------------
(***************************************************************************)
(* The services that bring material into the workspace, the recovery of    *)
(* what historical Runs proposed, and the Packages that carry it out.      *)
(* They share no state that any of them decides by: a behaviour picks one  *)
(* and the others stand still. The first three share the bound on the      *)
(* deaths of processes.                                                     *)
(***************************************************************************)
EXTENDS Naturals, Sequences, FiniteSets, FiniteSetTheorems, WellFoundedInduction, TLAPS

CONSTANTS
    Procs, None, MaxCrashes,
    Attempts, Captures, PairLimit,                              \* research
    Targets, Address, Origin, MaxChildRuns, MaxDamage,          \* recovery
    Reacquired, Requests, MaxAttempts, MaxMoves,                \* continuation
    Readers, Refs, Question, PackageRuns, SourceOf, Figures, PackageIds,
    MaxSnapshots, MaxExhibits, MaxLosses,                       \* packages
    FindingRuns, ParentOf, Candidates, Misbound, Misshapen, Undocumented, Unrelated,
    RowLimit, ChildLimit, MaxStateMoves, MaxMaterialLosses      \* findings

(* A request is for material that is numbered, and names some of it.       *)
ASSUME RequestAssumption ==
    /\ None \notin Procs /\ Reacquired \subseteq Nat
    /\ \A g \in Requests : g \subseteq Reacquired /\ g # {} /\ IsFiniteSet(g)

(* The code reads three rows; a candidate lies at its own place.           *)
ASSUME CandidateAssumption ==
    /\ RowLimit \in Nat /\ RowLimit >= 3 /\ IsFiniteSet(Candidates)
    /\ \A q \in Candidates : q = [kind |-> "original", run |-> q.run, mark |-> q.mark, at |-> 0]

(* A Run is real or virtual.                                               *)
ASSUME ModeAssumption ==
    \A r \in DOMAIN PackageRuns : PackageRuns[r].mode \in {"real", "virtual"}

VARIABLES
    service,
    status, captured, ledger, result, proposal, moved, lock, pc, job,
    payload, quarantine, runs, targetLock, addressLock, recPc, recJob, abandoned, damage,
    attempts, binding, held, contPc, contJob, moves,
    snapshots, exhibits, packages, lost, readerJob,
    completed, canonical, proposals, stateMoves, findPc, findJob,
    crashes

Research == INSTANCE DesktopResearch

Recovery == INSTANCE MaterialRecovery WITH
    Original <- Origin, MaxRuns <- MaxChildRuns, pc <- recPc, job <- recJob

Cont == INSTANCE MaterialContinuation WITH pc <- contPc, job <- contJob

Package == INSTANCE ResearchPackage WITH Runs <- PackageRuns, job <- readerJob

Find == INSTANCE FindingRecovery WITH
    Runs <- FindingRuns, Original <- Candidates, MaxMoves <- MaxStateMoves,
    MaxLosses <- MaxMaterialLosses, moves <- stateMoves, pc <- findPc, job <- findJob

researchVars == <<status, captured, ledger, result, proposal, moved, lock, pc, job>>
recoveryVars == <<payload, quarantine, runs, targetLock, addressLock, recPc, recJob,
                  abandoned, damage>>
continuationVars == <<attempts, binding, held, contPc, contJob, moves>>
packageVars == <<snapshots, exhibits, packages, lost, readerJob>>
findingVars == <<completed, canonical, proposals, stateMoves, findPc, findJob>>

Init ==
    /\ service \in {"research", "recovery", "continuation", "package", "findings"}
    /\ Research!Init /\ Recovery!Init /\ Cont!Init /\ Package!Init
    /\ Find!Init

Next ==
    /\ UNCHANGED service
    /\ \/ /\ service = "research" /\ Research!Next
          /\ UNCHANGED <<recoveryVars, continuationVars, packageVars, findingVars>>
       \/ /\ service = "recovery" /\ Recovery!Next
          /\ UNCHANGED <<researchVars, continuationVars, packageVars, findingVars>>
       \/ /\ service = "continuation" /\ Cont!Next
          /\ UNCHANGED <<researchVars, recoveryVars, packageVars, findingVars>>
       \/ /\ service = "package" /\ Package!Next
          /\ UNCHANGED <<researchVars, recoveryVars, continuationVars, findingVars, crashes>>
       \/ /\ service = "findings" /\ Find!Next
          /\ UNCHANGED <<researchVars, recoveryVars, continuationVars, packageVars, crashes>>

vars == <<service, researchVars, recoveryVars, continuationVars, packageVars, findingVars, crashes>>

Spec == Init /\ [][Next]_vars

(* A completed result agrees with the ledger of retrieval attempts, which  *)
(* can always be read back, and with the captures; its candidate is made   *)
(* from it.                                                                *)
ResultMatchesLedger ==
    Research!LedgerReads /\ Research!ResultMatchesLedger /\ Research!ProposalOfResult

(* No target is acquired again while its version verifies, and a corrupt   *)
(* payload gives way only when it lies in quarantine.                      *)
NothingLost == [][Recovery!RunIsNeeded /\ Recovery!LossIsQuarantined]_recoveryVars

(* An open child Run belongs to a call in progress or a dead process.      *)
SettledByItsCall == Recovery!SettledByItsCall

(* The requests for a single reacquisition leave one usable result at most *)
(* and those for any group a line of attempts with one open end at most;   *)
(* no two requests wait for each other's locks; and what a historical Run  *)
(* proposed is recovered from one sound candidate, or made from its result *)
(* where there is no such one.                                             *)
OneResult ==
    /\ Cont!OneResult /\ Cont!OneOpenAttempt /\ Cont!NoLockCycle
    /\ Find!RecoveredFromOne

(* A Package is of one Snapshot; what it selects, its captures and all     *)
(* that its exhibits were derived from are of one mode; it carries no      *)
(* visual of what has changed since, and an export of it is whole.         *)
PackagesCohere ==
    Package!OneMode /\ Package!VisualsCurrent /\ Package!ExportsWhole

-----------------------------------------------------------------------------
(* The modules count alike.                                                *)
LEMMA SameCount ==
    \A S : /\ Research!Cardinality(S) = Cardinality(S)
           /\ Cont!Cardinality(S) = Cardinality(S)
           /\ Package!Cardinality(S) = Cardinality(S)
           /\ Find!Cardinality(S) = Cardinality(S)
           /\ Find!IsFiniteSet(S) = IsFiniteSet(S)
<1> SUFFICES ASSUME NEW S
             PROVE  /\ Research!Cardinality(S) = Cardinality(S)
                    /\ Cont!Cardinality(S) = Cardinality(S)
                    /\ Package!Cardinality(S) = Cardinality(S)
                    /\ Find!Cardinality(S) = Cardinality(S)
                    /\ Find!IsFiniteSet(S) = IsFiniteSet(S)
  OBVIOUS
<1>1. Find!IsFiniteSet(S) = IsFiniteSet(S)
  BY DEF Find!IsFiniteSet, IsFiniteSet
<1>2. Research!Cardinality(S) = Cardinality(S)
  BY DEF Research!Cardinality, Cardinality
<1>3. Cont!Cardinality(S) = Cardinality(S)
  BY DEF Cont!Cardinality, Cardinality
<1>4. Find!Cardinality(S) = Cardinality(S)
  BY DEF Find!Cardinality, Cardinality
<1>5. Package!Cardinality(S) = Cardinality(S)
  BY DEF Package!Cardinality, Cardinality
<1> QED BY <1>1, <1>2, <1>3, <1>4, <1>5

-----------------------------------------------------------------------------
(* Intake                                                                   *)

SameEvent(e, f) == e.kind = f.kind /\ e.attempt = f.attempt

Ends(e) == e.kind = "complete" => Research!Known(e.attempt)

(* An event is recorded once, an end after its start.                      *)
LedgerSound ==
    /\ ledger \in Seq([kind : {"start", "complete"}, attempt : Attempts,
                       outcome : Research!Outcomes \cup {None}, capture : Captures \cup {None}])
    /\ \A i, j \in DOMAIN ledger : SameEvent(ledger[i], ledger[j]) => i = j
    /\ \A i \in DOMAIN ledger : ledger[i].kind = "complete" =>
          \E j \in DOMAIN ledger : j < i /\ ledger[j].kind = "start"
                                         /\ ledger[j].attempt = ledger[i].attempt

(* A result says what the ledger and the captures say.                     *)
Agrees(content) ==
    /\ Research!EveryAttemptEnded
    /\ content.trace = Research!AttemptIndex
    /\ content.captures \subseteq captured
    /\ \A a \in content.trace :
          Research!Outcome(a).outcome = "source_captured"
              => Research!Outcome(a).capture \in content.captures
    /\ content.claim \in {"covered", "silent"} => Research!Got("source_captured")

CollectionSound(p) ==
    /\ pc[p] \in {"idle", "append", "normalize", "commit"}
    /\ pc[p] = "append" =>
          /\ job[p] \in [kind : {"start", "complete"}, attempt : Attempts,
                         outcome : Research!Outcomes \cup {None}, capture : Captures \cup {None}]
          /\ Ends(job[p])
    /\ pc[p] \in {"normalize", "commit"} =>
          lock = p /\ status = "RUNNING" /\ Agrees(job[p])
    /\ pc[p] = "commit" => proposal = job[p]

ResearchInv ==
    /\ DOMAIN pc = Procs /\ DOMAIN job = Procs
    /\ LedgerSound
    /\ \A p \in Procs : CollectionSound(p)
    /\ status = "COMPLETED" => Agrees(result)
    /\ Research!ProposalOfResult

LEMMA Alone ==
    ASSUME NEW S, \A x, y \in S : x = y
    PROVE  Cardinality(S) <= 1
<1>1. CASE S = {}
  BY <1>1, FS_EmptySet
<1>2. ASSUME NEW x \in S PROVE Cardinality(S) <= 1
  <2>1. S = {x}
    BY <1>2
  <2> QED BY <2>1, FS_Singleton
<1> QED BY <1>1, <1>2

(* What a result agrees with does not change while the lock is held.       *)
LEMMA AgreesStays ==
    ASSUME ledger' = ledger, captured' = captured, NEW c, Agrees(c)
    PROVE  Agrees(c)'
BY DEF Agrees, Research!EveryAttemptEnded, Research!AttemptIndex, Research!Known,
   Research!Completed, Research!Events, Research!Outcome, Research!Got

LEMMA KnownStays ==
    ASSUME LedgerSound, NEW a, Research!Known(a), NEW e, ledger' \in {ledger, Append(ledger, e)}
    PROVE  Research!Known(a)'
BY DEF LedgerSound, Research!Known, Research!Events

(* A step of one call under the lock leaves the others as they are.        *)
LEMMA CollectionsStay ==
    ASSUME ResearchInv, None \notin Procs, NEW p \in Procs, NEW q \in Procs \ {p},
           pc'[q] = pc[q], job'[q] = job[q],
           NEW e, ledger' \in {ledger, Append(ledger, e)},
           lock \in Procs \ {p} =>
               /\ lock' = lock /\ status' = status /\ ledger' = ledger /\ captured' = captured
               /\ proposal' = proposal
    PROVE  CollectionSound(q)'
<1>1. CollectionSound(q) /\ LedgerSound
  BY DEF ResearchInv
<1>2. pc[q] = "append" => Ends(job[q])'
  BY <1>1, KnownStays, SMTT(30) DEF CollectionSound, Ends
<1>3. pc[q] \in {"normalize", "commit"} => Agrees(job[q])'
  BY <1>1, AgreesStays DEF CollectionSound
<1> QED BY <1>1, <1>2, <1>3 DEF CollectionSound

LEMMA ResearchInitSound == Research!Init => ResearchInv
BY DEF Research!Init, ResearchInv, LedgerSound, CollectionSound, Research!ProposalOfResult

LEMMA LedgerKept ==
    ASSUME ResearchInv, NEW p \in Procs, Research!AppendEvent(p)
    PROVE  LedgerSound' /\ ledger' = Append(ledger, job[p])
<1> DEFINE e == job[p]
           n == Len(ledger) + 1
           Recorded == [kind : {"start", "complete"}, attempt : Attempts,
                        outcome : Research!Outcomes \cup {None}, capture : Captures \cup {None}]
<1>1. ledger' = Append(ledger, e) /\ ledger \in Seq(Recorded) /\ e \in Recorded /\ Ends(e)
  BY DEF Research!AppendEvent, ResearchInv, LedgerSound, CollectionSound
<1>2. \A i \in DOMAIN ledger : ~SameEvent(ledger[i], e)
  BY DEF Research!AppendEvent, Research!FreshEvent, Research!Events, SameEvent
<1>3. e.kind = "complete" =>
          \E j \in DOMAIN ledger : ledger[j].kind = "start" /\ ledger[j].attempt = e.attempt
  BY <1>1 DEF Ends, Research!Known, Research!Events
<1>4. LedgerSound
  BY DEF ResearchInv
<1> HIDE DEF e, Recorded
<1>5. /\ ledger' \in Seq(Recorded)
      /\ DOMAIN ledger' = DOMAIN ledger \cup {n} /\ ledger'[n] = e
      /\ \A i \in DOMAIN ledger : ledger'[i] = ledger[i] /\ i < n
  BY <1>1
<1>6. \A i, j \in DOMAIN ledger' : SameEvent(ledger'[i], ledger'[j]) => i = j
  BY <1>2, <1>4, <1>5 DEF LedgerSound, SameEvent
<1>7. \A i \in DOMAIN ledger' : ledger'[i].kind = "complete" =>
          \E j \in DOMAIN ledger' : /\ j < i /\ ledger'[j].kind = "start"
                                    /\ ledger'[j].attempt = ledger'[i].attempt
  BY <1>3, <1>4, <1>5 DEF LedgerSound
<1> QED BY <1>1, <1>5, <1>6, <1>7 DEF LedgerSound, SameEvent, Recorded, e

(* A step of the call of p, or of none.                                    *)
IntakeStep(p) ==
    \/ Research!AppendEvent(p) \/ Research!Refuse(p) \/ Research!StoreProposal(p)
    \/ Research!RefuseCandidate(p)
    \/ Research!CommitResult(p) \/ Research!Collide(p) \/ Research!Abort(p) \/ Research!Crash(p)
    \/ \E c \in Captures : Research!CaptureSource(p, c)
    \/ Research!CollectResult(p) \/ Research!CollectHandoff(p)
    \/ \E a \in Attempts :
          \/ Research!StartAttempt(p, a)
          \/ \E o \in Research!Outcomes, c \in Captures \cup {None} :
                Research!CompleteAttempt(p, a, o, c)

LEMMA IntakeKeeps ==
    ASSUME ResearchInv, None \notin Procs, NEW p \in Procs, IntakeStep(p)
    PROVE  ResearchInv'
<1> USE DEF IntakeStep, Research!Refuse, Research!StoreProposal, Research!RefuseCandidate,
   Research!CommitResult, Research!Collide, Research!Abort, Research!Crash,
            Research!CaptureSource, Research!CollectResult, Research!CollectHandoff,
            Research!Normalize, Research!Commit, Research!StartAttempt,
            Research!CompleteAttempt, Research!Prepare, Research!Idle, Research!Guard,
            Research!stores
<1>1. CollectionSound(p) /\ LedgerSound /\ DOMAIN pc = Procs /\ DOMAIN job = Procs
  BY DEF ResearchInv
<1>2. LedgerSound' /\ ledger' \in {ledger, Append(ledger, job[p])}
  <2>1. CASE Research!AppendEvent(p)
    BY <2>1, LedgerKept
  <2>2. CASE ledger' = ledger
    BY <1>1, <2>2 DEF LedgerSound
  <2> QED BY <2>1, <2>2
<1>3. ASSUME NEW q \in Procs \ {p} PROVE CollectionSound(q)'
  <2>1. pc'[q] = pc[q] /\ job'[q] = job[q]
    BY <1>1 DEF Research!AppendEvent
  <2>2. lock \in Procs \ {p} =>
            /\ lock' = lock /\ status' = status /\ ledger' = ledger /\ captured' = captured
            /\ proposal' = proposal
    BY <1>1 DEF Research!AppendEvent, CollectionSound
  <2> QED BY <1>2, <2>1, <2>2, CollectionsStay, SMTT(60)
<1>4. DOMAIN pc' = Procs /\ DOMAIN job' = Procs
  BY <1>1 DEF Research!AppendEvent
<1>5. CollectionSound(p)'
  <2>1. ASSUME pc'[p] = "idle" PROVE CollectionSound(p)'
    BY <2>1 DEF CollectionSound
  <2>2. ASSUME NEW a \in Attempts, Research!StartAttempt(p, a) PROVE CollectionSound(p)'
    <3>1. pc'[p] = "append" /\ job'[p] = Research!Event("start", a, None, None)
      BY <1>1, <2>2
    <3> QED BY <3>1 DEF CollectionSound, Ends, Research!Event
  <2>3. ASSUME NEW a \in Attempts, NEW o \in Research!Outcomes, NEW c \in Captures \cup {None},
               Research!CompleteAttempt(p, a, o, c)
        PROVE  CollectionSound(p)'
    <3>1. /\ pc'[p] = "append" /\ job'[p] = Research!Event("complete", a, o, c)
          /\ ledger' = ledger /\ Research!Known(a)
      BY <1>1, <2>3
    <3>2. Research!Known(a)'
      BY <3>1 DEF Research!Known, Research!Events
    <3> QED BY <3>1, <3>2 DEF CollectionSound, Ends, Research!Event
  <2>4. ASSUME NEW s, Research!Valid(s), Research!EveryAttemptEnded, Research!Normalize(p, s),
               Research!Guard
        PROVE  CollectionSound(p)'
    <3>1. Agrees(Research!Content(s))
      BY <2>4 DEF Research!Valid, Research!CapturesHold, Research!TraceAgrees,
         Research!CoverageBacked, Agrees, Research!Content
    <3>2. /\ pc'[p] = "normalize" /\ job'[p] = Research!Content(s) /\ lock' = p
          /\ status' = "RUNNING"
          /\ Agrees(Research!Content(s))'
      BY <1>1, <2>4, <3>1, AgreesStays
    <3> QED BY <3>2 DEF CollectionSound
  <2>5. ASSUME Research!StoreProposal(p) PROVE CollectionSound(p)'
    <3>1. Agrees(job[p])'
      BY <1>1, <2>5, AgreesStays DEF CollectionSound
    <3> QED BY <1>1, <2>5, <3>1 DEF CollectionSound
  <2>6. ASSUME pc'[p] = pc[p], pc[p] = "idle" PROVE CollectionSound(p)'
    BY <2>6 DEF CollectionSound
  <2> QED BY <1>1, <2>1, <2>2, <2>3, <2>4, <2>5, <2>6 DEF Research!AppendEvent
<1>6. (status = "COMPLETED" => Agrees(result))'
  <2>1. CASE status = "COMPLETED"
    <3>1. ledger' = ledger /\ captured' = captured /\ result' = result /\ status' = status
      BY <1>1, <2>1 DEF CollectionSound, Research!AppendEvent
    <3> QED BY <2>1, <3>1, AgreesStays DEF ResearchInv
  <2>2. CASE status # "COMPLETED" /\ status' = "COMPLETED"
    <3>1. Research!Commit(p, job[p]) /\ Agrees(job[p])
      BY <1>1, <2>2 DEF CollectionSound, Research!AppendEvent
    <3> QED BY <3>1, AgreesStays
  <2> QED BY <2>1, <2>2
<1>7. Research!ProposalOfResult'
  <2>1. CASE status = "COMPLETED"
    BY <1>1, <2>1 DEF CollectionSound, Research!AppendEvent, ResearchInv,
       Research!ProposalOfResult
  <2>2. CASE status # "COMPLETED"
    BY <1>1, <2>2 DEF CollectionSound, Research!AppendEvent, Research!ProposalOfResult,
       Research!NoCandidate
  <2> QED BY <2>1, <2>2
<1> QED BY <1>2, <1>3, <1>4, <1>5, <1>6, <1>7 DEF ResearchInv

LEMMA ResearchStep ==
    ASSUME None \notin Procs, ResearchInv,
           Research!Next \/ UNCHANGED <<Research!stores, pc, job>>
    PROVE  ResearchInv'
<1>1. CASE Research!MoveState \/ UNCHANGED <<Research!stores, pc, job>>
  <2> USE DEF Research!MoveState, Research!stores
  <2>1. \A c : Agrees(c) => Agrees(c)'
    BY <1>1, AgreesStays
  <2>2. \A a : Research!Known(a) => Research!Known(a)'
    BY <1>1 DEF Research!Known, Research!Events
  <2>3. ASSUME NEW p \in Procs PROVE CollectionSound(p)'
    BY <1>1, <2>1, <2>2, <2>3 DEF ResearchInv, CollectionSound, Ends
  <2>4. LedgerSound' /\ Research!ProposalOfResult'
    BY <1>1 DEF ResearchInv, LedgerSound, Research!ProposalOfResult
  <2> QED BY <1>1, <2>1, <2>3, <2>4 DEF ResearchInv
<1> QED BY <1>1, IntakeKeeps DEF Research!Next, IntakeStep

LEMMA ResearchRight ==
    ResearchInv =>
        Research!LedgerReads /\ Research!ResultMatchesLedger /\ Research!ProposalOfResult
<1> SUFFICES ASSUME ResearchInv PROVE Research!LedgerReads /\ Research!ResultMatchesLedger
  BY DEF ResearchInv
<1>1. ASSUME NEW a \in Attempts, NEW kind PROVE Cardinality(Research!Events(kind, a)) <= 1
  <2>1. \A i, j \in Research!Events(kind, a) : i = j
    BY DEF ResearchInv, LedgerSound, Research!Events, SameEvent
  <2> QED BY <2>1, Alone
<1>2. \A a \in Attempts : \A i \in Research!Events("complete", a) :
          \E j \in Research!Events("start", a) : j < i
  BY DEF ResearchInv, LedgerSound, Research!Events
<1> QED BY SameCount, <1>1, <1>2
   DEF ResearchInv, Research!LedgerReads, Research!ResultMatchesLedger, Agrees

-----------------------------------------------------------------------------
(* Reacquisition and repair                                                 *)

Recorded == {"starting", "retrieving", "storing", "recording", "completing", "failing"}
Unrecorded == {"idle", "waiting", "deciding", "creating"}
Repairing == {"inspecting", "linking", "preserving", "replacing"}

(* A call past its decision holds the lock of its target, and a child of   *)
(* the same target is nobody else's.                                       *)
ReacquisitionSound(p) ==
    LET j == recJob[p] IN
    /\ recPc[p] \in Recorded \cup Unrecorded \cup Repairing \cup {"repairing"}
    /\ recPc[p] \in Unrecorded => j.child = 0
    /\ recPc[p] \in Recorded => j.child # 0
    /\ recPc[p] # "idle" => j.target \in Targets
    /\ recPc[p] \in {"deciding", "creating"} \/ j.child # 0 => targetLock[j.target] = p
    /\ j.child # 0 =>
          /\ j.child \in DOMAIN runs
          /\ runs[j.child].target = j.target
          /\ runs[j.child].status \in IF recPc[p] = "starting" THEN {"PREPARED", "ABORTED"}
                                      ELSE {"RUNNING", "ABORTED"}
    /\ recPc[p] = "creating" =>
             /\ j.attempt \in Nat
             /\ \A i \in DOMAIN runs : runs[i].target = j.target =>
                   /\ runs[i].attempt < j.attempt
                   /\ ~(/\ runs[i].status = "COMPLETED" /\ runs[i].result = "new"
                        /\ runs[i].artifact = "verified")

(* A repair holds the lock of its address; what it is about to replace is  *)
(* corrupt, and lies in quarantine by then.                                *)
RepairSound(p) ==
    LET a == Address[recJob[p].target] IN
    /\ recPc[p] \in Repairing => addressLock[a] = p
    /\ recPc[p] \in {"preserving", "replacing"} => payload[a].is = "corrupt"
    /\ recPc[p] = "replacing" => payload[a].corruption \in quarantine

PayloadsSound ==
    /\ DOMAIN payload = Recovery!Addresses
    /\ \A a \in Recovery!Addresses :
          payload[a] \in {Recovery!Verified, Recovery!Missing}
              \/ payload[a].is \in {"unreadable", "corrupt"}

ChildRuns ==
    [target : Targets, attempt : Nat,
     status : {"PREPARED", "RUNNING", "COMPLETED", "FAILED", "ABORTED"},
     result : Recovery!Outcomes \cup {"none"}, artifact : {"none", "verified", "missing"}]

(* Attempts are numbers, one of which is the latest.                       *)
RunsSound ==
    /\ runs \in Seq(ChildRuns)
    /\ runs # <<>> => \E i \in DOMAIN runs : \A j \in DOMAIN runs :
                          runs[j].attempt <= runs[i].attempt

ChildrenApart == \A p, q \in Procs : recJob[p].child # 0 /\ recJob[q].child = recJob[p].child
    => p = q

OpenRun(i) == runs[i].status \in {"PREPARED", "RUNNING"}

CallsTyped ==
    /\ DOMAIN recPc = Procs /\ DOMAIN recJob = Procs
    /\ \A p \in Procs :
          DOMAIN recJob[p] = {"target", "child", "attempt", "got"}
              /\ recJob[p].got \in Recovery!Outcomes
    /\ DOMAIN targetLock = Targets /\ DOMAIN addressLock = Recovery!Addresses

RecoveryInv ==
    /\ CallsTyped /\ PayloadsSound /\ RunsSound /\ ChildrenApart
    /\ \A p \in Procs : ReacquisitionSound(p) /\ RepairSound(p)
    /\ Recovery!SettledByItsCall

(* A step of one call: the others keep what they hold, the bytes they are  *)
(* about to replace and their children.                                    *)
CallStep(p) ==
    /\ \A q \in Procs \ {p} :
          /\ recPc'[q] = recPc[q] /\ recJob'[q] = recJob[q]
          /\ \A t \in Targets : targetLock[t] = q => targetLock'[t] = q
          /\ \A a \in Recovery!Addresses : addressLock[a] = q
               => addressLock'[a] = q /\ payload'[a] = payload[a]
    /\ quarantine \subseteq quarantine' /\ abandoned \subseteq abandoned'
    /\ recJob'[p].child \in {0, recJob[p].child}
    /\ DOMAIN runs' = DOMAIN runs
    /\ \A i \in DOMAIN runs :
          /\ runs'[i].target = runs[i].target /\ runs'[i].attempt = runs[i].attempt
          /\ i # recJob[p].child => runs'[i] = runs[i]
          /\ i = recJob[p].child /\ recJob'[p].child = 0 => i \in abandoned' \/ ~OpenRun(i)'

LEMMA OthersStay ==
    ASSUME RecoveryInv, NEW p \in Procs, CallStep(p), NEW q \in Procs \ {p}
    PROVE  ReacquisitionSound(q)' /\ RepairSound(q)'
<1>1. recPc'[q] = recPc[q] /\ recJob'[q] = recJob[q]
  BY DEF CallStep
<1>2. RepairSound(q)'
  <2>1. recPc[q] \in Repairing => recJob[q].target \in Targets
    BY DEF RecoveryInv, ReacquisitionSound, Repairing
  <2> QED BY <1>1, <2>1 DEF CallStep, RecoveryInv, RepairSound, Repairing, Recovery!Addresses
<1>3. ReacquisitionSound(q)'
  <2>1. ReacquisitionSound(q) /\ ReacquisitionSound(p)
    BY DEF RecoveryInv
  <2>2. recJob[q].child # 0 \/ recPc[q] \in {"deciding", "creating"} =>
               recJob[q].target \in Targets /\ targetLock'[recJob[q].target] = q
    BY <2>1 DEF CallStep, ReacquisitionSound, Unrecorded
  <2>3. recJob[q].child # 0
        => recJob[q].child \in DOMAIN runs' /\ runs'[recJob[q].child] = runs[recJob[q].child]
    BY <2>1 DEF CallStep, ReacquisitionSound, RecoveryInv, ChildrenApart
  <2>4. ASSUME recPc[q] = "creating", NEW i \in DOMAIN runs, runs[i].target = recJob[q].target
        PROVE  runs'[i] = runs[i]
    <3>1. i # 0
      BY DEF RecoveryInv, RunsSound
    <3>2. targetLock[recJob[q].target] = q
      BY <2>1, <2>4 DEF ReacquisitionSound
    <3>3. i # recJob[p].child
      BY <2>1, <2>4, <3>1, <3>2 DEF ReacquisitionSound
    <3> QED BY <3>3 DEF CallStep
  <2> QED BY <1>1, <2>1, <2>2, <2>3, <2>4 DEF CallStep, ReacquisitionSound, Unrecorded, Recorded
<1> QED BY <1>2, <1>3

LEMMA CallKeeps ==
    ASSUME RecoveryInv, NEW p \in Procs, CallStep(p), CallsTyped', PayloadsSound', RunsSound',
           ReacquisitionSound(p)', RepairSound(p)'
    PROVE  RecoveryInv'
<1>1. \A q \in Procs : ReacquisitionSound(q)' /\ RepairSound(q)'
  BY OthersStay
<1>2. ChildrenApart'
  BY DEF RecoveryInv, ChildrenApart, CallStep
<1>3. Recovery!SettledByItsCall'
  <2> SUFFICES ASSUME NEW i \in DOMAIN runs', runs'[i].status \in {"PREPARED", "RUNNING"}
               PROVE  i \in abandoned' \/ \E q \in Procs : recJob'[q].child = i
    BY DEF Recovery!SettledByItsCall
  <2>1. CASE i = recJob[p].child
    BY <2>1 DEF CallStep, OpenRun
  <2>2. CASE i # recJob[p].child
    <3>1. i \in DOMAIN runs /\ runs[i].status \in {"PREPARED", "RUNNING"}
      BY <2>2 DEF CallStep
    <3>2. i \in abandoned \/ \E q \in Procs : recJob[q].child = i
      BY <3>1 DEF RecoveryInv, Recovery!SettledByItsCall
    <3> QED BY <2>2, <3>2 DEF CallStep
  <2> QED BY <2>1, <2>2
<1> QED BY <1>1, <1>2, <1>3 DEF RecoveryInv
LEMMA RunFields == ASSUME RunsSound, NEW i \in DOMAIN runs PROVE runs[i] \in ChildRuns
BY DEF RunsSound

(* A call's own Run becomes another one for the same attempt.              *)
LEMMA RunUpdated ==
    ASSUME RunsSound, NEW i \in DOMAIN runs, NEW r \in ChildRuns,
           r.target = runs[i].target, r.attempt = runs[i].attempt, runs' = [runs EXCEPT ![i] = r]
    PROVE  /\ RunsSound' /\ DOMAIN runs' = DOMAIN runs /\ runs'[i] = r
           /\ \A k \in DOMAIN runs :
                 /\ runs'[k].target = runs[k].target /\ runs'[k].attempt = runs[k].attempt
                 /\ k # i => runs'[k] = runs[k]
<1>1. /\ runs' \in Seq(ChildRuns) /\ DOMAIN runs' = DOMAIN runs /\ runs'[i] = r
      /\ \A k \in DOMAIN runs : k # i => runs'[k] = runs[k]
  BY DEF RunsSound
<1>2. \A k \in DOMAIN runs : runs'[k].target = runs[k].target /\ runs'[k].attempt = runs[k].attempt
  BY <1>1
<1>3. runs' # <<>> => runs # <<>>
  BY <1>1 DEF RunsSound
<1>4. RunsSound'
  BY <1>1, <1>2, <1>3 DEF RunsSound
<1> QED BY <1>1, <1>2, <1>4

(* The steps that change no Run and no payload.                            *)
TakingStep(p) ==
    \/ \E t \in Targets : Recovery!Reacquire(p, t) \/ Recovery!BringFile(p, t)
    \/ Recovery!LockTarget(p) \/ Recovery!Reuse(p) \/ Recovery!Crash(p)

FetchingStep(p) ==
    \E outcome \in Recovery!Outcomes :
        Recovery!RetrieveOriginal(p, outcome) \/ Recovery!RegenerateRendition(p, outcome)

CheckingStep(p) ==
    Recovery!LockAddress(p) \/ Recovery!Inspect(p) \/ Recovery!Preserve(p)

LookingStep(p) == TakingStep(p) \/ FetchingStep(p) \/ CheckingStep(p)

LEMMA LookingKeeps ==
    ASSUME RecoveryInv, None \notin Procs, NEW p \in Procs, LookingStep(p)
    PROVE  RecoveryInv'
<1> USE DEF Recovery!Reacquire, Recovery!BringFile, Recovery!LockTarget,
   Recovery!TargetFree, Recovery!Reuse, Recovery!RetrieveOriginal,
            Recovery!RegenerateRendition, Recovery!Retrieved, Recovery!AfterRetrieval,
            Recovery!Outcomes, Recovery!LockAddress, Recovery!Inspect, Recovery!Preserve,
            Recovery!Crash, Recovery!Step, Recovery!End, Recovery!Release, Recovery!Installed,
            Recovery!NotInstalled, Recovery!Outside, Recovery!At, Recovery!NoJob, Recovery!locks,
            Recovery!faults,
            Recovery!State, Recovery!Verified, Recovery!Missing, Recovery!Repairable
<1>1. ReacquisitionSound(p) /\ RepairSound(p) /\ CallsTyped /\ RunsSound /\ PayloadsSound
  BY DEF RecoveryInv
<1>2. CallsTyped'
  <2>1. CASE TakingStep(p)
    BY <1>1, <2>1 DEF TakingStep, CallsTyped
  <2>2. CASE FetchingStep(p)
    BY <1>1, <2>2 DEF FetchingStep, CallsTyped
  <2>3. CASE CheckingStep(p)
    BY <1>1, <2>3 DEF CheckingStep, CallsTyped
  <2> QED BY <2>1, <2>2, <2>3 DEF LookingStep
<1>3. CallStep(p)
  <2>1. \A q \in Procs \ {p} : recPc'[q] = recPc[q] /\ recJob'[q] = recJob[q]
    <3>1. CASE TakingStep(p)
      BY <1>1, <3>1 DEF TakingStep, CallsTyped
    <3>2. CASE FetchingStep(p)
      BY <1>1, <3>2 DEF FetchingStep, CallsTyped
    <3>3. CASE CheckingStep(p)
      BY <1>1, <3>3 DEF CheckingStep, CallsTyped
    <3> QED BY <3>1, <3>2, <3>3 DEF LookingStep
  <2>2. \A q \in Procs \ {p}, t \in Targets : targetLock[t] = q => targetLock'[t] = q
    <3>1. CASE TakingStep(p)
      BY <1>1, <3>1 DEF TakingStep, CallsTyped
    <3>2. CASE FetchingStep(p)
      BY <1>1, <3>2 DEF FetchingStep, CallsTyped
    <3>3. CASE CheckingStep(p)
      BY <1>1, <3>3 DEF CheckingStep, CallsTyped
    <3> QED BY <3>1, <3>2, <3>3 DEF LookingStep
  <2>3. \A q \in Procs \ {p}, a \in Recovery!Addresses :
            addressLock[a] = q => addressLock'[a] = q /\ payload'[a] = payload[a]
    <3>1. CASE TakingStep(p)
      BY <1>1, <3>1 DEF TakingStep, CallsTyped, RepairSound, Repairing
    <3>2. CASE FetchingStep(p)
      BY <1>1, <3>2 DEF FetchingStep, CallsTyped, RepairSound, Repairing
    <3>3. CASE CheckingStep(p)
      BY <1>1, <3>3 DEF CheckingStep, CallsTyped, RepairSound, Repairing
    <3> QED BY <3>1, <3>2, <3>3 DEF LookingStep
  <2>4. recJob'[p].child \in {0, recJob[p].child}
    <3>1. CASE TakingStep(p)
      BY <1>1, <3>1 DEF TakingStep, CallsTyped, ReacquisitionSound, Unrecorded
    <3>2. CASE FetchingStep(p)
      BY <1>1, <3>2 DEF FetchingStep, CallsTyped, ReacquisitionSound, Unrecorded
    <3>3. CASE CheckingStep(p)
      BY <1>1, <3>3 DEF CheckingStep, CallsTyped, ReacquisitionSound, Unrecorded
    <3> QED BY <3>1, <3>2, <3>3 DEF LookingStep
  <2>5. \A i \in DOMAIN runs : i = recJob[p].child /\ recJob'[p].child = 0 => i \in abandoned'
    <3>1. CASE TakingStep(p)
      BY <1>1, <3>1 DEF TakingStep, CallsTyped, RunsSound, ReacquisitionSound, Unrecorded
    <3>2. CASE FetchingStep(p)
      BY <1>1, <3>2 DEF FetchingStep, CallsTyped, RunsSound, ReacquisitionSound, Unrecorded
    <3>3. CASE CheckingStep(p)
      BY <1>1, <3>3 DEF CheckingStep, CallsTyped, RunsSound, ReacquisitionSound, Unrecorded
    <3> QED BY <3>1, <3>2, <3>3 DEF LookingStep
  <2>6. quarantine \subseteq quarantine' /\ abandoned \subseteq abandoned' /\ runs' = runs
    <3>1. CASE TakingStep(p)
      BY <3>1 DEF TakingStep
    <3>2. CASE FetchingStep(p)
      BY <3>2 DEF FetchingStep
    <3>3. CASE CheckingStep(p)
      BY <3>3 DEF CheckingStep
    <3> QED BY <3>1, <3>2, <3>3 DEF LookingStep
  <2> QED BY <2>1, <2>2, <2>3, <2>4, <2>5, <2>6 DEF CallStep
<1>4. PayloadsSound' /\ RunsSound'
  <2>1. CASE TakingStep(p)
    BY <1>1, <2>1 DEF TakingStep, PayloadsSound, RunsSound
  <2>2. CASE FetchingStep(p)
    BY <1>1, <2>2 DEF FetchingStep, PayloadsSound, RunsSound
  <2>3. CASE CheckingStep(p)
    BY <1>1, <2>3 DEF CheckingStep, PayloadsSound, RunsSound
  <2> QED BY <2>1, <2>2, <2>3 DEF LookingStep
<1>5. ReacquisitionSound(p)'
  <2>1. CASE TakingStep(p)
    BY <1>1, <2>1 DEF TakingStep, CallsTyped, ReacquisitionSound,
         Unrecorded, Recorded, Repairing
  <2>2. CASE FetchingStep(p)
    BY <1>1, <2>2 DEF FetchingStep, CallsTyped, ReacquisitionSound,
         Unrecorded, Recorded, Repairing
  <2>3. CASE CheckingStep(p)
    <3>1. CASE Recovery!LockAddress(p)
      BY <1>1, <3>1 DEF CallsTyped, ReacquisitionSound, Unrecorded, Recorded, Repairing
    <3>2. CASE Recovery!Inspect(p)
      BY <1>1, <3>2 DEF CallsTyped, ReacquisitionSound, Unrecorded, Recorded, Repairing
    <3>3. CASE Recovery!Preserve(p)
      BY <1>1, <3>3 DEF CallsTyped, ReacquisitionSound, Unrecorded, Recorded, Repairing
    <3> QED BY <2>3, <3>1, <3>2, <3>3 DEF CheckingStep
  <2> QED BY <2>1, <2>2, <2>3 DEF LookingStep
<1>6. RepairSound(p)'
  <2>1. CASE \E t \in Targets : Recovery!Reacquire(p, t)
    BY <1>1, <2>1 DEF CallsTyped, PayloadsSound, ReacquisitionSound, RepairSound, Unrecorded,
                   Recorded, Repairing, Recovery!Addresses
  <2>2. CASE \E t \in Targets : Recovery!BringFile(p, t)
    BY <1>1, <2>2 DEF CallsTyped, PayloadsSound, ReacquisitionSound, RepairSound, Unrecorded,
                   Recorded, Repairing, Recovery!Addresses
  <2>3. CASE Recovery!LockTarget(p)
    BY <1>1, <2>3 DEF CallsTyped, PayloadsSound, ReacquisitionSound, RepairSound, Unrecorded,
                   Recorded, Repairing, Recovery!Addresses
  <2>4. CASE Recovery!Reuse(p)
    BY <1>1, <2>4 DEF CallsTyped, PayloadsSound, ReacquisitionSound, RepairSound, Unrecorded,
                   Recorded, Repairing, Recovery!Addresses
  <2>5. CASE \E o \in Recovery!Outcomes : Recovery!RetrieveOriginal(p, o)
    BY <1>1, <2>5 DEF CallsTyped, PayloadsSound, ReacquisitionSound, RepairSound, Unrecorded,
                   Recorded, Repairing, Recovery!Addresses
  <2>6. CASE \E o \in Recovery!Outcomes : Recovery!RegenerateRendition(p, o)
    BY <1>1, <2>6 DEF CallsTyped, PayloadsSound, ReacquisitionSound, RepairSound, Unrecorded,
                   Recorded, Repairing, Recovery!Addresses
  <2>7. CASE Recovery!LockAddress(p)
    BY <1>1, <2>7 DEF CallsTyped, PayloadsSound, ReacquisitionSound, RepairSound, Unrecorded,
                   Recorded, Repairing, Recovery!Addresses
  <2>8. CASE Recovery!Inspect(p)
    BY <1>1, <2>8 DEF CallsTyped, PayloadsSound, ReacquisitionSound, RepairSound, Unrecorded,
                   Recorded, Repairing, Recovery!Addresses
  <2>9. CASE Recovery!Preserve(p)
    BY <1>1, <2>9 DEF CallsTyped, PayloadsSound, ReacquisitionSound, RepairSound, Unrecorded,
                   Recorded, Repairing, Recovery!Addresses
  <2>10. CASE Recovery!Crash(p)
    BY <1>1, <2>10 DEF CallsTyped, PayloadsSound, ReacquisitionSound, RepairSound, Unrecorded,
                   Recorded, Repairing, Recovery!Addresses
  <2> QED BY <2>1, <2>2, <2>3, <2>4, <2>5, <2>6, <2>7, <2>8, <2>9, <2>10
       DEF LookingStep, TakingStep, FetchingStep, CheckingStep
<1> QED BY <1>2, <1>3, <1>4, <1>5, <1>6, CallKeeps

(* An attempt takes a number above all others; what was acquired for its   *)
(* target does not verify any more.                                        *)
LEMMA DecideKeeps ==
    ASSUME RecoveryInv, NEW p \in Procs, Recovery!Decide(p)
    PROVE  RecoveryInv'
<1> USE DEF Recovery!Decide, Recovery!Step, Recovery!locks, Recovery!faults
<1>1. ReacquisitionSound(p) /\ RepairSound(p) /\ CallsTyped /\ RunsSound /\ PayloadsSound
  BY DEF RecoveryInv
<1>2. CallsTyped'
  BY <1>1 DEF CallsTyped
<1>3. CallStep(p)
  BY <1>1 DEF CallsTyped, CallStep, ReacquisitionSound, Unrecorded, RunsSound
<1>4. PayloadsSound' /\ RunsSound'
  BY <1>1 DEF PayloadsSound, RunsSound
<1>5. /\ Recovery!LatestAttempt \in Nat
      /\ \A i \in DOMAIN runs : runs[i].attempt <= Recovery!LatestAttempt
  <2>1. CASE runs = <<>>
    BY <2>1 DEF Recovery!LatestAttempt
  <2>2. CASE runs # <<>>
    <3> DEFINE n == CHOOSE i \in DOMAIN runs :
                        \A j \in DOMAIN runs : runs[j].attempt <= runs[i].attempt
    <3>1. n \in DOMAIN runs /\ \A j \in DOMAIN runs : runs[j].attempt <= runs[n].attempt
      BY <1>1, <2>2 DEF RunsSound
    <3>2. \A i \in DOMAIN runs : runs[i].attempt \in Nat
      BY <1>1, RunFields DEF ChildRuns
    <3> QED BY <2>2, <3>1, <3>2 DEF Recovery!LatestAttempt
  <2> QED BY <2>1, <2>2
<1>6. \A i \in DOMAIN runs : runs[i].attempt \in Nat
  BY <1>1, RunFields DEF ChildRuns
<1>7. /\ recJob'[p].attempt = Recovery!LatestAttempt + 1
      /\ recJob'[p].target = recJob[p].target /\ recJob'[p].child = 0
  BY <1>1 DEF CallsTyped, ReacquisitionSound, Unrecorded
<1>8. \A i \in DOMAIN runs : runs[i].target = recJob[p].target =>
          ~(/\ runs[i].status = "COMPLETED" /\ runs[i].result = "new"
            /\ runs[i].artifact = "verified")
  BY DEF Recovery!PreviousSuccess, Recovery!Successes
<1>9. ReacquisitionSound(p)'
  <2>1. /\ recJob'[p].attempt \in Nat
        /\ \A i \in DOMAIN runs : runs[i].attempt < recJob'[p].attempt
    BY <1>5, <1>6, <1>7
  <2>2. /\ recPc'[p] = "creating" /\ recJob'[p].target \in Targets
        /\ targetLock'[recJob'[p].target] = p
    BY <1>1, <1>7 DEF CallsTyped, ReacquisitionSound
  <2> QED BY <1>7, <1>8, <2>1, <2>2 DEF ReacquisitionSound, Unrecorded, Recorded, Repairing
<1>10. RepairSound(p)'
  BY <1>1 DEF CallsTyped, RepairSound, Repairing
<1> QED BY <1>2, <1>3, <1>4, <1>9, <1>10, CallKeeps

(* The steps of a call that change its own Run.                            *)
RunningStep(p) ==
    \/ Recovery!StartRun(p) \/ Recovery!StoreVersion(p) \/ Recovery!RecordResult(p)
    \/ Recovery!Complete(p) \/ Recovery!Fail(p)

LEMMA RunningKeeps ==
    ASSUME RecoveryInv, NEW p \in Procs, RunningStep(p)
    PROVE  RecoveryInv'
<1>0. PICK i : i = recJob[p].child
  OBVIOUS
<1> DEFINE Then(end) ==
               CASE recPc[p] = "starting"   -> end \in {"RUNNING", "ABORTED"}
                 [] recPc[p] = "completing" -> end \in {"COMPLETED", "ABORTED"}
                 [] recPc[p] = "failing"    -> end \in {"FAILED", "ABORTED"}
                 [] OTHER                -> end = runs[i].status
<1> USE DEF RunningStep, Recovery!StartRun, Recovery!StoreVersion, Recovery!RecordResult,
   Recovery!Complete, Recovery!Fail, Recovery!Transition, Recovery!Step,
            Recovery!End, Recovery!Release, Recovery!NoJob, Recovery!locks, Recovery!faults
<1>1. ReacquisitionSound(p) /\ RepairSound(p) /\ CallsTyped /\ RunsSound /\ PayloadsSound
  BY DEF RecoveryInv
<1>2. /\ recPc[p] \in {"starting", "storing", "recording", "completing", "failing"}
      /\ i \in DOMAIN runs /\ i # 0
  BY <1>0, <1>1 DEF ReacquisitionSound, Recorded
<1>3. CallsTyped'
  BY <1>1 DEF CallsTyped, Recovery!Outcomes
<1>4. /\ RunsSound' /\ DOMAIN runs' = DOMAIN runs
      /\ \A k \in DOMAIN runs :
            /\ runs'[k].target = runs[k].target /\ runs'[k].attempt = runs[k].attempt
            /\ k # i => runs'[k] = runs[k]
      /\ Then(runs'[i].status)
  <2>1. \/ runs' = runs /\ Then(runs[i].status)
        \/ \E r \in ChildRuns :
              /\ r.target = runs[i].target /\ r.attempt = runs[i].attempt
              /\ runs' = [runs EXCEPT ![i] = r] /\ Then(r.status)
    <3>1. runs[i] \in ChildRuns
      BY <1>1, <1>2, RunFields
    <3> DEFINE Updated(r) ==
                 /\ r \in ChildRuns /\ r.target = runs[i].target /\ r.attempt = runs[i].attempt
                 /\ runs' = [runs EXCEPT ![i] = r]
    <3>2. ASSUME NEW text
          PROVE  LET r == runs[i] IN
                 /\ text \in {"RUNNING", "COMPLETED", "FAILED"}
                    /\ runs' = [runs EXCEPT ![i].status = text] =>
                       Updated([r EXCEPT !.status = text])
                           /\ [r EXCEPT !.status = text].status = text
                 /\ text \in Recovery!Outcomes /\ runs' = [runs EXCEPT ![i].result = text] =>
                       /\ Updated([r EXCEPT !.result = text])
                       /\ [r EXCEPT !.result = text].status = r.status
                 /\ text = "verified" /\ runs' = [runs EXCEPT ![i].artifact = text] =>
                       /\ Updated([r EXCEPT !.artifact = text])
                       /\ [r EXCEPT !.artifact = text].status = r.status
      BY <3>1 DEF ChildRuns
    <3>3. runs[i].status \in IF recPc[p] = "starting" THEN {"PREPARED", "ABORTED"}
                             ELSE {"RUNNING", "ABORTED"}
      BY <1>0, <1>1, <1>2 DEF ReacquisitionSound
    <3>4. \/ runs' = runs /\ Then(runs[i].status)
          \/ \E text \in {"RUNNING", "COMPLETED", "FAILED"} :
                runs' = [runs EXCEPT ![i].status = text] /\ Then(text)
          \/ runs' = [runs EXCEPT ![i].result = recJob[p].got] /\ Then(runs[i].status)
          \/ runs' = [runs EXCEPT ![i].artifact = "verified"] /\ Then(runs[i].status)
      BY <1>0, <1>2, <3>3
    <3>5. recJob[p].got \in Recovery!Outcomes
      BY <1>1 DEF CallsTyped
    <3> HIDE DEF Then, Updated, RunningStep
    <3>6. \/ runs' = runs /\ Then(runs[i].status)
          \/ \E r : Updated(r) /\ Then(r.status)
      <4>1. CASE \E text \in {"RUNNING", "COMPLETED", "FAILED"} :
                    runs' = [runs EXCEPT ![i].status = text] /\ Then(text)
        BY <3>2, <4>1, ZenonT(40)
      <4>2. CASE runs' = [runs EXCEPT ![i].result = recJob[p].got] /\ Then(runs[i].status)
        BY <3>2, <3>5, <4>2
      <4>3. CASE runs' = [runs EXCEPT ![i].artifact = "verified"] /\ Then(runs[i].status)
        BY <3>2, <4>3
      <4> QED BY <3>4, <4>1, <4>2, <4>3
    <3> QED BY <3>6 DEF Updated
  <2> HIDE DEF Then
  <2>2. ASSUME runs' = runs, Then(runs[i].status) PROVE RunsSound'
    BY <1>1, <2>2 DEF RunsSound
  <2> QED BY <1>1, <1>2, <2>1, <2>2, RunUpdated
<1>5. CallStep(p)
  <2>1. \A q \in Procs \ {p} : recPc'[q] = recPc[q] /\ recJob'[q] = recJob[q]
    BY <1>1 DEF CallsTyped
  <2>2. \A q \in Procs \ {p}, t \in Targets : targetLock[t] = q => targetLock'[t] = q
    BY <1>1 DEF CallsTyped
  <2>3. \A q \in Procs \ {p}, a \in Recovery!Addresses :
            addressLock[a] = q => addressLock'[a] = q /\ payload'[a] = payload[a]
    BY <1>1 DEF CallsTyped
  <2>4. recJob'[p].child \in {0, recJob[p].child}
    BY <1>1 DEF CallsTyped
  <2>5. recJob'[p].child = 0 => ~OpenRun(i)'
    BY <1>0, <1>1, <1>2, <1>4 DEF CallsTyped, ReacquisitionSound, Recorded, OpenRun
  <2> QED BY <1>0, <1>4, <2>1, <2>2, <2>3, <2>4, <2>5 DEF CallStep
<1>6. PayloadsSound'
  BY <1>1 DEF PayloadsSound
<1>7. ReacquisitionSound(p)'
  BY <1>0, <1>1, <1>2, <1>4 DEF CallsTyped, ReacquisitionSound, Unrecorded, Recorded, Repairing
<1>8. RepairSound(p)'
  BY <1>1 DEF CallsTyped, RepairSound, Repairing
<1> QED BY <1>3, <1>4, <1>5, <1>6, <1>7, <1>8, CallKeeps

LEMMA CreateKeeps ==
    ASSUME RecoveryInv, NEW p \in Procs, Recovery!CreateRun(p)
    PROVE  RecoveryInv'
<1> DEFINE new == [target |-> recJob[p].target, attempt |-> recJob[p].attempt,
        status |-> "PREPARED",
                   result |-> "none", artifact |-> "none"]
           n == Len(runs) + 1
<1> USE DEF Recovery!CreateRun, Recovery!Step, Recovery!locks, Recovery!faults
<1>1. ReacquisitionSound(p) /\ RepairSound(p) /\ CallsTyped /\ RunsSound /\ PayloadsSound
  BY DEF RecoveryInv
<1>2. new \in ChildRuns
  BY <1>1 DEF ReacquisitionSound, ChildRuns
<1>3. runs' = Append(runs, new) /\ runs \in Seq(ChildRuns)
  BY <1>1 DEF RunsSound
<1> HIDE DEF new
<1>4. /\ runs' \in Seq(ChildRuns) /\ DOMAIN runs' = DOMAIN runs \cup {n}
      /\ n \notin DOMAIN runs /\ n # 0 /\ runs'[n] = new
      /\ \A i \in DOMAIN runs : runs'[i] = runs[i]
  BY <1>2, <1>3
<1>5. /\ CallsTyped' /\ recJob'[p].child = n /\ recJob'[p].target = recJob[p].target
      /\ recPc'[p] = "starting"
  BY <1>1 DEF CallsTyped
<1>6. RunsSound'
  <2>1. \A i \in DOMAIN runs' : runs'[i].attempt \in Nat
    <3>1. \A i \in DOMAIN runs' : runs'[i] \in ChildRuns
      BY <1>4
    <3> QED BY <3>1 DEF ChildRuns
  <2>2. PICK i \in DOMAIN runs' : \A j \in DOMAIN runs : runs'[j].attempt <= runs'[i].attempt
    BY <1>1, <1>4 DEF RunsSound
  <2>3. \E k \in DOMAIN runs' : \A j \in DOMAIN runs' : runs'[j].attempt <= runs'[k].attempt
    <3>1. CASE runs'[n].attempt <= runs'[i].attempt
      BY <1>4, <2>2, <3>1
    <3>2. CASE ~(runs'[n].attempt <= runs'[i].attempt)
      <4>1. \A j \in DOMAIN runs : runs'[j].attempt <= runs'[n].attempt
        BY <1>4, <2>1, <2>2, <3>2
      <4>2. \A j \in DOMAIN runs' : runs'[j].attempt <= runs'[n].attempt
        BY <1>4, <2>1, <4>1
      <4> QED BY <1>4, <4>2
    <3> QED BY <3>1, <3>2
  <2> QED BY <1>4, <2>3 DEF RunsSound
<1>7. PayloadsSound' /\ RepairSound(p)'
  BY <1>1, <1>5 DEF PayloadsSound, RepairSound, Repairing
<1>8. \A q \in Procs \ {p} : recPc'[q] = recPc[q] /\ recJob'[q] = recJob[q]
  BY <1>1 DEF CallsTyped
<1>9. \A q \in Procs : recJob[q].child # 0 => recJob[q].child \in DOMAIN runs
  BY DEF RecoveryInv, ReacquisitionSound
<1>10. ChildrenApart'
  BY <1>4, <1>5, <1>8, <1>9 DEF RecoveryInv, ChildrenApart
<1>11. ReacquisitionSound(p)'
  BY <1>1, <1>4, <1>5 DEF ReacquisitionSound, Unrecorded, Recorded, Repairing, new
<1>12. ASSUME NEW q \in Procs \ {p} PROVE ReacquisitionSound(q)' /\ RepairSound(q)'
  <2>1. ReacquisitionSound(q) /\ RepairSound(q) /\ recPc'[q] = recPc[q] /\ recJob'[q] = recJob[q]
    BY <1>8 DEF RecoveryInv
  <2>2. RepairSound(q)'
    BY <2>1 DEF RepairSound
  <2>3. recPc[q] = "creating" => runs'[n].target # recJob[q].target
    BY <1>1, <1>4, <2>1 DEF ReacquisitionSound, new
  <2> QED BY <1>4, <2>1, <2>2, <2>3, SMTT(30) DEF ReacquisitionSound
<1>13. Recovery!SettledByItsCall'
  <2>1. \A i \in DOMAIN runs : runs[i].status \in {"PREPARED", "RUNNING"} =>
            i \in abandoned \/ \E q \in Procs \ {p} : recJob[q].child = i
    BY <1>1, <1>4 DEF RecoveryInv, Recovery!SettledByItsCall, ReacquisitionSound, Unrecorded
  <2> QED BY <1>4, <1>5, <1>8, <2>1 DEF Recovery!SettledByItsCall
<1> QED BY <1>5, <1>6, <1>7, <1>10, <1>11, <1>12, <1>13 DEF RecoveryInv

(* A repair puts the bytes back, at the address whose lock it holds.       *)
LEMMA RestoringKeeps ==
    ASSUME RecoveryInv, None \notin Procs, NEW p \in Procs, Recovery!Replace(p)
           \/ Recovery!LinkMissing(p)
    PROVE  RecoveryInv'
<1> USE DEF Recovery!Replace, Recovery!LinkMissing, Recovery!Installed, Recovery!NotInstalled,
   Recovery!Outside, Recovery!At, Recovery!Step, Recovery!NoJob, Recovery!faults
<1>1. ReacquisitionSound(p) /\ RepairSound(p) /\ CallsTyped /\ RunsSound /\ PayloadsSound
  BY DEF RecoveryInv
<1>2. addressLock[Address[recJob[p].target]] = p /\ Address[recJob[p].target] \in Recovery!Addresses
  BY <1>1 DEF ReacquisitionSound, RepairSound, Repairing, Recovery!Addresses
<1>3. CallsTyped'
  BY <1>1 DEF CallsTyped, Recovery!Outcomes
<1>4. CallStep(p)
  <2>1. \A q \in Procs \ {p} : recPc'[q] = recPc[q] /\ recJob'[q] = recJob[q]
    BY <1>1 DEF CallsTyped
  <2>2. \A q \in Procs \ {p}, a \in Recovery!Addresses :
            addressLock[a] = q => addressLock'[a] = q /\ payload'[a] = payload[a]
    BY <1>1, <1>2 DEF CallsTyped, PayloadsSound
  <2>3. recJob'[p].child = recJob[p].child
    BY <1>1 DEF CallsTyped
  <2>4. /\ targetLock' = targetLock /\ quarantine' = quarantine /\ abandoned' = abandoned
        /\ runs' = runs /\ 0 \notin DOMAIN runs
    BY <1>1 DEF RunsSound
  <2> QED BY <2>1, <2>2, <2>3, <2>4 DEF CallStep
<1>5. PayloadsSound'
  BY <1>1, <1>2 DEF PayloadsSound
<1>6. RunsSound'
  BY <1>1 DEF RunsSound
<1>7. ReacquisitionSound(p)'
  BY <1>1 DEF CallsTyped, ReacquisitionSound, Unrecorded, Recorded, Repairing
<1>8. RepairSound(p)'
  BY <1>1 DEF CallsTyped, RepairSound, Repairing
<1> QED BY <1>3, <1>4, <1>5, <1>6, <1>7, <1>8, CallKeeps

(* Whatever becomes of the bytes and the Runs meanwhile: a corrupt payload *)
(* stays as it is, and a Run's end is an abort.                            *)
EnvironmentStep ==
    \/ \E a \in Recovery!Addresses :
          \/ Recovery!OrdinaryWrite(a)
          \/ Recovery!Damage(a, Recovery!Missing)
               \/ Recovery!Damage(a, Recovery!State("unreadable", 0))
          \/ Recovery!Damage(a, Recovery!State("corrupt", damage + 1))
    \/ \E i \in DOMAIN runs : Recovery!DamageVersion(i) \/ Recovery!AbortRun(i)

LEMMA EnvironmentKeeps == ASSUME RecoveryInv, EnvironmentStep PROVE RecoveryInv'
<1>1. /\ recPc' = recPc /\ recJob' = recJob /\ targetLock' = targetLock
      /\ addressLock' = addressLock
      /\ quarantine' = quarantine /\ abandoned' = abandoned
  BY DEF EnvironmentStep, Recovery!OrdinaryWrite, Recovery!Damage, Recovery!DamageVersion,
     Recovery!AbortRun, Recovery!locks, Recovery!faults
<1>2. /\ PayloadsSound'
      /\ \A a \in Recovery!Addresses : payload[a].is = "corrupt" => payload'[a] = payload[a]
  BY DEF RecoveryInv, PayloadsSound, EnvironmentStep, Recovery!OrdinaryWrite, Recovery!Damage,
     Recovery!DamageVersion, Recovery!AbortRun,
         Recovery!Verified, Recovery!Missing, Recovery!State
<1>3. /\ RunsSound' /\ DOMAIN runs' = DOMAIN runs
      /\ \A i \in DOMAIN runs :
            /\ runs'[i].target = runs[i].target /\ runs'[i].attempt = runs[i].attempt
            /\ runs'[i].status \in {runs[i].status, "ABORTED"}
            /\ runs'[i].result = runs[i].result
            /\ runs'[i].artifact \in {runs[i].artifact, "missing"}
  <2>1. CASE runs' = runs
    BY <2>1 DEF RecoveryInv, RunsSound
  <2>2. ASSUME NEW i \in DOMAIN runs, Recovery!DamageVersion(i) \/ Recovery!AbortRun(i)
        PROVE  \E r \in ChildRuns :
                  /\ runs' = [runs EXCEPT ![i] = r]
                  /\ r.target = runs[i].target /\ r.attempt = runs[i].attempt
                  /\ r.status \in {runs[i].status, "ABORTED"} /\ r.result = runs[i].result
                  /\ r.artifact \in {runs[i].artifact, "missing"}
    <3>1. runs[i] \in ChildRuns
      BY RunFields DEF RecoveryInv
    <3>2. CASE Recovery!DamageVersion(i)
      <4> DEFINE r == [runs[i] EXCEPT !.artifact = "missing"]
      <4>1. r \in ChildRuns /\ r.target = runs[i].target /\ r.attempt = runs[i].attempt
            /\ r.status = runs[i].status /\ r.result = runs[i].result /\ r.artifact = "missing"
        BY <3>1 DEF ChildRuns
      <4>2. runs' = [runs EXCEPT ![i] = r]
        BY <3>2 DEF Recovery!DamageVersion
      <4> QED BY <4>1, <4>2
    <3>3. CASE Recovery!AbortRun(i)
      <4> DEFINE r == [runs[i] EXCEPT !.status = "ABORTED"]
      <4>1. r \in ChildRuns /\ r.target = runs[i].target /\ r.attempt = runs[i].attempt
            /\ r.status = "ABORTED" /\ r.result = runs[i].result /\ r.artifact = runs[i].artifact
        BY <3>1 DEF ChildRuns
      <4>2. runs' = [runs EXCEPT ![i] = r]
        BY <3>3 DEF Recovery!AbortRun
      <4> QED BY <4>1, <4>2
    <3> QED BY <2>2, <3>2, <3>3
  <2>3. ASSUME NEW i \in DOMAIN runs, Recovery!DamageVersion(i) \/ Recovery!AbortRun(i)
        PROVE  /\ RunsSound' /\ DOMAIN runs' = DOMAIN runs
               /\ \A k \in DOMAIN runs :
                     /\ runs'[k].target = runs[k].target /\ runs'[k].attempt = runs[k].attempt
                     /\ runs'[k].status \in {runs[k].status, "ABORTED"}
                     /\ runs'[k].result = runs[k].result
                     /\ runs'[k].artifact \in {runs[k].artifact, "missing"}
    BY <2>2, <2>3, RunUpdated DEF RecoveryInv
  <2> QED BY <2>1, <2>3 DEF EnvironmentStep, Recovery!OrdinaryWrite, Recovery!Damage
<1>4. CallsTyped' /\ ChildrenApart'
  BY <1>1 DEF RecoveryInv, CallsTyped, ChildrenApart
<1>5. ASSUME NEW p \in Procs PROVE ReacquisitionSound(p)' /\ RepairSound(p)'
  <2>1. ReacquisitionSound(p) /\ RepairSound(p)
    BY DEF RecoveryInv
  <2>2. ReacquisitionSound(p)'
    BY <1>1, <1>3, <2>1 DEF ReacquisitionSound
  <2>3. RepairSound(p)'
    BY <1>1, <1>2, <2>1 DEF RepairSound, ReacquisitionSound, Repairing, Recovery!Addresses
  <2> QED BY <2>2, <2>3
<1>6. Recovery!SettledByItsCall'
  BY <1>1, <1>3 DEF RecoveryInv, Recovery!SettledByItsCall
<1> QED BY <1>2, <1>3, <1>4, <1>5, <1>6 DEF RecoveryInv

LEMMA RecoveryInit == ASSUME None \notin Procs, Recovery!Init PROVE RecoveryInv
<1>1. CallsTyped /\ PayloadsSound /\ RunsSound
  BY DEF Recovery!Init, CallsTyped, PayloadsSound, RunsSound, Recovery!NoJob,
     Recovery!Outcomes, Recovery!Verified, Recovery!Missing, Recovery!State
<1>2. \A p \in Procs : recPc[p] = "idle" /\ recJob[p].child = 0
  BY DEF Recovery!Init, Recovery!NoJob
<1>3. Recovery!SettledByItsCall
  BY DEF Recovery!Init, Recovery!SettledByItsCall
<1> QED BY <1>1, <1>2, <1>3 DEF RecoveryInv, ReacquisitionSound, RepairSound, ChildrenApart,
                               Unrecorded, Recorded, Repairing

LEMMA RecoveryStep == ASSUME None \notin Procs, RecoveryInv, Recovery!Next PROVE RecoveryInv'
<1>1. ASSUME NEW p \in Procs,
             \/ Recovery!Call(p) \/ Recovery!Crash(p)
             \/ \E t \in Targets : Recovery!Reacquire(p, t) \/ Recovery!BringFile(p, t)
      PROVE  RecoveryInv'
  <2>1. \/ LookingStep(p) \/ Recovery!Decide(p) \/ Recovery!CreateRun(p) \/ RunningStep(p)
        \/ Recovery!Replace(p) \/ Recovery!LinkMissing(p)
    BY <1>1 DEF Recovery!Call, LookingStep, TakingStep, FetchingStep,
         CheckingStep, RunningStep
  <2> QED BY <2>1, LookingKeeps, DecideKeeps, CreateKeeps, RunningKeeps, RestoringKeeps
<1> QED BY <1>1, EnvironmentKeeps DEF Recovery!Next, EnvironmentStep

(* A child is made where no version for its target verifies, and a corrupt *)
(* payload is replaced when it is kept.                                    *)
LEMMA RecoveryDoes ==
    ASSUME RecoveryInv, Recovery!Next
    PROVE  Recovery!RunIsNeeded /\ Recovery!LossIsQuarantined
<1>1. RunsSound /\ \A p \in Procs : ReacquisitionSound(p) /\ RepairSound(p)
  BY DEF RecoveryInv
<1>2. ASSUME NEW p \in Procs, Recovery!CreateRun(p) PROVE Recovery!RunIsNeeded /\ payload' = payload
  <2>1. DOMAIN runs' = DOMAIN runs \cup {Len(runs) + 1}
        /\ runs'[Len(runs) + 1].target = recJob[p].target
             /\ runs'[Len(runs) + 1].attempt = recJob[p].attempt
    BY <1>1, <1>2 DEF RunsSound, Recovery!CreateRun
  <2> QED BY <1>1, <1>2, <2>1 DEF Recovery!RunIsNeeded, Recovery!Successes,
     ReacquisitionSound, Recovery!CreateRun, Recovery!Step
<1>3. ASSUME NEW p \in Procs, Recovery!Replace(p)
      PROVE  Recovery!LossIsQuarantined /\ DOMAIN runs' = DOMAIN runs
  BY <1>1, <1>3 DEF Recovery!Replace, Recovery!LossIsQuarantined, RepairSound, PayloadsSound,
     RecoveryInv, Recovery!At
<1>4. CASE \A p \in Procs : ~Recovery!CreateRun(p) /\ ~Recovery!Replace(p)
  <2>1. /\ DOMAIN runs' = DOMAIN runs
        /\ \A a \in Recovery!Addresses : payload[a].is = "corrupt" => payload'[a] = payload[a]
    <3>1. \A a \in Recovery!Addresses :
              payload[a].is = "corrupt" => payload[a] \notin {Recovery!Verified, Recovery!Missing}
      BY DEF Recovery!Verified, Recovery!Missing, Recovery!State
    <3>2. CASE EnvironmentStep
      BY <1>1, <3>1, <3>2
         DEF EnvironmentStep, Recovery!OrdinaryWrite, Recovery!Damage, Recovery!DamageVersion,
            Recovery!AbortRun, RecoveryInv, PayloadsSound
    <3>3. ASSUME NEW p \in Procs, LookingStep(p) \/ Recovery!Decide(p) \/ RunningStep(p)
          PROVE  DOMAIN runs' = DOMAIN runs /\ payload' = payload
      BY <3>3 DEF LookingStep, TakingStep, FetchingStep, CheckingStep,
         RunningStep, Recovery!Reacquire, Recovery!BringFile,
         Recovery!LockTarget, Recovery!Reuse, Recovery!Decide,
                  Recovery!RetrieveOriginal, Recovery!RegenerateRendition, Recovery!Retrieved,
                  Recovery!LockAddress, Recovery!Inspect, Recovery!Preserve,
                  Recovery!Crash, Recovery!StartRun, Recovery!StoreVersion, Recovery!RecordResult,
                  Recovery!Complete, Recovery!Fail, Recovery!Transition
    <3>4. ASSUME NEW p \in Procs, Recovery!LinkMissing(p)
          PROVE  /\ DOMAIN runs' = DOMAIN runs
                 /\ \A a \in Recovery!Addresses : payload[a].is = "corrupt"
                      => payload'[a] = payload[a]
      BY <3>1, <3>4 DEF Recovery!LinkMissing, RecoveryInv, PayloadsSound
    <3> QED BY <1>4, <3>2, <3>3, <3>4 DEF Recovery!Next, Recovery!Call, EnvironmentStep,
       LookingStep, TakingStep, FetchingStep, CheckingStep, RunningStep
  <2> QED BY <2>1 DEF Recovery!RunIsNeeded, Recovery!LossIsQuarantined, RecoveryInv,
     PayloadsSound
<1>5. ASSUME DOMAIN runs' = DOMAIN runs PROVE Recovery!RunIsNeeded
  BY <1>5 DEF Recovery!RunIsNeeded
<1>6. ASSUME payload' = payload PROVE Recovery!LossIsQuarantined
  BY <1>6 DEF Recovery!LossIsQuarantined
<1> QED BY <1>2, <1>3, <1>4, <1>5, <1>6

-----------------------------------------------------------------------------
(* Continuation                                                             *)

AttemptRuns ==
    [group : Requests, status : {"RUNNING", "COMPLETED", "ABORTED"}, parent : Nat,
     correlated : BOOLEAN, mirror : BOOLEAN, captured : BOOLEAN, stale : BOOLEAN,
     closed : BOOLEAN]

(* Nothing comes of it any more.                                           *)
Spent(i) == ~Cont!Open(i) /\ (Cardinality(attempts[i].group) = 1 => ~Cont!Reusable(i))

(* Of the attempts of a request only the latest may be of use; the one     *)
(* that is bound is among them, and none after it has the material.        *)
AttemptsSound ==
    /\ attempts \in Seq(AttemptRuns)
    /\ \A i \in DOMAIN attempts : attempts[i].parent < i
    /\ \A g \in Requests : \A i, j \in Cont!Of(g) : i < j => Spent(i)
    /\ \A r \in Reacquired :
          /\ binding[r] # 0 => binding[r] \in Cont!Of({r})
          /\ \A i \in Cont!Of({r}) : attempts[i].captured => attempts[i].mirror /\ i <= binding[r]

Working == {"inspecting", "aborting", "correlating", "abandoning", "preparing", "prepared",
            "binding", "mirroring", "capturing", "collecting"}

(* The locks are taken in order and all of them are held from then on.     *)
LocksSound(p) ==
    LET g == contJob[p].group IN
    /\ contPc[p] \in Working \cup {"idle", "locking"}
    /\ contPc[p] # "idle" => g \in Requests
    /\ contPc[p] \in Working => \A r \in g : held[r] = p
    /\ contPc[p] = "locking" =>
              /\ \E r \in g : held[r] # p
              /\ \A r, s \in g : held[r] = p /\ held[s] # p => r < s
    /\ \A r \in Reacquired : held[r] = p => contPc[p] # "idle" /\ r \in g

(* What a call knows, at each of its steps, of what came before.           *)
ContinuationSound(p) ==
    LET j == contJob[p] IN
    /\ contPc[p] # "idle" => j.prior \in 0..Len(attempts)
    /\ contPc[p] \in {"aborting", "correlating", "binding", "mirroring"} => Cardinality(j.group) = 1
    /\ contPc[p] = "aborting" => j.prior = Cont!Bound(p) /\ j.prior # 0 /\ Cont!Interrupted(p)
    /\ contPc[p] = "correlating" /\ Cont!Bound(p) # 0 => Spent(Cont!Bound(p))
    /\ contPc[p] = "abandoning" =>
              /\ j.prior \in Cont!Of(j.group) /\ \A i \in Cont!Of(j.group) : i <= j.prior
              /\ Cont!Single(p) => ~attempts[j.prior].captured
    /\ contPc[p] \in {"preparing", "prepared"} => \A i \in Cont!Of(j.group) : Spent(i)
    /\ contPc[p] = "prepared" =>
              /\ j.child \in DOMAIN attempts /\ \A i \in Cont!Of(j.group) : i < j.child
              /\ attempts[j.child].group = j.group /\ ~attempts[j.child].correlated
              /\ ~attempts[j.child].captured
    /\ contPc[p] \in {"binding", "mirroring", "capturing", "collecting"} =>
              j.child \in Cont!Of(j.group) /\ \A i \in Cont!Of(j.group) : i <= j.child
    /\ contPc[p] \in {"mirroring", "capturing", "collecting"} /\ Cont!Single(p)
         => Cont!Bound(p) = j.child
    /\ contPc[p] \in {"capturing", "collecting"} /\ Cont!Single(p) => attempts[j.child].mirror

ContinuationInv ==
    /\ DOMAIN contPc = Procs /\ DOMAIN contJob = Procs /\ DOMAIN held = Reacquired
    /\ DOMAIN binding = Reacquired
    /\ \A p \in Procs : DOMAIN contJob[p] = {"group", "prior", "child"}
    /\ AttemptsSound
    /\ \A p \in Procs : LocksSound(p) /\ ContinuationSound(p)

LEMMA OneMember ==
    ASSUME NEW g \in Requests, Cardinality(g) = 1
    PROVE  \E r \in Reacquired : g = {r} /\ (CHOOSE x \in g : TRUE) = r
<1>1. PICK r : g = {r}
  BY RequestAssumption, FS_Singleton
<1>2. r \in Reacquired /\ (CHOOSE x \in {r} : TRUE) = r
  BY <1>1, RequestAssumption
<1> QED BY <1>1, <1>2

LEMMA AttemptFields ==
    ASSUME AttemptsSound, NEW i \in DOMAIN attempts
    PROVE  attempts[i] \in AttemptRuns
BY DEF AttemptsSound

(* What somebody else's step leaves of an attempt.                         *)
Kept(i) ==
    LET a == attempts[i]  b == attempts'[i] IN
    /\ b.group = a.group /\ b.parent = a.parent /\ b.correlated = a.correlated
    /\ b.mirror = a.mirror /\ b.captured = a.captured
    /\ ~Cont!Open(i) => b.status = a.status /\ b.closed = a.closed

LEMMA SpentStays == ASSUME NEW i, Kept(i), Spent(i) PROVE Spent(i)'
BY DEF Kept, Spent, Cont!Open, Cont!Reusable, Cont!Completed

LEMMA UpdatedAttempt ==
    ASSUME AttemptsSound, NEW i \in DOMAIN attempts, NEW a \in AttemptRuns,
           attempts' = [attempts EXCEPT ![i] = a]
    PROVE  /\ attempts' \in Seq(AttemptRuns) /\ DOMAIN attempts' = DOMAIN attempts
           /\ Len(attempts') = Len(attempts) /\ attempts'[i] = a
           /\ \A k \in DOMAIN attempts \ {i} : attempts'[k] = attempts[k] /\ Kept(k)
BY DEF AttemptsSound, Kept

(* An attempt ends.                                                        *)
LEMMA EndedAttempt ==
    ASSUME AttemptsSound, NEW i \in DOMAIN attempts,
           attempts' = Cont!Aborted(i) \/ (Cont!Open(i) /\ attempts' = Cont!Collected(i))
    PROVE  /\ attempts' \in Seq(AttemptRuns) /\ DOMAIN attempts' = DOMAIN attempts
           /\ Len(attempts') = Len(attempts) /\ \A k \in DOMAIN attempts : Kept(k)
           /\ ~Cont!Open(i)'
<1>1. attempts[i] \in AttemptRuns
  BY AttemptFields
<1>2. CASE attempts' = Cont!Aborted(i)
  <2> DEFINE a == [attempts[i] EXCEPT !.status = IF Cont!Open(i) THEN "ABORTED" ELSE @]
  <2>1. a \in AttemptRuns /\ attempts' = [attempts EXCEPT ![i] = a]
    BY <1>1, <1>2 DEF AttemptRuns, Cont!Aborted
  <2>2. attempts'[i] = a /\ a.status # "RUNNING"
    BY <1>1, <2>1, UpdatedAttempt DEF AttemptRuns, Cont!Open
  <2> QED BY <1>1, <2>1, <2>2, UpdatedAttempt DEF Kept, Cont!Open, AttemptRuns
<1>3. CASE Cont!Open(i) /\ attempts' = Cont!Collected(i)
  <2> DEFINE a == [attempts[i] EXCEPT !.status = "COMPLETED", !.closed = ~attempts[i].stale]
  <2>1. a \in AttemptRuns /\ attempts' = [attempts EXCEPT ![i] = a]
    BY <1>1, <1>3 DEF AttemptRuns, Cont!Collected
  <2>2. /\ a.group = attempts[i].group /\ a.parent = attempts[i].parent
        /\ a.correlated = attempts[i].correlated /\ a.mirror = attempts[i].mirror
        /\ a.captured = attempts[i].captured /\ a.status = "COMPLETED"
    BY <1>1 DEF AttemptRuns
  <2> HIDE DEF a
  <2>3. attempts'[i] = a
    BY <2>1, UpdatedAttempt
  <2>4. Kept(i) /\ ~Cont!Open(i)'
    BY <1>3, <2>2, <2>3 DEF Kept, Cont!Open
  <2> QED BY <2>1, <2>4, UpdatedAttempt
<1> QED BY <1>2, <1>3

(* Steps that end attempts and make none leave the line as it is.          *)
LEMMA KeptIsSound ==
    ASSUME AttemptsSound, attempts' \in Seq(AttemptRuns), DOMAIN attempts' = DOMAIN attempts,
           binding' = binding, \A i \in DOMAIN attempts : Kept(i)
    PROVE  AttemptsSound' /\ \A g : Cont!Of(g)' = Cont!Of(g)
<1>1. \A g : Cont!Of(g)' = Cont!Of(g)
  BY DEF Cont!Of, Kept
<1>2. \A i \in DOMAIN attempts : Spent(i) => Spent(i)'
  BY SpentStays
<1>3. \A i \in DOMAIN attempts : attempts'[i].parent = attempts[i].parent
         /\ attempts'[i].captured = attempts[i].captured /\ attempts'[i].mirror = attempts[i].mirror
  BY DEF Kept
<1>4. \A g : Cont!Of(g) \subseteq DOMAIN attempts
  BY DEF Cont!Of
<1>5. \A g \in Requests : \A i, j \in Cont!Of(g)' : i < j => Spent(i)'
  BY <1>1, <1>2, <1>4 DEF AttemptsSound
<1> QED BY <1>1, <1>3, <1>4, <1>5 DEF AttemptsSound

LEMMA HoldersApart ==
    ASSUME \A p \in Procs : LocksSound(p), NEW p \in Procs, NEW q \in Procs \ {p},
           contPc[p] \in Working, contPc[q] \in Working
    PROVE  contJob[p].group \cap contJob[q].group = {} /\ contJob[p].group # contJob[q].group
BY RequestAssumption DEF LocksSound, Working

(* What a call knows survives a step that keeps the attempts of its        *)
(* request and its binding.                                                *)
LEMMA KnowledgeStays ==
    ASSUME ContinuationInv, NEW q \in Procs, contPc'[q] = contPc[q], contJob'[q] = contJob[q],
           DOMAIN attempts \subseteq DOMAIN attempts', Len(attempts) <= Len(attempts'),
           Len(attempts') \in Nat,
           \A i \in DOMAIN attempts : attempts'[i].group = attempts[i].group,
           \A i \in DOMAIN attempts' \ DOMAIN attempts : ~attempts'[i].correlated,
           contPc[q] \in Working =>
                   /\ \A i \in DOMAIN attempts : attempts[i].group = contJob[q].group => Kept(i)
                   /\ \A r \in contJob[q].group : binding'[r] = binding[r]
    PROVE  ContinuationSound(q)'
<1>1. ContinuationSound(q) /\ LocksSound(q) /\ AttemptsSound
  BY DEF ContinuationInv
<1>2. CASE contPc[q] \notin Working
  BY <1>1, <1>2 DEF ContinuationSound, LocksSound, AttemptsSound, Working
<1>3. CASE contPc[q] \in Working
  <2> DEFINE g == contJob[q].group
  <2>1. Cont!Of(g)' = Cont!Of(g) /\ Cont!Of(g) \subseteq DOMAIN attempts
    BY <1>3 DEF Cont!Of, Kept
  <2>2. \A i \in Cont!Of(g) : /\ Spent(i) => Spent(i)'
                              /\ attempts'[i].captured = attempts[i].captured
                              /\ attempts'[i].mirror = attempts[i].mirror
    BY <1>3, SpentStays DEF Cont!Of, Kept
  <2>3. g \in Requests /\ contJob'[q].group = g
    BY <1>1, <1>3 DEF LocksSound, Working
  <2>4. Cont!Single(q)
        => Cont!Bound(q)' = Cont!Bound(q) /\ (Cont!Bound(q) # 0 => Cont!Bound(q) \in Cont!Of(g))
    <3>1. SUFFICES ASSUME Cont!Single(q)
                   PROVE  /\ Cont!Bound(q)' = Cont!Bound(q)
                          /\ (Cont!Bound(q) # 0 => Cont!Bound(q) \in Cont!Of(g))
      OBVIOUS
    <3>2. PICK r \in Reacquired : g = {r} /\ (CHOOSE x \in g : TRUE) = r
      BY SameCount, <2>3, <3>1, OneMember DEF Cont!Single
    <3>3. Cont!Bound(q) = binding[r] /\ Cont!Bound(q)' = binding'[r]
      BY <3>2 DEF Cont!Bound
    <3> QED BY <1>1, <1>3, <3>2, <3>3 DEF AttemptsSound
  <2>5. contPc[q] = "prepared" =>
              /\ contJob[q].child \in DOMAIN attempts' /\ attempts'[contJob[q].child].group = g
              /\ ~attempts'[contJob[q].child].correlated /\ ~attempts'[contJob[q].child].captured
    BY <1>1, <1>3 DEF ContinuationSound, Kept
  <2>6. contPc[q] = "correlating" /\ Cont!Bound(q) # 0 => Spent(Cont!Bound(q))'
    BY SameCount, <1>1, <2>2, <2>4 DEF ContinuationSound, Cont!Single, Spent, Cont!Open,
       Cont!Reusable,
       Cont!Completed
  <2>7. contPc[q] = "aborting" => Cont!Interrupted(q)'
    BY SameCount, <1>1, <2>2, <2>4 DEF ContinuationSound, Cont!Single, Cont!Interrupted
  <2> QED BY SameCount, <1>1, <2>1, <2>2, <2>3, <2>4, <2>5, <2>6, <2>7 DEF ContinuationSound,
     Cont!Single, AttemptsSound
<1> QED BY <1>2, <1>3

ShapesSound ==
    /\ DOMAIN contPc = Procs /\ DOMAIN contJob = Procs /\ DOMAIN held = Reacquired
    /\ DOMAIN binding = Reacquired
    /\ \A p \in Procs : DOMAIN contJob[p] = {"group", "prior", "child"}

(* What a step of one call leaves to the others.                           *)
RequestStep(p) ==
    /\ \A q \in Procs \ {p} :
          /\ contPc'[q] = contPc[q] /\ contJob'[q] = contJob[q]
          /\ \A r \in Reacquired : held'[r] = q <=> held[r] = q
    /\ DOMAIN attempts \subseteq DOMAIN attempts' /\ Len(attempts) <= Len(attempts')
    /\ Len(attempts') \in Nat
    /\ \A i \in DOMAIN attempts :
          /\ attempts'[i].group = attempts[i].group
          /\ Kept(i) \/ (contPc[p] \in Working /\ attempts[i].group = contJob[p].group)
    /\ \A i \in DOMAIN attempts' \ DOMAIN attempts : ~attempts'[i].correlated
    /\ \A r \in Reacquired : binding'[r] = binding[r]
         \/ (contPc[p] \in Working /\ r \in contJob[p].group)

LEMMA RequestKeeps ==
    ASSUME ContinuationInv, NEW p \in Procs, RequestStep(p), ShapesSound', AttemptsSound',
           LocksSound(p)', ContinuationSound(p)'
    PROVE  ContinuationInv'
<1>1. ASSUME NEW q \in Procs \ {p} PROVE LocksSound(q)' /\ ContinuationSound(q)'
  <2>1. LocksSound(q) /\ \A x \in Procs : LocksSound(x)
    BY DEF ContinuationInv
  <2>2. /\ contPc'[q] = contPc[q] /\ contJob'[q] = contJob[q]
        /\ \A r \in Reacquired : held'[r] = q <=> held[r] = q
    BY DEF RequestStep
  <2>3. contPc[q] # "idle" => contJob[q].group \subseteq Reacquired
    BY <2>1, RequestAssumption DEF LocksSound
  <2>4. LocksSound(q)'
    BY <2>1, <2>2, <2>3 DEF LocksSound, Working
  <2>5. contPc[q] \in Working =>
                /\ \A i \in DOMAIN attempts : attempts[i].group = contJob[q].group => Kept(i)
                /\ \A r \in contJob[q].group : binding'[r] = binding[r]
    BY <2>1, <2>3, HoldersApart DEF RequestStep, Working
  <2>6. ContinuationSound(q)'
    BY <2>2, <2>5, KnowledgeStays DEF RequestStep
  <2> QED BY <2>4, <2>6
<1> QED BY <1>1 DEF ContinuationInv, ShapesSound

LEMMA NewestAttempt ==
    ASSUME NEW n \in Nat, NEW T \in SUBSET (1..n), T # {}
    PROVE  \E i \in T : \A k \in T : k <= i
<1> DEFINE R == OpToRel(<, Nat)
           U == {n - i : i \in T}
<1>1. U \in SUBSET Nat /\ U # {}
  <2>1. \A i \in T : n - i \in Nat
    OBVIOUS
  <2>2. PICK i \in T : TRUE
    OBVIOUS
  <2>3. n - i \in U
    BY <2>2
  <2> QED BY <2>1, <2>3
<1>2. PICK u \in U : \A w \in U : ~ (<<w, u>> \in R)
  <2> HIDE DEF R, U
  <2> QED BY <1>1, NatLessThanWellFounded, WFMin DEF R
<1>3. PICK i \in T : u = n - i
  BY <1>2
<1>4. ASSUME NEW k \in T PROVE k <= i
  <2>1. n - k \in U /\ n - k \in Nat /\ u \in Nat
    BY <1>1
  <2>2. ~(n - k < u)
    BY <1>2, <2>1 DEF OpToRel
  <2> QED BY <1>3, <2>2
<1> QED BY <1>4

LEMMA LatestIs ==
    ASSUME ContinuationInv, NEW p \in Procs
    PROVE  /\ Cont!Correlated(p) = {} => Cont!Latest(p) = 0
           /\ Cont!Correlated(p) # {} => /\ Cont!Latest(p) \in Cont!Correlated(p) /\ Cont!Latest(p) # 0
                                         /\ \A i \in Cont!Correlated(p) : i <= Cont!Latest(p)
<1>1. Cont!Correlated(p) \subseteq 1..Len(attempts) /\ Len(attempts) \in Nat
  BY DEF ContinuationInv, AttemptsSound, Cont!Correlated
<1>2. CASE Cont!Correlated(p) # {}
  <2>1. \E i \in Cont!Correlated(p) : \A j \in Cont!Correlated(p) : j <= i
    BY <1>1, <1>2, NewestAttempt
  <2>2. Cont!Latest(p) = CHOOSE i \in Cont!Correlated(p) : \A j \in Cont!Correlated(p) : j <= i
    BY <1>2 DEF Cont!Latest
  <2> QED BY <1>1, <1>2, <2>1, <2>2
<1>3. CASE Cont!Correlated(p) = {}
  BY <1>3 DEF Cont!Latest
<1> QED BY <1>2, <1>3

(* The steps that leave the attempts as they are.                          *)
LockingStep(p) ==
    \/ Cont!TakeLock(p) \/ Cont!Crash(p)
    \/ \E group \in Requests : Cont!Request(p, group)
InspectingStep(p) ==
    \/ Cont!InspectBound(p) \/ Cont!NothingBound(p)
    \/ Cont!InspectCorrelated(p) \/ Cont!InspectGroup(p)

LEMMA LockingKeeps ==
    ASSUME ContinuationInv, NEW p \in Procs, LockingStep(p)
    PROVE  ContinuationInv'
<1> USE DEF LockingStep, Cont!TakeLock, Cont!Crash, Cont!Request, Cont!End, Cont!At, Cont!GoTo,
   Cont!NoJob, Cont!bounds
<1>1. LocksSound(p) /\ ContinuationSound(p) /\ AttemptsSound /\ ShapesSound
  BY DEF ContinuationInv, ShapesSound
<1>2. attempts' = attempts /\ binding' = binding
  OBVIOUS
<1>3. ShapesSound'
  BY <1>1 DEF ShapesSound
<1>4. RequestStep(p)
  <2>1. \A i : Kept(i)
    BY <1>2 DEF Kept
  <2>2. \A q \in Procs \ {p} : contPc'[q] = contPc[q] /\ contJob'[q] = contJob[q]
    BY <1>1 DEF ShapesSound
  <2>3. \A q \in Procs \ {p}, r \in Reacquired : held'[r] = q <=> held[r] = q
    BY <1>1, RequestAssumption DEF ShapesSound
  <2>4. Len(attempts) \in Nat
    BY <1>1 DEF AttemptsSound
  <2> HIDE DEF LockingStep
  <2> QED BY <1>2, <2>1, <2>2, <2>3, <2>4 DEF RequestStep
<1>5. AttemptsSound'
  <2> HIDE DEF LockingStep
  <2> QED BY <1>1, <1>2 DEF AttemptsSound, Cont!Of, Spent, Cont!Open, Cont!Reusable,
     Cont!Completed
<1>6. LocksSound(p)'
  <2>1. CASE contPc'[p] = "idle"
    BY <1>1, <2>1, RequestAssumption DEF LocksSound, ShapesSound, Cont!Missing, Cont!NextLock
  <2>2. ASSUME NEW group \in Requests, Cont!Request(p, group) PROVE LocksSound(p)'
    <3>1. contPc[p] = "idle" /\ contPc'[p] = "locking" /\ contJob'[p].group = group /\ held' = held
      BY <1>1, <2>2 DEF ShapesSound
    <3>2. \A r \in Reacquired : held[r] # p
      BY <1>1, <3>1 DEF LocksSound
    <3>3. group \subseteq Reacquired /\ group # {}
      BY RequestAssumption
    <3> HIDE DEF LockingStep, Cont!Request
    <3> QED BY <2>2, <3>1, <3>2, <3>3 DEF LocksSound, Working
  <2>3. CASE Cont!TakeLock(p)
    BY <1>1, <2>3, RequestAssumption DEF LocksSound, ShapesSound, Cont!Missing, Cont!NextLock,
       Working
  <2> QED BY <2>1, <2>2, <2>3, <1>1 DEF ShapesSound
<1>7. ContinuationSound(p)'
  BY <1>1, <1>2 DEF ContinuationSound, ShapesSound, AttemptsSound
<1> QED BY <1>3, <1>4, <1>5, <1>6, <1>7, RequestKeeps

(* A call that goes on keeps its request and its locks.                    *)
GoesOn(p, label) ==
    /\ contPc' = [contPc EXCEPT ![p] = label] /\ held' = held
    /\ DOMAIN contJob' = Procs /\ DOMAIN contJob'[p] = {"group", "prior", "child"}
    /\ contJob'[p].group = contJob[p].group
    /\ \A q \in Procs \ {p} : contJob'[q] = contJob[q]

Others(p) ==
    \A q \in Procs \ {p} :
        /\ contPc'[q] = contPc[q] /\ contJob'[q] = contJob[q]
        /\ \A r \in Reacquired : held'[r] = q <=> held[r] = q

LEMMA CallGoesOn ==
    ASSUME ContinuationInv, NEW p \in Procs, contPc[p] \in Working, NEW label \in Working,
           GoesOn(p, label), DOMAIN binding' = Reacquired
    PROVE  /\ ShapesSound' /\ LocksSound(p)' /\ Others(p)
           /\ contPc'[p] = label /\ contJob'[p].group = contJob[p].group
<1>1. LocksSound(p) /\ ShapesSound
  BY DEF ContinuationInv, ShapesSound
<1>2. contPc'[p] = label /\ contJob'[p].group = contJob[p].group
  BY <1>1 DEF GoesOn, ShapesSound
<1>3. Others(p)
  BY <1>1 DEF GoesOn, ShapesSound, Others
<1>4. ShapesSound'
  BY <1>1, <1>2 DEF GoesOn, ShapesSound
<1>5. LocksSound(p)'
  BY <1>1, <1>2 DEF GoesOn, LocksSound, Working
<1> QED BY <1>2, <1>3, <1>4, <1>5

LEMMA CallEnds ==
    ASSUME ContinuationInv, NEW p \in Procs, Cont!End(p), DOMAIN binding' = Reacquired
    PROVE  ShapesSound' /\ LocksSound(p)' /\ ContinuationSound(p)' /\ Others(p)
<1>1. LocksSound(p) /\ ShapesSound
  BY DEF ContinuationInv, ShapesSound
<1>2. contPc'[p] = "idle" /\ contJob'[p] = Cont!NoJob
  BY <1>1 DEF Cont!End, ShapesSound
<1>3. ShapesSound' /\ Others(p)
  BY <1>1, RequestAssumption DEF Cont!End, ShapesSound, Others, Cont!NoJob
<1>4. LocksSound(p)'
  BY <1>1, <1>2, RequestAssumption DEF Cont!End, LocksSound, ShapesSound, Working
<1>5. ContinuationSound(p)'
  BY <1>2 DEF ContinuationSound
<1> QED BY <1>3, <1>4, <1>5

(* A step that keeps every attempt keeps what holds of the line.           *)
LEMMA KeepingStep ==
    ASSUME ContinuationInv, NEW p \in Procs, ShapesSound', LocksSound(p)', ContinuationSound(p)',
           Others(p), attempts' \in Seq(AttemptRuns), DOMAIN attempts' = DOMAIN attempts,
           binding' = binding, \A i \in DOMAIN attempts : Kept(i)
    PROVE  ContinuationInv'
<1>1. AttemptsSound /\ AttemptsSound'
  BY KeptIsSound DEF ContinuationInv
<1>2. Len(attempts) = Len(attempts') /\ Len(attempts') \in Nat
  BY <1>1 DEF AttemptsSound
<1>3. RequestStep(p)
  BY <1>2 DEF RequestStep, Others, Kept
<1> QED BY <1>1, <1>3, RequestKeeps

(* The one attempt a single request is bound to.                           *)
LEMMA BoundIs ==
    ASSUME ContinuationInv, NEW p \in Procs, contPc[p] \in Working, Cont!Single(p)
    PROVE  \E r \in Reacquired :
               /\ contJob[p].group = {r} /\ Cont!Bound(p) = binding[r]
               /\ contJob'[p].group = contJob[p].group => Cont!Bound(p)' = binding'[r]
<1>1. contJob[p].group \in Requests
  BY DEF ContinuationInv, LocksSound, Working
<1>2. PICK r \in Reacquired : contJob[p].group = {r} /\ (CHOOSE x \in {r} : TRUE) = r
  BY SameCount, <1>1, OneMember DEF Cont!Single
<1>3. Cont!Bound(p) = binding[r]
  BY <1>2 DEF Cont!Bound
<1>4. contJob'[p].group = {r} => Cont!Bound(p)' = binding'[r]
  BY <1>2 DEF Cont!Bound
<1> QED BY <1>2, <1>3, <1>4

(* What the line says of the attempts of one request.                      *)
LEMMA LineOf ==
    ASSUME ContinuationInv, NEW p \in Procs, contPc[p] \in Working
    PROVE  /\ contJob[p].group \in Requests
           /\ Cont!Of(contJob[p].group) \subseteq DOMAIN attempts
                /\ Cont!Of(contJob[p].group) \subseteq Nat
           /\ DOMAIN attempts = 1..Len(attempts) /\ Len(attempts) \in Nat
           /\ \A i, k \in Cont!Of(contJob[p].group) : k < i => Spent(k)
           /\ Cont!Single(p) =>
                 /\ Cont!Bound(p) # 0 => Cont!Bound(p) \in Cont!Of(contJob[p].group)
                 /\ \A i \in Cont!Of(contJob[p].group) :
                       attempts[i].captured => attempts[i].mirror /\ i <= Cont!Bound(p)
<1>1. contJob[p].group \in Requests /\ AttemptsSound
  BY DEF ContinuationInv, LocksSound, Working
<1>2. Cont!Single(p) => /\ Cont!Bound(p) # 0 => Cont!Bound(p) \in Cont!Of(contJob[p].group)
                        /\ \A i \in Cont!Of(contJob[p].group) :
                              attempts[i].captured => attempts[i].mirror /\ i <= Cont!Bound(p)
  BY <1>1, BoundIs DEF AttemptsSound
<1> QED BY <1>1, <1>2 DEF AttemptsSound, Cont!Of

(* The attempts up to the latest one, once that one is of no use.          *)
LEMMA AllSpent ==
    ASSUME ContinuationInv, NEW p \in Procs, contPc[p] \in Working,
           NEW i \in Cont!Of(contJob[p].group),
           Spent(i), \A k \in Cont!Of(contJob[p].group) : k <= i
    PROVE  \A k \in Cont!Of(contJob[p].group) : Spent(k)
<1>1. Cont!Of(contJob[p].group) \subseteq Nat
  BY LineOf
<1>3. \A k \in Cont!Of(contJob[p].group) : k < i => Spent(k)
  BY LineOf
<1>2. \A k \in Cont!Of(contJob[p].group) : k = i \/ k < i
  BY <1>1
<1> QED BY <1>3, <1>2

LEMMA LatestOf ==
    ASSUME ContinuationInv, NEW p \in Procs, contPc[p] \in Working
    PROVE  /\ Cont!Latest(p) # 0 =>
                 /\ Cont!Latest(p) \in Cont!Of(contJob[p].group)
                 /\ \A k \in Cont!Of(contJob[p].group) : k <= Cont!Latest(p)
                 /\ Cont!Single(p) => ~attempts[Cont!Latest(p)].captured
           /\ Cont!Latest(p) = 0 /\ (Cont!Single(p) /\ Cont!Bound(p) # 0 => Spent(Cont!Bound(p))) =>
                 \A k \in Cont!Of(contJob[p].group) : Spent(k)
<1> DEFINE g == contJob[p].group
<1>1. Cont!Correlated(p) = {i \in Cont!Of(g) : Cont!Single(p) => i > Cont!Bound(p)}
  BY DEF Cont!Correlated, Cont!Of
<1>2. Cont!Single(p) => Cont!Bound(p) = 0 \/ Cont!Bound(p) \in Cont!Of(g)
  BY LineOf
<1>3. Cont!Of(g) \subseteq Nat \ {0}
  BY LineOf
<1>4. CASE Cont!Latest(p) # 0
  <2>1. Cont!Latest(p) \in Cont!Correlated(p) /\ \A i \in Cont!Correlated(p) : i <= Cont!Latest(p)
    BY <1>4, LatestIs
  <2>2. \A k \in Cont!Of(g) : k <= Cont!Latest(p)
    BY <1>1, <1>2, <1>3, <2>1
  <2>3. Cont!Single(p) => ~attempts[Cont!Latest(p)].captured
    BY <1>1, <1>2, <1>3, <2>1, LineOf
  <2> QED BY <1>1, <1>4, <2>1, <2>2, <2>3
<1>5. CASE Cont!Latest(p) = 0
  <2>1. Cont!Correlated(p) = {}
    BY <1>5, LatestIs
  <2>2. ASSUME NEW k \in Cont!Of(g), Cont!Single(p) /\ Cont!Bound(p) # 0 => Spent(Cont!Bound(p))
        PROVE  Spent(k)
    <3>1. Cont!Single(p) /\ k <= Cont!Bound(p)
      BY <1>1, <1>2, <1>3, <2>1
    <3>2. Cont!Bound(p) \in Cont!Of(g) /\ Spent(Cont!Bound(p))
      BY <1>2, <1>3, <2>2, <3>1
    <3>3. k = Cont!Bound(p) \/ k < Cont!Bound(p)
      BY <1>3, <3>1, <3>2
    <3> QED BY <3>2, <3>3, LineOf
  <2> QED BY <1>5, <2>2
<1> QED BY <1>4, <1>5

LEMMA InspectingKeeps ==
    ASSUME ContinuationInv, NEW p \in Procs, InspectingStep(p)
    PROVE  ContinuationInv'
<1> USE DEF Cont!At, Cont!GoTo, Cont!bounds
<1>1. /\ LocksSound(p) /\ ContinuationSound(p) /\ AttemptsSound /\ ShapesSound
      /\ DOMAIN binding = Reacquired
  BY DEF ContinuationInv, ShapesSound
<1>2. attempts' = attempts /\ binding' = binding /\ contPc[p] \in Working
  BY DEF InspectingStep, Cont!InspectBound, Cont!NothingBound, Cont!InspectCorrelated,
     Cont!InspectGroup, Cont!Continue, Cont!Answer,
         Working
<1>3. /\ attempts' \in Seq(AttemptRuns) /\ DOMAIN attempts' = DOMAIN attempts
      /\ \A i \in DOMAIN attempts : Kept(i)
  BY <1>1, <1>2 DEF AttemptsSound, Kept
<1>4. CASE Cont!End(p)
  BY <1>1, <1>2, <1>3, <1>4, CallEnds, KeepingStep
<1>5. ASSUME NEW label \in Working, NEW prior \in 0..Len(attempts), Cont!Continue(p, label, prior),
             label \in {"aborting", "correlating", "abandoning", "preparing"},
             label \in {"aborting", "correlating"} => Cont!Single(p),
             label = "aborting" => prior = Cont!Bound(p) /\ prior # 0 /\ Cont!Interrupted(p),
             label = "correlating" /\ Cont!Bound(p) # 0 => Spent(Cont!Bound(p)),
             label = "abandoning" =>
                 /\ prior \in Cont!Of(contJob[p].group)
                      /\ \A i \in Cont!Of(contJob[p].group) : i <= prior
                 /\ Cont!Single(p) => ~attempts[prior].captured,
             label = "preparing" => \A i \in Cont!Of(contJob[p].group) : Spent(i)
      PROVE  ContinuationInv'
  <2>1. GoesOn(p, label) /\ contJob'[p].prior = prior
    BY <1>1, <1>5 DEF Cont!Continue, GoesOn, ShapesSound
  <2>2. /\ ShapesSound' /\ LocksSound(p)' /\ Others(p) /\ contPc'[p] = label
        /\ contJob'[p].group = contJob[p].group /\ contJob'[p].prior = prior
    BY <1>1, <1>2, <2>1, CallGoesOn
  <2>3. /\ Cont!Bound(p)' = Cont!Bound(p)
        /\ \A g : Cont!Of(g)' = Cont!Of(g) /\ \A i : Spent(i)' = Spent(i)
    BY <1>2, <2>2 DEF Cont!Bound, Cont!Of, Spent, Cont!Open, Cont!Reusable, Cont!Completed
  <2>4. ContinuationSound(p)'
    BY SameCount, <1>2, <1>5, <2>2, <2>3 DEF ContinuationSound, Cont!Single, Cont!Interrupted
  <2> QED BY <1>2, <1>3, <2>2, <2>4, KeepingStep
<1>6. 0 \in 0..Len(attempts) /\ Cont!Of(contJob[p].group) \subseteq 0..Len(attempts)
  <2>1. Len(attempts) \in Nat /\ Cont!Of(contJob[p].group) \subseteq 1..Len(attempts)
    BY <1>2, LineOf
  <2> QED BY <2>1
<1>7. Cont!Single(p) /\ Cont!Bound(p) # 0 => Cont!Bound(p) \in Cont!Of(contJob[p].group)
  BY <1>2, LineOf
<1>8. \A i \in Cont!Of(contJob[p].group) : attempts[i].status
      \in {"RUNNING", "COMPLETED", "ABORTED"}
  <2>1. \A i \in Cont!Of(contJob[p].group) : attempts[i] \in AttemptRuns
    BY <1>1, <1>2, AttemptFields, LineOf
  <2> QED BY <2>1 DEF AttemptRuns
<1>9. CASE Cont!InspectBound(p)
  <2>1. Cont!Single(p) /\ Cont!Bound(p) # 0
    BY <1>9 DEF Cont!InspectBound
  <2>2. \/ Cont!Continue(p, "correlating", Cont!Bound(p)) /\ Spent(Cont!Bound(p))
        \/ Cont!Continue(p, "aborting", Cont!Bound(p)) /\ Cont!Interrupted(p)
        \/ Cont!End(p)
    <3>1. Cont!Interrupted(p) => ~attempts[Cont!Bound(p)].captured
      BY <1>2, <1>7, <2>1, LineOf DEF Cont!Interrupted
    <3> QED BY <1>9, <3>1 DEF Cont!InspectBound, Cont!Answer, Spent, Cont!Reusable, Cont!Open,
       Cont!Completed
  <2> QED BY <1>4, <1>5, <1>6, <1>7, <2>1, <2>2 DEF Working
<1>10. CASE Cont!NothingBound(p)
  BY <1>4, <1>5, <1>6, <1>10 DEF Cont!NothingBound, Working
<1>11. CASE Cont!InspectCorrelated(p)
  <2>1. Cont!Single(p) /\ (Cont!Bound(p) # 0 => Spent(Cont!Bound(p)))
        /\ contJob[p].prior \in 0..Len(attempts)
    BY SameCount, <1>1, <1>11 DEF Cont!InspectCorrelated, ContinuationSound, Cont!Single
  <2>2. \/ Cont!Continue(p, "preparing", contJob[p].prior)
             /\ \A k \in Cont!Of(contJob[p].group) : Spent(k)
        \/ Cont!Continue(p, "abandoning", Cont!Latest(p)) /\ Cont!Latest(p) # 0
        \/ Cont!Continue(p, "preparing", Cont!Latest(p)) /\ Cont!Latest(p) # 0
             /\ Spent(Cont!Latest(p))
        \/ Cont!End(p)
    BY <1>2, <1>11, <2>1, LatestOf DEF Cont!InspectCorrelated, Cont!Answer, Spent, Cont!Reusable
  <2>3. Cont!Latest(p) # 0 => /\ Cont!Latest(p) \in Cont!Of(contJob[p].group)
                              /\ \A k \in Cont!Of(contJob[p].group) : k <= Cont!Latest(p)
                              /\ ~attempts[Cont!Latest(p)].captured
                              /\ Spent(Cont!Latest(p))
                                   => \A k \in Cont!Of(contJob[p].group) : Spent(k)
    BY <1>2, <2>1, LatestOf, AllSpent
  <2> QED BY <1>4, <1>5, <1>6, <2>1, <2>2, <2>3 DEF Working
<1>12. CASE Cont!InspectGroup(p)
  <2>1. ~Cont!Single(p) /\ (Cont!Latest(p) # 0 => Cont!Latest(p) \in Cont!Of(contJob[p].group))
    BY <1>2, <1>12, LatestOf DEF Cont!InspectGroup
  <2>2. \/ Cont!Continue(p, "preparing", 0) /\ \A k \in Cont!Of(contJob[p].group) : Spent(k)
        \/ Cont!Continue(p, "abandoning", Cont!Latest(p)) /\ Cont!Latest(p) # 0
        \/ Cont!Continue(p, "preparing", Cont!Latest(p)) /\ Cont!Latest(p) # 0
             /\ Spent(Cont!Latest(p))
        \/ Cont!End(p)
    <3>1. Cont!Latest(p) # 0 => attempts[Cont!Latest(p)].group = contJob[p].group
      BY <2>1 DEF Cont!Of
    <3> QED BY SameCount, <1>2, <1>12, <2>1, <3>1, LatestOf DEF Cont!InspectGroup, Cont!Answer,
       Spent,
       Cont!Open, Cont!Completed, Cont!Single
  <2>3. Cont!Latest(p) # 0 => /\ \A k \in Cont!Of(contJob[p].group) : k <= Cont!Latest(p)
                              /\ Spent(Cont!Latest(p))
                                   => \A k \in Cont!Of(contJob[p].group) : Spent(k)
    BY <1>2, <2>1, LatestOf, AllSpent
  <2> QED BY <1>4, <1>5, <1>6, <2>1, <2>2, <2>3 DEF Working
<1> QED BY <1>9, <1>10, <1>11, <1>12 DEF InspectingStep

(* The steps that end an attempt.                                          *)
EndingStep(p) == Cont!AbortBound(p) \/ Cont!AbortCorrelated(p) \/ Cont!Collect(p) \/ Cont!Fail(p)

LEMMA EndingKeeps ==
    ASSUME ContinuationInv, NEW p \in Procs, EndingStep(p)
    PROVE  ContinuationInv'
<1> USE DEF Cont!At, Cont!GoTo, Cont!bounds
<1> DEFINE g == contJob[p].group
<1>1. /\ LocksSound(p) /\ ContinuationSound(p) /\ AttemptsSound /\ ShapesSound
      /\ DOMAIN binding = Reacquired
  BY DEF ContinuationInv, ShapesSound
<1>2. binding' = binding /\ contPc[p] \in Working
  BY DEF EndingStep, Cont!AbortBound, Cont!AbortCorrelated, Cont!Collect, Cont!Fail, Working
<1>3. /\ g \in Requests /\ Cont!Of(g) \subseteq DOMAIN attempts
      /\ Cont!Single(p) /\ Cont!Bound(p) # 0 => Cont!Bound(p) \in Cont!Of(g)
  BY <1>2, LineOf
<1>4. ASSUME NEW i \in DOMAIN attempts,
             attempts' = Cont!Aborted(i) \/ (Cont!Open(i) /\ attempts' = Cont!Collected(i))
      PROVE  /\ attempts' \in Seq(AttemptRuns) /\ DOMAIN attempts' = DOMAIN attempts
             /\ Len(attempts') = Len(attempts)
             /\ \A k \in DOMAIN attempts : Kept(k) /\ (Spent(k) => Spent(k)')
             /\ ~Cont!Open(i)'
             /\ \A h : Cont!Of(h)' = Cont!Of(h)
  <2>1. /\ attempts' \in Seq(AttemptRuns) /\ DOMAIN attempts' = DOMAIN attempts
        /\ Len(attempts') = Len(attempts)
        /\ \A k \in DOMAIN attempts : Kept(k)
        /\ ~Cont!Open(i)'
    BY <1>1, <1>4, EndedAttempt
  <2>2. \A k \in DOMAIN attempts : Spent(k) => Spent(k)'
    BY <2>1, SpentStays
  <2> QED BY <1>1, <1>2, <2>1, <2>2, KeptIsSound
<1>5. ASSUME NEW i \in DOMAIN attempts,
             attempts' = Cont!Aborted(i) \/ (Cont!Open(i) /\ attempts' = Cont!Collected(i)),
             Cont!End(p)
      PROVE  ContinuationInv'
  BY <1>1, <1>2, <1>4, <1>5, CallEnds, KeepingStep
<1>6. ASSUME NEW label \in Working, NEW i \in DOMAIN attempts, attempts' = Cont!Aborted(i),
             Cont!GoTo(p, label), contJob' = contJob, held' = held
      PROVE  /\ ShapesSound' /\ LocksSound(p)' /\ Others(p)
             /\ contPc'[p] = label /\ contJob'[p] = contJob[p]
  <2>2. GoesOn(p, label)
    BY <1>1, <1>6 DEF GoesOn, ShapesSound
  <2> QED BY <1>1, <1>2, <1>6, <2>2, CallGoesOn
<1>7. CASE Cont!AbortBound(p)
  <2>1. /\ Cont!Single(p) /\ contJob[p].prior = Cont!Bound(p) /\ Cont!Bound(p) # 0
        /\ Cont!Interrupted(p)
        /\ attempts' = Cont!Aborted(Cont!Bound(p)) /\ Cont!GoTo(p, "correlating")
        /\ contJob' = contJob /\ held' = held
        /\ contJob[p].prior \in 0..Len(attempts)
    BY SameCount, <1>1, <1>7 DEF Cont!AbortBound, ContinuationSound, Cont!Single
  <2>2. PICK b \in Cont!Of(g) : b = Cont!Bound(p)
    BY <1>3, <2>1
  <2>3. /\ ShapesSound' /\ LocksSound(p)' /\ Others(p) /\ contPc'[p] = "correlating"
        /\ contJob'[p] = contJob[p]
    BY <1>3, <1>6, <2>1, <2>2 DEF Working
  <2>4. ~attempts[b].captured
    BY <1>2, <1>3, <2>1, <2>2, LineOf DEF Cont!Interrupted
  <2>5. ~Cont!Open(b)' /\ Kept(b) /\ Len(attempts') = Len(attempts)
    BY <1>3, <1>4, <2>1, <2>2
  <2>6. Spent(b)'
    BY <2>4, <2>5 DEF Spent, Kept, Cont!Reusable
  <2>7. Cont!Bound(p)' = b
    BY <1>2, <2>2, <2>3 DEF Cont!Bound
  <2>8. Spent(Cont!Bound(p))'
    BY <2>6, <2>7 DEF Spent, Cont!Open, Cont!Reusable, Cont!Completed
  <2>9. ContinuationSound(p)'
    BY SameCount, <2>1, <2>3, <2>5, <2>8 DEF ContinuationSound, Cont!Single
  <2> QED BY <1>2, <1>3, <1>4, <2>1, <2>2, <2>3, <2>9, KeepingStep
<1>8. CASE Cont!AbortCorrelated(p)
  <2>1. PICK i \in Cont!Of(g) : i = contJob[p].prior
    BY <1>1, <1>8 DEF Cont!AbortCorrelated, ContinuationSound
  <2>2. /\ attempts' = Cont!Aborted(i) /\ \A k \in Cont!Of(g) : k <= i
        /\ Cont!Single(p) => ~attempts[i].captured
        /\ Cont!End(p) \/ (Cont!GoTo(p, "preparing") /\ contJob' = contJob /\ held' = held)
    BY <1>1, <1>8, <2>1 DEF Cont!AbortCorrelated, ContinuationSound
  <2>3. CASE Cont!GoTo(p, "preparing") /\ contJob' = contJob /\ held' = held
    <3>1. /\ ShapesSound' /\ LocksSound(p)' /\ Others(p) /\ contPc'[p] = "preparing"
          /\ contJob'[p] = contJob[p]
      BY <1>3, <1>6, <2>1, <2>2, <2>3 DEF Working
    <3>2. ~Cont!Open(i)' /\ Kept(i) /\ Cont!Of(g)' = Cont!Of(g) /\ Len(attempts') = Len(attempts)
      BY <1>3, <1>4, <2>1, <2>2, <3>1 DEF Cont!Of
    <3>3. Spent(i)'
      <4>1. Cardinality(attempts[i].group) = 1 => ~attempts[i].captured
        BY SameCount, <2>1, <2>2 DEF Cont!Single, Cont!Of
      <4>2. attempts'[i].group = attempts[i].group /\ attempts'[i].captured = attempts[i].captured
        BY <3>2 DEF Kept
      <4> QED BY <3>2, <4>1, <4>2 DEF Spent, Cont!Reusable
    <3>4. \A k \in Cont!Of(g) : k < i => Spent(k)'
      BY <1>2, <1>3, <1>4, <2>1, <2>2, LineOf
    <3>5. \A k \in Cont!Of(g) : k < i \/ k = i
      <4>1. Cont!Of(g) \subseteq Nat
        BY <1>2, LineOf
      <4> QED BY <2>1, <2>2, <4>1
    <3>6. \A k \in Cont!Of(g)' : Spent(k)'
      BY <3>2, <3>3, <3>4, <3>5
    <3>7. contJob[p].prior \in 0..Len(attempts)
      BY <1>1, <1>2 DEF ContinuationSound, Working
    <3>8. ContinuationSound(p)'
      BY <3>1, <3>2, <3>6, <3>7 DEF ContinuationSound
    <3> QED BY <1>2, <1>3, <1>4, <2>1, <2>2, <3>1, <3>8, KeepingStep
  <2> QED BY <1>3, <1>5, <2>1, <2>2, <2>3
<1>9. CASE Cont!Collect(p)
  <2>1. PICK i \in Cont!Of(g) : i = contJob[p].child
    BY <1>1, <1>9 DEF Cont!Collect, ContinuationSound
  <2> QED BY <1>3, <1>5, <1>9, <2>1 DEF Cont!Collect
<1>10. CASE Cont!Fail(p)
  <2>1. PICK i \in Cont!Of(g) : i = contJob[p].child
    BY <1>1, <1>10 DEF Cont!Fail, ContinuationSound
  <2>2. CASE attempts' = attempts
    <3>1. /\ attempts' \in Seq(AttemptRuns) /\ DOMAIN attempts' = DOMAIN attempts
          /\ \A k \in DOMAIN attempts : Kept(k)
      BY <1>1, <2>2 DEF AttemptsSound, Kept
    <3> QED BY <1>1, <1>2, <1>10, <3>1, CallEnds, KeepingStep DEF Cont!Fail
  <2> QED BY <1>3, <1>5, <1>10, <2>1, <2>2 DEF Cont!Fail
<1> QED BY <1>7, <1>8, <1>9, <1>10 DEF EndingStep

(* Prepare: a new attempt that no request is correlated with yet.          *)
LEMMA PrepareKeeps ==
    ASSUME ContinuationInv, NEW p \in Procs, Cont!Prepare(p)
    PROVE  ContinuationInv'
<1>0. PICK g : g = contJob[p].group
  OBVIOUS
<1> USE <1>0
<1> DEFINE n == Len(attempts) + 1
           a == [group |-> g, status |-> "RUNNING", parent |-> contJob[p].prior,
                 correlated |-> FALSE, mirror |-> FALSE, captured |-> FALSE,
                 stale |-> FALSE, closed |-> FALSE]
<1>1. /\ LocksSound(p) /\ ContinuationSound(p) /\ AttemptsSound /\ ShapesSound
      /\ DOMAIN binding = Reacquired
  BY DEF ContinuationInv, ShapesSound
<1>2. /\ contPc[p] = "preparing" /\ contPc[p] \in Working /\ binding' = binding
      /\ attempts' = Append(attempts, a) /\ GoesOn(p, "prepared") /\ contJob'[p].child = n
      /\ contJob'[p].prior = contJob[p].prior
  BY <1>1 DEF Cont!Prepare, Cont!At, Cont!GoTo, Working, GoesOn, ShapesSound, Cont!bounds
<1>3. /\ g \in Requests /\ Cont!Of(g) \subseteq DOMAIN attempts /\ Len(attempts) \in Nat
      /\ DOMAIN attempts = 1..Len(attempts)
  BY <1>2, LineOf
<1>4. /\ ShapesSound' /\ LocksSound(p)' /\ Others(p) /\ contPc'[p] = "prepared"
      /\ contJob'[p].group = g
  <2>1. "prepared" \in Working
    BY DEF Working
  <2> QED BY <1>1, <1>2, <2>1, CallGoesOn
<1>5. contJob[p].prior \in 0..Len(attempts) /\ \A i \in Cont!Of(g) : Spent(i)
  BY <1>1, <1>2 DEF ContinuationSound
<1>6. a \in AttemptRuns
  BY <1>3, <1>5 DEF AttemptRuns
<1>7. a.group = g /\ ~a.correlated /\ ~a.captured /\ a.parent < n
  BY <1>3, <1>5
<1> HIDE DEF a
<1>8. /\ attempts' \in Seq(AttemptRuns) /\ Len(attempts') = n /\ attempts'[n] = a
      /\ DOMAIN attempts' = 1..n
      /\ \A i \in DOMAIN attempts : attempts'[i] = attempts[i]
  BY <1>1, <1>2, <1>3, <1>6 DEF AttemptsSound
<1>9. \A i \in DOMAIN attempts : Kept(i) /\ (Spent(i) => Spent(i)')
  BY <1>8 DEF Kept, Spent, Cont!Open, Cont!Reusable, Cont!Completed
<1>10. \A h : Cont!Of(h)' = Cont!Of(h)
  BY <1>3, <1>7, <1>8 DEF Cont!Of
<1>11. AttemptsSound'
  <2>1. \A i \in DOMAIN attempts' : attempts'[i].parent < i
    BY <1>1, <1>3, <1>7, <1>8 DEF AttemptsSound
  <2>2. \A h \in Requests : \A i, j \in Cont!Of(h)' : i < j => Spent(i)'
    <3>1. \A h \in Requests : \A i, j \in Cont!Of(h) : i < j => Spent(i)
      BY <1>1 DEF AttemptsSound
    <3>2. \A h \in Requests : Cont!Of(h) \subseteq DOMAIN attempts
      BY DEF Cont!Of
    <3> QED BY <1>9, <1>10, <3>1, <3>2
  <2>3. \A r \in Reacquired :
          /\ binding'[r] # 0 => binding'[r] \in Cont!Of({r})'
          /\ \A i \in Cont!Of({r})' : attempts'[i].captured
               => attempts'[i].mirror /\ i <= binding'[r]
    <3>1. ASSUME NEW r \in Reacquired
          PROVE  /\ binding[r] # 0 => binding[r] \in Cont!Of({r})
                 /\ \A i \in Cont!Of({r}) : attempts[i].captured
                      => attempts[i].mirror /\ i <= binding[r]
                 /\ Cont!Of({r}) \subseteq DOMAIN attempts /\ Cont!Of({r})' = Cont!Of({r})
      <4>1. Cont!Of({r}) \subseteq DOMAIN attempts /\ Cont!Of({r})' = Cont!Of({r})
        BY <1>10 DEF Cont!Of
      <4> QED BY <1>1, <4>1 DEF AttemptsSound
    <3> QED BY <1>2, <1>8, <3>1
  <2> QED BY <1>8, <2>1, <2>2, <2>3 DEF AttemptsSound
<1>12. ContinuationSound(p)'
  <2>1. \A i \in Cont!Of(g)' : Spent(i)' /\ i < n
    BY <1>3, <1>5, <1>9, <1>10
  <2> QED BY <1>2, <1>3, <1>4, <1>5, <1>7, <1>8, <2>1 DEF ContinuationSound
<1>13. RequestStep(p)
  BY <1>2, <1>3, <1>4, <1>7, <1>8, <1>9 DEF RequestStep, Others
<1> QED BY <1>4, <1>11, <1>12, <1>13, RequestKeeps

(* The steps that fill the new attempt: each changes that attempt or the   *)
(* binding of its reacquisition, and only its own request looks at them.   *)
FillingStep(p) == Cont!Correlate(p) \/ Cont!BindParent(p) \/ Cont!BindChild(p) \/ Cont!Capture(p)

LEMMA FillingKeeps ==
    ASSUME ContinuationInv, NEW p \in Procs, FillingStep(p)
    PROVE  ContinuationInv'
<1> USE DEF Cont!At, Cont!GoTo, Cont!bounds
<1>0. PICK g : g = contJob[p].group
  OBVIOUS
<1> USE <1>0
<1>1. /\ LocksSound(p) /\ ContinuationSound(p) /\ AttemptsSound /\ ShapesSound
      /\ DOMAIN binding = Reacquired
  BY DEF ContinuationInv, ShapesSound
<1>2. contPc[p] \in Working /\ contJob' = contJob /\ held' = held
  BY DEF FillingStep, Cont!Correlate, Cont!BindParent, Cont!BindChild, Cont!Capture, Working
<1>3. /\ g \in Requests /\ Cont!Of(g) \subseteq DOMAIN attempts /\ Len(attempts) \in Nat
      /\ DOMAIN attempts = 1..Len(attempts) /\ Cont!Of(g) \subseteq Nat
  BY <1>2, LineOf
<1>4. PICK c : c = contJob[p].child
  OBVIOUS
<1>5. c \in DOMAIN attempts /\ attempts[c].group = g /\ \A i \in Cont!Of(g) : i <= c
  <2>1. \A i \in Cont!Of(g) : i < c => i <= c
    BY <1>3, <1>4, <1>1 DEF FillingStep, Cont!Correlate, Cont!BindParent, Cont!BindChild,
       Cont!Capture, ContinuationSound
  <2> QED BY <1>1, <1>3, <1>4, <2>1
      DEF FillingStep, Cont!Correlate, Cont!BindParent, Cont!BindChild, Cont!Capture,
         ContinuationSound, Cont!Of
<1>6. attempts[c] \in AttemptRuns
  BY <1>1, <1>5, AttemptFields
<1>7. ASSUME NEW label \in Working, contPc' = [contPc EXCEPT ![p] = label], DOMAIN binding'
             = Reacquired
      PROVE  /\ ShapesSound' /\ LocksSound(p)' /\ Others(p)
             /\ contPc'[p] = label /\ contJob'[p] = contJob[p]
  <2>1. GoesOn(p, label)
    BY <1>1, <1>2, <1>7 DEF GoesOn, ShapesSound
  <2> QED BY <1>1, <1>2, <1>7, <2>1, CallGoesOn
<1>8. ASSUME NEW a \in AttemptRuns, attempts' = [attempts EXCEPT ![c] = a], a.group = g
      PROVE  /\ attempts' \in Seq(AttemptRuns) /\ DOMAIN attempts' = DOMAIN attempts
             /\ Len(attempts') = Len(attempts) /\ attempts'[c] = a
             /\ \A i \in DOMAIN attempts : attempts'[i].group = attempts[i].group
             /\ \A i \in DOMAIN attempts \ {c} :
                   Kept(i) /\ attempts'[i] = attempts[i] /\ (Spent(i) => Spent(i)')
             /\ \A h \in Requests \ {g} : Cont!Of(h)' = Cont!Of(h) /\ c \notin Cont!Of(h)
             /\ Cont!Of(g)' = (Cont!Of(g) \ {c}) \cup (IF a.correlated THEN {c} ELSE {})
  <2>1. /\ attempts' \in Seq(AttemptRuns) /\ DOMAIN attempts' = DOMAIN attempts
        /\ Len(attempts') = Len(attempts) /\ attempts'[c] = a
        /\ \A i \in DOMAIN attempts \ {c} : attempts'[i] = attempts[i] /\ Kept(i)
    BY <1>1, <1>5, <1>8, UpdatedAttempt
  <2>2. \A i \in DOMAIN attempts \ {c} : Spent(i) => Spent(i)'
    BY <2>1, SpentStays
  <2>3. \A i \in DOMAIN attempts : attempts'[i].group = attempts[i].group
    BY <1>5, <1>8, <2>1
  <2>4. \A h \in Requests \ {g} : Cont!Of(h)' = Cont!Of(h) /\ c \notin Cont!Of(h)
    BY <1>5, <1>8, <2>1 DEF Cont!Of
  <2>5. g' = g
    BY <1>2
  <2>6. Cont!Of(g)' = (Cont!Of(g) \ {c}) \cup (IF a.correlated THEN {c} ELSE {})
    BY <1>5, <1>8, <2>1, <2>5 DEF Cont!Of
  <2> QED BY <2>1, <2>2, <2>3, <2>4, <2>6
<1>9. ASSUME NEW a \in AttemptRuns, attempts' = [attempts EXCEPT ![c] = a], a.group = g,
             a.correlated, a.parent = attempts[c].parent, binding' = binding,
             \A i \in Cont!Of(g) : i < c => Spent(i),
             \A r \in Reacquired : g = {r} /\ a.captured => a.mirror /\ c <= binding[r]
      PROVE  AttemptsSound'
  <2>1. \A i \in DOMAIN attempts' : attempts'[i].parent < i
    BY <1>1, <1>8, <1>9 DEF AttemptsSound
  <2>2. \A h \in Requests : \A i, j \in Cont!Of(h)' : i < j => Spent(i)'
    <3>1. \A h \in Requests \ {g} : Cont!Of(h) \subseteq DOMAIN attempts \ {c}
      BY <1>8, <1>9 DEF Cont!Of
    <3>2. \A h \in Requests \ {g} : \A i, j \in Cont!Of(h)' : i < j => Spent(i)'
      <4>1. \A h \in Requests : \A i, j \in Cont!Of(h) : i < j => Spent(i)
        BY <1>1 DEF AttemptsSound
      <4> QED BY <1>8, <1>9, <3>1, <4>1
    <3>3. \A i, j \in Cont!Of(g)' : i < j => Spent(i)'
      <4>1. Cont!Of(g)' \subseteq Cont!Of(g) \cup {c} /\ c \in Nat
        <5>1. Cont!Of(g)' = (Cont!Of(g) \ {c}) \cup {c}
          BY <1>8, <1>9
        <5> QED BY <1>3, <1>5, <5>1
      <4>2. ASSUME NEW i \in Cont!Of(g)', NEW j \in Cont!Of(g)', i < j PROVE Spent(i)'
        <5>1. i \in Nat /\ j \in Nat /\ j <= c
          BY <1>3, <1>5, <4>1, <4>2
        <5>2. i < c /\ i # c /\ i \in Cont!Of(g)
          BY <4>1, <4>2, <5>1
        <5> QED BY <1>3, <1>8, <1>9, <5>2
      <4> QED BY <4>2
    <3>4. g' = g
      BY <1>2
    <3>5. \A i, j : g = g' /\ i \in Cont!Of(g)' /\ j \in Cont!Of(g)'
          => i \in Cont!Of(g)' /\ j \in Cont!Of(g)'
      OBVIOUS
    <3>6. ASSUME NEW h \in Requests, h = g, NEW i \in Cont!Of(h)', NEW j \in Cont!Of(h)', i < j
          PROVE  Spent(i)'
      <4>1. i \in Cont!Of(g)' /\ j \in Cont!Of(g)'
        BY <3>4, <3>6 DEF Cont!Of
      <4> QED BY <3>3, <3>6, <4>1
    <3> QED BY <3>2, <3>6
  <2>3. ASSUME NEW r \in Reacquired
        PROVE  /\ binding'[r] # 0 => binding'[r] \in Cont!Of({r})'
               /\ \A i \in Cont!Of({r})' : attempts'[i].captured
                    => attempts'[i].mirror /\ i <= binding'[r]
    <3>1. CASE {r} = g
      <4>1. Cont!Of({r})' = Cont!Of({r}) \cup {c}
        BY <1>2, <1>5, <1>8, <1>9, <3>1 DEF Cont!Of
      <4> QED BY <1>1, <1>5, <1>8, <1>9, <3>1, <4>1 DEF AttemptsSound, Cont!Of
    <3>2. CASE {r} # g
      <4>1. Cont!Of({r})' = Cont!Of({r}) /\ c \notin Cont!Of({r})
        BY <1>5, <1>8, <1>9, <3>2 DEF Cont!Of
      <4> QED BY <1>1, <1>8, <1>9, <4>1 DEF AttemptsSound, Cont!Of
    <3> QED BY <3>1, <3>2
  <2> QED BY <1>8, <1>9, <2>1, <2>2, <2>3 DEF AttemptsSound
<1>10. ASSUME NEW a \in AttemptRuns, attempts' = [attempts EXCEPT ![c] = a], a.group = g,
              binding' = binding, Others(p)
       PROVE  RequestStep(p)
  <2>1. DOMAIN attempts' = DOMAIN attempts /\ Len(attempts') = Len(attempts)
    BY <1>8, <1>10
  <2>2. \A i \in DOMAIN attempts :
          /\ attempts'[i].group = attempts[i].group
          /\ Kept(i) \/ attempts[i].group = contJob[p].group
    BY <1>5, <1>8, <1>10
  <2> QED BY <1>2, <1>3, <1>10, <2>1, <2>2 DEF RequestStep, Others
<1>11. CASE Cont!Correlate(p)
  <2> DEFINE a == [attempts[c] EXCEPT !.correlated = TRUE]
  <2>1. /\ a \in AttemptRuns /\ attempts' = [attempts EXCEPT ![c] = a] /\ a.group = g
        /\ a.correlated /\ a.parent = attempts[c].parent /\ a.captured = attempts[c].captured
        /\ binding' = binding
    BY <1>4, <1>5, <1>6, <1>11 DEF AttemptRuns, Cont!Correlate
  <2> HIDE DEF a
  <2>2. /\ ~a.captured /\ \A i \in Cont!Of(g) : i < c /\ Spent(i)
        /\ contJob[p].prior \in 0..Len(attempts)
    BY <1>1, <1>4, <1>11, <2>1 DEF Cont!Correlate, ContinuationSound
  <2>3. AttemptsSound'
    BY <1>9, <2>1, <2>2
  <2>4. PICK label \in Working : /\ contPc' = [contPc EXCEPT ![p] = label]
                                 /\ \/ label = "binding" /\ Cont!Single(p)
                                    \/ label = "capturing" /\ ~Cont!Single(p)
    BY <1>11 DEF Cont!Correlate, Working
  <2>5. /\ ShapesSound' /\ LocksSound(p)' /\ Others(p) /\ contPc'[p] = label
        /\ contJob'[p] = contJob[p]
    BY <1>1, <1>7, <2>1, <2>4
  <2>6. Cont!Of(g)' = Cont!Of(g) \cup {c} /\ c \in Cont!Of(g)' /\ \A i \in Cont!Of(g)' : i <= c
    <3>1. Cont!Of(g)' = (Cont!Of(g) \ {c}) \cup {c}
      BY <1>8, <2>1
    <3>2. c \in Nat
      BY <1>3, <1>5
    <3> QED BY <1>5, <3>1, <3>2
  <2>7. ContinuationSound(p)'
    BY SameCount, <1>2, <1>4, <1>8, <2>1, <2>2, <2>4, <2>5, <2>6 DEF ContinuationSound, Cont!Single
  <2> QED BY <1>10, <2>1, <2>3, <2>5, <2>7, RequestKeeps
<1>12. CASE Cont!BindParent(p)
  <2>1. /\ attempts' = attempts /\ contPc' = [contPc EXCEPT ![p] = "mirroring"]
        /\ contPc[p] = "binding"
        /\ binding' = [r \in Reacquired |-> IF r \in g THEN c ELSE binding[r]]
        /\ DOMAIN binding' = Reacquired
    BY <1>4, <1>12 DEF Cont!BindParent
  <2>2. /\ ShapesSound' /\ LocksSound(p)' /\ Others(p) /\ contPc'[p] = "mirroring"
        /\ contJob'[p] = contJob[p]
    BY <1>7, <2>1 DEF Working
  <2>3. Cont!Single(p) /\ c \in Cont!Of(g) /\ contJob[p].prior \in 0..Len(attempts)
    BY SameCount, <1>1, <1>4, <2>1 DEF ContinuationSound, Cont!Single
  <2>4. PICK x \in Reacquired : g = {x} /\ Cont!Bound(p)' = binding'[x]
    BY <1>2, <2>3, BoundIs
  <2>5. \A h : Cont!Of(h)' = Cont!Of(h) /\ \A i : Spent(i)' = Spent(i) /\ Kept(i)
    BY <2>1 DEF Cont!Of, Spent, Cont!Open, Cont!Reusable, Cont!Completed, Kept
  <2>6. AttemptsSound'
    <3>1. ASSUME NEW r \in Reacquired
          PROVE  /\ binding'[r] # 0 => binding'[r] \in Cont!Of({r})
                 /\ \A i \in Cont!Of({r}) : attempts[i].captured
                      => attempts[i].mirror /\ i <= binding'[r]
      <4>1. CASE r = x
        BY <1>1, <1>5, <2>1, <2>3, <2>4, <4>1 DEF AttemptsSound
      <4>2. CASE r # x
        BY <1>1, <2>1, <2>4, <4>2 DEF AttemptsSound
      <4> QED BY <4>1, <4>2
    <3> QED BY <1>1, <2>1, <2>5, <3>1 DEF AttemptsSound
  <2>7. ContinuationSound(p)'
    <3>1. c \in Cont!Of(g)' /\ \A i \in Cont!Of(g)' : i <= c
      BY <1>2, <1>5, <2>1, <2>3 DEF Cont!Of
    <3> QED BY SameCount, <1>2, <1>4, <2>1, <2>2, <2>3, <2>4, <3>1 DEF ContinuationSound,
       Cont!Single
  <2>8. RequestStep(p)
    BY <1>2, <1>3, <2>1, <2>2, <2>5 DEF RequestStep, Others
  <2> QED BY <2>2, <2>6, <2>7, <2>8, RequestKeeps
<1>13. CASE Cont!BindChild(p)
  <2> DEFINE a == [attempts[c] EXCEPT !.mirror = TRUE]
  <2>1. /\ a \in AttemptRuns /\ attempts' = [attempts EXCEPT ![c] = a] /\ a.group = g
        /\ a.correlated = attempts[c].correlated /\ a.parent = attempts[c].parent
        /\ a.captured = attempts[c].captured /\ a.mirror
        /\ binding' = binding /\ contPc' = [contPc EXCEPT ![p] = "capturing"]
             /\ contPc[p] = "mirroring"
    BY <1>4, <1>5, <1>6, <1>13 DEF AttemptRuns, Cont!BindChild
  <2> HIDE DEF a
  <2>2. /\ c \in Cont!Of(g) /\ a.correlated /\ Cont!Single(p) /\ Cont!Bound(p) = c
        /\ contJob[p].prior \in 0..Len(attempts)
    BY SameCount, <1>1, <1>4, <2>1 DEF ContinuationSound, Cont!Single, Cont!Of
  <2>3. \A i \in Cont!Of(g) : i < c => Spent(i)
    BY <1>2, <2>2, LineOf
  <2>4. PICK x \in Reacquired : g = {x} /\ Cont!Bound(p) = binding[x]
             /\ Cont!Bound(p)' = binding'[x]
    BY <1>2, <2>2, BoundIs
  <2>5. AttemptsSound'
    BY <1>3, <1>5, <1>9, <2>1, <2>2, <2>3, <2>4
  <2>6. /\ ShapesSound' /\ LocksSound(p)' /\ Others(p) /\ contPc'[p] = "capturing"
        /\ contJob'[p] = contJob[p]
    BY <1>1, <1>7, <2>1 DEF Working
  <2>7. c \in Cont!Of(g)' /\ \A i \in Cont!Of(g)' : i <= c
    BY <1>5, <1>8, <2>1, <2>2
  <2>8. ContinuationSound(p)'
    <3>1. Cont!Bound(p)' = c /\ attempts'[c].mirror /\ contJob'[p].prior \in 0..Len(attempts')
      BY <1>8, <2>1, <2>2, <2>4, <2>6
    <3> QED BY <1>4, <2>2, <2>6, <2>7, <3>1 DEF ContinuationSound, Cont!Single
  <2> QED BY <1>10, <2>1, <2>5, <2>6, <2>8, RequestKeeps
<1>14. CASE Cont!Capture(p)
  <2> DEFINE a == [attempts[c] EXCEPT !.captured = TRUE]
  <2>1. /\ a \in AttemptRuns /\ attempts' = [attempts EXCEPT ![c] = a] /\ a.group = g
        /\ a.correlated = attempts[c].correlated /\ a.parent = attempts[c].parent
        /\ a.mirror = attempts[c].mirror
        /\ binding' = binding /\ contPc' = [contPc EXCEPT ![p] = "collecting"]
             /\ contPc[p] = "capturing"
    BY <1>4, <1>5, <1>6, <1>14 DEF AttemptRuns, Cont!Capture
  <2> HIDE DEF a
  <2>2. /\ c \in Cont!Of(g) /\ a.correlated /\ (Cont!Single(p) => Cont!Bound(p) = c /\ a.mirror)
        /\ contJob[p].prior \in 0..Len(attempts)
    BY <1>1, <1>4, <2>1 DEF ContinuationSound, Cont!Single, Cont!Of
  <2>3. \A i \in Cont!Of(g) : i < c => Spent(i)
    BY <1>2, <2>2, LineOf
  <2>4. Cont!Single(p) =>
            \E x \in Reacquired : g = {x} /\ Cont!Bound(p) = binding[x]
                /\ Cont!Bound(p)' = binding'[x]
    BY <1>2, <2>2, BoundIs
  <2>5. \A r \in Reacquired : g = {r} => Cont!Single(p)
    BY SameCount, FS_Singleton DEF Cont!Single
  <2>6. AttemptsSound'
    <3>1. c \in Nat
      BY <1>3, <1>5
    <3>2. ASSUME NEW r \in Reacquired, g = {r} PROVE a.mirror /\ c <= binding[r]
      <4>1. PICK x \in Reacquired : g = {x} /\ Cont!Bound(p) = binding[x]
        BY <2>4, <2>5, <3>2
      <4> QED BY SameCount, <2>2, <2>5, <3>1, <3>2, <4>1 DEF Cont!Bound
    <3> QED BY <1>9, <2>1, <2>2, <2>3, <3>2
  <2>7. /\ ShapesSound' /\ LocksSound(p)' /\ Others(p) /\ contPc'[p] = "collecting"
        /\ contJob'[p] = contJob[p]
    BY <1>1, <1>7, <2>1 DEF Working
  <2>8. c \in Cont!Of(g)' /\ \A i \in Cont!Of(g)' : i <= c
    BY <1>5, <1>8, <2>1, <2>2
  <2>9. ContinuationSound(p)'
    BY <1>2, <1>4, <1>8, <2>1, <2>2, <2>4, <2>7, <2>8 DEF ContinuationSound, Cont!Single
  <2> QED BY <1>10, <2>1, <2>6, <2>7, <2>9, RequestKeeps
<1> QED BY <1>11, <1>12, <1>13, <1>14 DEF FillingStep

OutsideStep ==
    \/ Cont!MoveState
    \/ \E i \in DOMAIN attempts : Cont!OperatorCollect(i) \/ Cont!OperatorAbort(i)

LEMMA OutsideKeeps ==
    ASSUME ContinuationInv, OutsideStep
    PROVE  ContinuationInv'
<1>1. AttemptsSound /\ ShapesSound
  BY DEF ContinuationInv, ShapesSound
<1>2. contPc' = contPc /\ contJob' = contJob /\ held' = held /\ binding' = binding
  BY DEF OutsideStep, Cont!MoveState, Cont!OperatorCollect, Cont!OperatorAbort, Cont!bounds
<1>3. /\ attempts' \in Seq(AttemptRuns) /\ DOMAIN attempts' = DOMAIN attempts
      /\ \A i \in DOMAIN attempts : Kept(i)
  <2>1. CASE Cont!MoveState
    <3> DEFINE a(i) == [attempts[i] EXCEPT !.stale = @ \/ Cont!Open(i)]
    <3>1. attempts' = [i \in DOMAIN attempts |-> a(i)]
      BY <2>1 DEF Cont!MoveState
    <3>2. ASSUME NEW i \in DOMAIN attempts
          PROVE  /\ a(i) \in AttemptRuns /\ a(i).group = attempts[i].group
                 /\ a(i).parent = attempts[i].parent /\ a(i).correlated = attempts[i].correlated
                 /\ a(i).mirror = attempts[i].mirror /\ a(i).captured = attempts[i].captured
                 /\ a(i).status = attempts[i].status /\ a(i).closed = attempts[i].closed
      <4>1. attempts[i] \in AttemptRuns /\ (Cont!Open(i) \in BOOLEAN)
        BY <1>1, AttemptFields DEF Cont!Open
      <4> QED BY <4>1 DEF AttemptRuns
    <3> HIDE DEF a
    <3>3. DOMAIN attempts = 1..Len(attempts) /\ Len(attempts) \in Nat
      BY <1>1 DEF AttemptsSound
    <3>4. attempts' \in Seq(AttemptRuns)
      BY <3>1, <3>2, <3>3
    <3> QED BY <3>1, <3>2, <3>4 DEF Kept
  <2>2. ASSUME NEW i \in DOMAIN attempts, Cont!OperatorCollect(i) \/ Cont!OperatorAbort(i)
        PROVE  attempts' = Cont!Aborted(i) \/ (Cont!Open(i) /\ attempts' = Cont!Collected(i))
    BY <2>2 DEF Cont!OperatorCollect, Cont!OperatorAbort
  <2> QED BY <1>1, <2>1, <2>2, EndedAttempt DEF OutsideStep
<1>4. AttemptsSound'
  BY <1>1, <1>2, <1>3, KeptIsSound
<1>5. ShapesSound'
  BY <1>1, <1>2 DEF ShapesSound
<1>6. \A p \in Procs : LocksSound(p)'
  BY <1>2 DEF ContinuationInv, LocksSound
<1>7. /\ Len(attempts') = Len(attempts) /\ Len(attempts') \in Nat
      /\ \A i \in DOMAIN attempts : attempts'[i].group = attempts[i].group
  BY <1>1, <1>3 DEF AttemptsSound, Kept
<1>8. \A p \in Procs : ContinuationSound(p)'
  BY <1>2, <1>3, <1>7, KnowledgeStays
<1> QED BY <1>4, <1>5, <1>6, <1>8 DEF ContinuationInv, ShapesSound

LEMMA ContinuationInitSound == Cont!Init => ContinuationInv
<1> SUFFICES ASSUME Cont!Init PROVE ContinuationInv
  OBVIOUS
<1>1. AttemptsSound
  BY DEF Cont!Init, AttemptsSound, Cont!Of
<1>2. ASSUME NEW p \in Procs PROVE LocksSound(p) /\ ContinuationSound(p)
  BY RequestAssumption DEF Cont!Init, LocksSound, ContinuationSound, Working
<1>3. \A p \in Procs : DOMAIN contJob[p] = {"group", "prior", "child"}
  BY DEF Cont!Init, Cont!NoJob
<1> QED BY <1>1, <1>2, <1>3 DEF ContinuationInv, Cont!Init

LEMMA ContinuationStep ==
    ContinuationInv /\ (Cont!Next \/ UNCHANGED <<attempts, binding, held, contPc, contJob>>) =>
        ContinuationInv'
<1>1. ASSUME ContinuationInv,
             \/ Cont!MoveState
             \/ \E i \in DOMAIN attempts : Cont!OperatorCollect(i) \/ Cont!OperatorAbort(i)
      PROVE  ContinuationInv'
  BY <1>1, OutsideKeeps DEF OutsideStep
<1>2. ASSUME ContinuationInv, NEW p \in Procs,
             \/ \E group \in Requests : Cont!Request(p, group)
             \/ Cont!TakeLock(p)
             \/ Cont!InspectBound(p) \/ Cont!NothingBound(p) \/ Cont!AbortBound(p)
             \/ Cont!InspectCorrelated(p) \/ Cont!AbortCorrelated(p) \/ Cont!InspectGroup(p)
             \/ Cont!Prepare(p) \/ Cont!Correlate(p) \/ Cont!BindParent(p) \/ Cont!BindChild(p)
             \/ Cont!Capture(p) \/ Cont!Collect(p) \/ Cont!Fail(p) \/ Cont!Crash(p)
      PROVE  ContinuationInv'
  BY <1>2, LockingKeeps, InspectingKeeps, EndingKeeps, PrepareKeeps, FillingKeeps
     DEF LockingStep, InspectingStep, EndingStep, FillingStep
<1>3. ASSUME ContinuationInv, UNCHANGED <<attempts, binding, held, contPc, contJob>>
      PROVE  ContinuationInv'
  <2>1. AttemptsSound'
    BY <1>3 DEF ContinuationInv, AttemptsSound, Spent, Cont!Of, Cont!Open, Cont!Reusable,
         Cont!Completed
  <2>2. ASSUME NEW p \in Procs PROVE LocksSound(p)'
    BY <1>3 DEF ContinuationInv, LocksSound
  <2>3. ASSUME NEW p \in Procs PROVE ContinuationSound(p)'
    BY SameCount, <1>3 DEF ContinuationInv, ContinuationSound, Spent, Cont!Of, Cont!Open,
         Cont!Reusable, Cont!Completed, Cont!Bound, Cont!Single, Cont!Interrupted
  <2> QED BY <1>3, <2>1, <2>2, <2>3 DEF ContinuationInv
<1> QED BY <1>1, <1>2, <1>3 DEF Cont!Next

LEMMA LeastMissing ==
    ASSUME ContinuationInv, NEW p \in Procs, contPc[p] = "locking"
    PROVE  \E r \in Cont!NextLock(p) : r \in contJob[p].group /\ held[r] # p /\ r \in Reacquired
<1> DEFINE R == OpToRel(<, Nat)
<1>1. LocksSound(p)
  BY DEF ContinuationInv
<1>2. Cont!Missing(p) \in SUBSET Nat /\ Cont!Missing(p) # {} /\ Cont!Missing(p) \subseteq Reacquired
  BY <1>1, RequestAssumption DEF LocksSound, Cont!Missing
<1>3. PICK r \in Cont!Missing(p) : \A s \in Cont!Missing(p) : ~ (<<s, r>> \in R)
  <2> HIDE DEF R
  <2> QED BY <1>2, NatLessThanWellFounded, WFMin DEF R
<1>4. ASSUME NEW s \in Cont!Missing(p) PROVE r <= s
  <2>1. s \in Nat /\ r \in Nat
    BY <1>2
  <2>2. ~(s < r)
    BY <1>3, <2>1 DEF OpToRel
  <2> QED BY <2>1, <2>2
<1>5. r \in Cont!NextLock(p)
  BY <1>4 DEF Cont!NextLock
<1> QED BY <1>2, <1>5 DEF Cont!Missing

LEMMA ContinuationRight ==
    ContinuationInv =>
        Cont!OneResult /\ Cont!OneOpenAttempt /\ Cont!NoLockCycle
<1> SUFFICES ASSUME ContinuationInv PROVE Cont!OneResult /\ Cont!OneOpenAttempt /\ Cont!NoLockCycle
  OBVIOUS
<1>1. /\ AttemptsSound /\ \A g : Cont!Of(g) \subseteq DOMAIN attempts
      /\ DOMAIN attempts \subseteq Nat
  BY DEF ContinuationInv, AttemptsSound, Cont!Of
<1>2. \A g \in Requests : \A i, j \in Cont!Of(g) : i < j => Spent(i)
  BY <1>1 DEF AttemptsSound
<1>3. Cont!OneResult
  <2>1. SUFFICES ASSUME NEW r \in Reacquired, NEW i \in Cont!Of({r}), NEW j \in Cont!Of({r}),
                        Cont!Reusable(i), Cont!Reusable(j), i < j
                 PROVE  FALSE
    BY <1>1 DEF Cont!OneResult
  <2>2. attempts[i].group = {r} /\ attempts[i] \in AttemptRuns
    BY <1>1, AttemptFields DEF Cont!Of
  <2>3. Cardinality({r}) = 1
    BY FS_Singleton
  <2>4. Spent(i)
    BY <1>2, <2>1, <2>2 DEF AttemptRuns
  <2> QED BY <2>1, <2>2, <2>3, <2>4 DEF Spent
<1>4. Cont!OneOpenAttempt
  <2>1. \A g \in Requests : \A i, j \in Cont!Of(g) : Cont!Open(i) /\ Cont!Open(j) => i = j
    BY <1>1, <1>2 DEF Spent
  <2>2. \A g \in Requests : \A i, j \in Cont!Of(g) : attempts[j].parent = i => ~Cont!Open(i)
    BY <1>1, <1>2 DEF Spent, AttemptsSound
  <2> QED BY <2>1, <2>2 DEF Cont!OneOpenAttempt
<1>5. Cont!NoLockCycle
  <2>1. SUFFICES ASSUME NEW p \in Procs, NEW q \in Procs, p # q, contPc[p] = "locking", contPc[q]
            = "locking",
                        \A r \in Cont!NextLock(p) : held[r] = q,
                        \A r \in Cont!NextLock(q) : held[r] = p
                 PROVE  FALSE
    BY DEF Cont!NoLockCycle, Cont!At
  <2>2. PICK r \in Reacquired : r \in contJob[p].group /\ held[r] = q
    BY <2>1, LeastMissing
  <2>3. PICK s \in Reacquired : s \in contJob[q].group /\ held[s] = p
    BY <2>1, LeastMissing
  <2>4. LocksSound(p) /\ LocksSound(q)
    BY DEF ContinuationInv
  <2>5. r \in contJob[q].group /\ s \in contJob[p].group
    BY <2>2, <2>3, <2>4 DEF LocksSound
  <2>6. r < s /\ s < r
    BY <2>1, <2>2, <2>3, <2>4, <2>5 DEF LocksSound
  <2> QED BY <2>2, <2>3, <2>6, RequestAssumption
<1> QED BY <1>3, <1>4, <1>5

-----------------------------------------------------------------------------
(* Findings                                                                 *)

(* What a copy says of the candidates of a completed Run.                   *)
CopySound(c) ==
    /\ c.run \in completed
    /\ c.kind = "legacy" =>
          c.mark \notin Misbound \cup Misshapen /\ {o.mark : o \in Find!Originals(c.run)} = {c.mark}
    /\ c.kind = "rematerialized" => Cardinality(Find!Originals(c.run)) # 1

ProposalsSound ==
    /\ IsFiniteSet(proposals)
    /\ \A q \in proposals :
          /\ q = [kind |-> q.kind, run |-> q.run, mark |-> q.mark, at |-> 0]
          /\ q.kind \in {"original", "legacy", "rematerialized"}
          /\ q.kind # "original" => CopySound(q)
          /\ q.kind = "rematerialized" =>
                \A other \in proposals : other.kind = q.kind /\ other.run = q.run => other = q

SearchSound(p) ==
    LET j == findJob[p] IN
    /\ findPc[p] \in {"idle", "exact", "children", "legacy", "rematerialize", "persist"}
    /\ findPc[p] # "idle" =>
              /\ DOMAIN j = {"run", "pass", "left", "found", "source", "note", "copy"}
              /\ j.pass \in {"try", "classify", "retry"}
    /\ findPc[p] = "children" => j.run \in completed /\ Find!Originals(j.run) = {}
    /\ findPc[p] = "legacy" => j.pass # "classify"
    /\ findPc[p] = "rematerialize" => j.run \in completed /\ Cardinality(Find!Originals(j.run)) # 1
    /\ findPc[p] = "persist" =>
              /\ j.copy = Find!Copy(j.copy.kind, j.copy.run, j.copy.mark)
              /\ j.copy.kind \in {"legacy", "rematerialized"} /\ CopySound(j.copy)

FindingInv ==
    /\ DOMAIN findPc = Procs /\ DOMAIN findJob = Procs /\ stateMoves \in Nat
    /\ ProposalsSound
    /\ \A p \in Procs : SearchSound(p)

LEMMA AtMostTwo ==
    ASSUME NEW S, NEW a, NEW b, S \subseteq {a, b}
    PROVE  IsFiniteSet(S) /\ Cardinality(S) \in Nat /\ Cardinality(S) <= 2
<1>1. IsFiniteSet({a}) /\ Cardinality({a}) = 1
  BY FS_Singleton
<1>2. /\ IsFiniteSet({a} \cup {b}) /\ Cardinality({a} \cup {b}) <= 2
      /\ Cardinality({a} \cup {b}) \in Nat
  <2>1. /\ IsFiniteSet({a} \cup {b})
        /\ Cardinality({a} \cup {b}) = IF b \in {a} THEN 1 ELSE 1 + 1
    BY <1>1, FS_AddElement, Zenon
  <2>2. Cardinality({a} \cup {b}) \in {1, 2}
    BY <2>1
  <2> QED BY <2>1, <2>2
<1>3. S \in SUBSET ({a} \cup {b})
  <2>1. \A x \in S : x \in {a} \cup {b}
    OBVIOUS
  <2> QED BY <2>1
<1>4. IsFiniteSet(S) /\ Cardinality(S) <= Cardinality({a} \cup {b}) /\ Cardinality(S) \in Nat
  BY <1>2, <1>3, FS_Subset, FS_CardinalityType
<1> QED BY <1>2, <1>4

LEMMA MoreThanOne ==
    ASSUME NEW S, IsFiniteSet(S), Cardinality(S) # 1
    PROVE  S = {} \/ \E a, b \in S : a # b
<1>1. ~ \E x : S = {x}
  BY FS_Singleton
<1> QED BY <1>1

(* However many copies the bounded lookup reads, it tells whether a        *)
(* completed Run has no candidate, one, or several.                        *)
LEMMA PageTells ==
    ASSUME ProposalsSound, NEW r \in completed, NEW m \in Find!Matches(r)
    PROVE  /\ IsFiniteSet(m) /\ m \subseteq Find!Originals(r)
           /\ m = {} => Find!Originals(r) = {}
           /\ Cardinality(m) = 1 => Find!Originals(r) = m
           /\ Cardinality(m) # 1 => Cardinality(Find!Originals(r)) # 1
<1>1. PICK page \in Find!Pages(r) : m = Find!Unrecovered(page)
  BY DEF Find!Matches
<1>2. page \subseteq Find!Rows(r)
  BY DEF Find!Pages, Find!kSubset
<1>3. m \subseteq Find!Originals(r) /\ m = page \cap Find!Originals(r)
  BY <1>1, <1>2 DEF Find!Unrecovered, Find!Originals, Find!Rows
<1>4. /\ IsFiniteSet(proposals) /\ IsFiniteSet(Find!Originals(r)) /\ IsFiniteSet(Find!Rows(r))
      /\ IsFiniteSet(m)
  BY <1>3, FS_Subset DEF ProposalsSound, Find!Originals, Find!Rows
<1>5. page = Find!Rows(r) => m = Find!Originals(r)
  BY <1>3 DEF Find!Originals, Find!Rows
<1>6. \A q \in Find!Rows(r) \ Find!Originals(r) :
          q \in proposals /\ q.kind # "original" /\ CopySound(q) /\ q.run = r
  BY DEF Find!Rows, Find!Originals, ProposalsSound
<1>7. CASE Find!Originals(r) = {}
  BY <1>3, <1>4, <1>7, FS_EmptySet
<1>8. ASSUME NEW o, Find!Originals(r) = {o}
      PROVE  page = Find!Rows(r)
  <2>1. \A q \in Find!Rows(r) \ Find!Originals(r) : q
        = [kind |-> "legacy", run |-> r, mark |-> o.mark, at |-> 0]
    <3>1. SUFFICES ASSUME NEW q \in Find!Rows(r) \ Find!Originals(r)
                   PROVE  q = [kind |-> "legacy", run |-> r, mark |-> o.mark, at |-> 0]
      OBVIOUS
    <3>2. Cardinality(Find!Originals(r)) = 1
      BY <1>8, FS_Singleton
    <3>3. q.kind = "legacy" /\ q.run = r
      BY <1>6, <3>2 DEF CopySound, ProposalsSound
    <3>4. {x.mark : x \in {o}} = {q.mark}
      BY <1>6, <1>8, <3>3 DEF CopySound
    <3>5. q.mark = o.mark
      BY <3>4
    <3> QED BY <1>6, <3>3, <3>5 DEF ProposalsSound
  <2>2. Find!Rows(r) \subseteq {o, [kind |-> "legacy", run |-> r, mark |-> o.mark, at |-> 0]}
    BY <1>8, <2>1
  <2>3. Cardinality(Find!Rows(r)) <= 2 /\ Cardinality(Find!Rows(r)) \in Nat
    BY <2>2, AtMostTwo
  <2>4. Cardinality(Find!Rows(r)) <= RowLimit
    BY <2>3, CandidateAssumption
  <2> QED BY SameCount, <2>4 DEF Find!Pages
<1>9. CASE \E o : Find!Originals(r) = {o}
  <2>1. PICK o : Find!Originals(r) = {o}
    BY <1>9
  <2>2. m = Find!Originals(r)
    BY <1>5, <1>8, <2>1
  <2> QED BY <1>4, <2>1, <2>2
<1>10. ASSUME NEW a \in Find!Originals(r), NEW b \in Find!Originals(r), a # b
       PROVE  m # {} /\ ~ \E x : m = {x}
  <2>1. CASE page = Find!Rows(r)
    BY <1>5, <1>10, <2>1
  <2>2. CASE page # Find!Rows(r)
    <3>1. Cardinality(page) = RowLimit
      BY SameCount, <2>2 DEF Find!Pages, Find!kSubset
    <3>2. \A q \in Find!Rows(r) \ Find!Originals(r) : q.kind = "rematerialized"
      <4>1. \A q \in Find!Rows(r) \ Find!Originals(r) :
                q.kind = "legacy" => {x.mark : x \in Find!Originals(r)} = {q.mark}
        BY <1>6 DEF CopySound
      <4>2. a = [kind |-> a.kind, run |-> a.run, mark |-> a.mark, at |-> 0]
            /\ b = [kind |-> b.kind, run |-> b.run, mark |-> b.mark, at |-> 0]
        BY DEF Find!Originals, ProposalsSound
      <4>3. a.kind = b.kind /\ a.run = b.run
        BY DEF Find!Originals
      <4>4. a.mark # b.mark
        BY <1>10, <4>2, <4>3
      <4> QED BY <1>6, <4>1, <4>4 DEF ProposalsSound
    <3>3. \A q, s \in Find!Rows(r) \ Find!Originals(r) : q = s
      BY <1>6, <3>2 DEF ProposalsSound
    <3>4. PICK c : Find!Rows(r) \ Find!Originals(r) \subseteq {c}
      BY <3>3
    <3>5. ASSUME NEW x, m \subseteq {x} PROVE FALSE
      <4>1. page \subseteq {x, c}
        BY <1>2, <1>3, <3>4, <3>5
      <4>2. Cardinality(page) <= 2 /\ Cardinality(page) \in Nat
        BY <4>1, AtMostTwo
      <4> QED BY <3>1, <4>2, CandidateAssumption
    <3> QED BY <3>5
  <2> QED BY <2>1, <2>2
<1>11. CASE \E a, b \in Find!Originals(r) : a # b
  <2>1. m # {} /\ ~ \E x : m = {x}
    BY <1>10, <1>11
  <2>2. Cardinality(m) # 1
    BY <1>4, <2>1, FS_Singleton
  <2>3. Cardinality(Find!Originals(r)) # 1
    BY <1>4, <1>11, FS_Singleton
  <2> QED BY <1>3, <1>4, <2>1, <2>2, <2>3
<1>12. Find!Originals(r) = {} \/ (\E o : Find!Originals(r) = {o})
       \/ \E a, b \in Find!Originals(r) : a # b
  OBVIOUS
<1> QED BY <1>7, <1>9, <1>11, <1>12

(* The candidates of the Runs that have completed stay as they are.        *)
Settled == completed \subseteq completed'
    /\ \A r \in completed : Find!Originals(r)' = Find!Originals(r)

LEMMA CopyStays == ASSUME NEW c, CopySound(c), Settled PROVE CopySound(c)'
<1>1. c.run \in completed /\ Find!Originals(c.run)' = Find!Originals(c.run)
  BY DEF CopySound, Settled
<1> QED BY <1>1 DEF CopySound, Settled

LEMMA SearchStays ==
    ASSUME NEW p \in Procs, SearchSound(p), Settled, findPc'[p] = findPc[p], findJob'[p]
           = findJob[p]
    PROVE  SearchSound(p)'
<1>1. PICK j : j = findJob[p]
  OBVIOUS
<1>2. PICK c, r : c = j.copy /\ r = j.run
  OBVIOUS
<1>3. findPc[p] = "persist" => CopySound(c)'
  BY <1>1, <1>2, CopyStays DEF SearchSound
<1>4. findPc[p] \in {"children", "rematerialize"}
      => r \in completed' /\ Find!Originals(r)' = Find!Originals(r)
  BY <1>1, <1>2 DEF SearchSound, Settled
<1> QED BY <1>1, <1>2, <1>3, <1>4 DEF SearchSound

LEMMA ProposalsStay ==
    ASSUME ProposalsSound, Settled, proposals' = proposals
    PROVE  ProposalsSound'
BY CopyStays DEF ProposalsSound

-----------------------------------------------------------------------------
(* Each step                                                                *)

JobFields == {"run", "pass", "left", "found", "source", "note", "copy"}

LEMMA StepTo ==
    ASSUME FindingInv, NEW p \in Procs, NEW at, NEW j, Find!Step(p, at, j)
    PROVE  /\ findPc'[p] = at /\ findJob'[p] = j /\ DOMAIN findPc' = Procs
                /\ DOMAIN findJob' = Procs
           /\ \A q \in Procs \ {p} : findPc'[q] = findPc[q] /\ findJob'[q] = findJob[q]
BY DEF FindingInv, Find!Step

(* A step of a search that stores nothing.                                 *)
LEMMA SearchGoesOn ==
    ASSUME FindingInv, NEW p \in Procs, NEW at, NEW j, Find!Step(p, at, j),
           UNCHANGED <<completed, proposals, stateMoves>>,
           at \in {"idle", "exact", "children", "legacy", "rematerialize", "persist"},
           at # "idle" => DOMAIN j = JobFields /\ j.pass \in {"try", "classify", "retry"},
           at = "children" => j.run \in completed /\ Find!Originals(j.run) = {},
           at = "legacy" => j.pass # "classify",
           at = "rematerialize" => j.run \in completed /\ Cardinality(Find!Originals(j.run)) # 1,
           at = "persist" =>
               /\ j.copy = Find!Copy(j.copy.kind, j.copy.run, j.copy.mark)
               /\ j.copy.kind \in {"legacy", "rematerialized"} /\ CopySound(j.copy)
    PROVE  FindingInv'
<1>1. /\ findPc'[p] = at /\ findJob'[p] = j /\ DOMAIN findPc' = Procs /\ DOMAIN findJob' = Procs
      /\ \A q \in Procs \ {p} : findPc'[q] = findPc[q] /\ findJob'[q] = findJob[q]
  BY StepTo
<1>2. Settled
  BY DEF Settled, Find!Originals
<1>3. ProposalsSound' /\ stateMoves' \in Nat
  BY <1>2, ProposalsStay DEF FindingInv
<1>4. \A q \in Procs \ {p} : SearchSound(q)'
  BY <1>1, <1>2, SearchStays DEF FindingInv
<1>5. SearchSound(p)'
  BY <1>1 DEF SearchSound, JobFields, CopySound, Find!Originals
<1> QED BY <1>1, <1>3, <1>4, <1>5 DEF FindingInv

(* Where a lookup ends without a candidate to take.                        *)
LEMMA FallGoesOn ==
    ASSUME FindingInv, NEW p \in Procs, NEW outcome, Find!Fall(p, outcome), findPc[p] # "idle",
           UNCHANGED <<completed, proposals, stateMoves>>,
           findJob[p].pass = "classify" => Cardinality(Find!Originals(findJob[p].run)) # 1
    PROVE  FindingInv'
<1>1. DOMAIN findJob[p] = JobFields /\ findJob[p].pass \in {"try", "classify", "retry"}
  BY DEF FindingInv, SearchSound, JobFields
<1>2. CASE Find!Refuse(p)
  BY <1>2, SearchGoesOn DEF Find!Refuse
<1>3. CASE Find!Step(p, "exact", [findJob[p] EXCEPT !.pass = "classify", !.found = {}])
  <2> DEFINE j == [findJob[p] EXCEPT !.pass = "classify", !.found = {}]
  <2>1. DOMAIN j = JobFields /\ j.pass = "classify"
    BY <1>1 DEF JobFields
  <2> HIDE DEF j
  <2> QED BY <1>3, <2>1, SearchGoesOn DEF j
<1>4. CASE /\ findJob[p].pass = "classify" /\ Find!CanonicalResult(findJob[p].run)
           /\ Find!Step(p, "rematerialize", [findJob[p] EXCEPT !.note = outcome])
  <2> DEFINE j == [findJob[p] EXCEPT !.note = outcome]
  <2>1. DOMAIN j = JobFields /\ j.pass = findJob[p].pass /\ j.run = findJob[p].run
    BY <1>1 DEF JobFields
  <2>2. findJob[p].run \in completed
    BY <1>4 DEF Find!CanonicalResult, Find!Eligible
  <2> HIDE DEF j
  <2>3. Find!Step(p, "rematerialize", j)
    BY <1>4 DEF j
  <2> QED BY <1>1, <1>4, <2>1, <2>2, <2>3, SearchGoesOn
<1> QED BY <1>1, <1>2, <1>3, <1>4 DEF Find!Fall

LEMMA FoundGoesOn ==
    ASSUME FindingInv, NEW p \in Procs, NEW r, Find!Found(p, r), findPc[p] # "idle",
           UNCHANGED <<completed, proposals, stateMoves>>
    PROVE  FindingInv'
<1>1. DOMAIN findJob[p] = JobFields /\ findJob[p].pass \in {"try", "classify", "retry"}
  BY DEF FindingInv, SearchSound, JobFields
<1>2. CASE findJob[p].pass = "classify"
  <2> DEFINE j == [findJob[p] EXCEPT !.pass = "retry", !.found = {}]
  <2>1. DOMAIN j = JobFields /\ j.pass = "retry" /\ Find!Step(p, "exact", j)
    BY <1>1, <1>2 DEF JobFields, Find!Found
  <2> HIDE DEF j
  <2> QED BY <2>1, SearchGoesOn
<1>3. CASE findJob[p].pass # "classify"
  <2> DEFINE j == [findJob[p] EXCEPT !.source = r, !.found = {}]
  <2>1. DOMAIN j = JobFields /\ j.pass = findJob[p].pass /\ Find!Step(p, "legacy", j)
    BY <1>1, <1>3 DEF JobFields, Find!Found
  <2> HIDE DEF j
  <2> QED BY <1>1, <1>3, <2>1, SearchGoesOn
<1> QED BY <1>2, <1>3

LookupStep(p) ==
    \/ \E r \in FindingRuns : Find!Recover(p, r)
    \/ Find!Exact(p) \/ Find!LookAtChild(p) \/ Find!ChooseChild(p)

LEMMA LookupKeeps ==
    ASSUME FindingInv, NEW p \in Procs, LookupStep(p)
    PROVE  FindingInv'
<1>1. /\ UNCHANGED <<completed, proposals, stateMoves>> /\ ProposalsSound /\ SearchSound(p)
  BY DEF LookupStep, Find!Recover, Find!Exact, Find!LookAtChild, Find!ChooseChild, FindingInv
<1>2. findPc[p] # "idle"
      => DOMAIN findJob[p] = JobFields /\ findJob[p].pass \in {"try", "classify", "retry"}
  BY <1>1 DEF SearchSound, JobFields
<1>3. CASE Find!Refuse(p)
  BY <1>1, <1>3, SearchGoesOn DEF Find!Refuse
<1>4. ASSUME NEW r \in FindingRuns, Find!Recover(p, r) PROVE FindingInv'
  <2> DEFINE j == [run |-> r, pass |-> "try", left |-> {}, found |-> {},
                   source |-> None, note |-> None, copy |-> None]
  <2>1. DOMAIN j = JobFields /\ j.pass = "try" /\ Find!Step(p, "exact", j)
    BY <1>4 DEF JobFields, Find!Recover
  <2> HIDE DEF j
  <2> QED BY <1>1, <2>1, SearchGoesOn
<1>5. CASE Find!Exact(p)
  <2>1. PICK m \in Find!Matches(findJob[p].run) :
          \/ Find!Refuse(p)
          \/ m = {} /\ Find!Eligible(findJob[p].run) /\ Find!Fall(p, "ambiguous")
          \/ /\ m = {} /\ Find!Eligible(findJob[p].run)
             /\ Find!Step(p, "children", [findJob[p] EXCEPT !.left = Find!Children(findJob[p].run)])
          \/ Find!Found(p, findJob[p].run)
          \/ findJob[p].pass = "classify" /\ m # {} /\ Cardinality(m) > 1
               /\ Find!Fall(p, "ambiguous")
    BY SameCount, <1>5 DEF Find!Exact
  <2>2. findPc[p] # "idle"
    BY <1>5 DEF Find!Exact
  <2>3. CASE m = {} /\ Find!Eligible(findJob[p].run)
    <3>1. findJob[p].run \in completed /\ Find!Originals(findJob[p].run) = {}
      BY <1>1, <2>3, PageTells DEF Find!Eligible
    <3>2. Cardinality(Find!Originals(findJob[p].run)) # 1
      BY <3>1, FS_EmptySet
    <3>3. CASE Find!Step(p, "children", [findJob[p] EXCEPT !.left = Find!Children(findJob[p].run)])
      <4> DEFINE j == [findJob[p] EXCEPT !.left = Find!Children(findJob[p].run)]
      <4>1. DOMAIN j = JobFields /\ j.pass = findJob[p].pass /\ j.run = findJob[p].run
        BY <1>2, <2>2 DEF JobFields
      <4> HIDE DEF j
      <4>2. Find!Step(p, "children", j)
        BY <3>3 DEF j
      <4> QED BY <1>1, <1>2, <2>2, <3>1, <4>1, <4>2, SearchGoesOn
    <3> QED BY <1>1, <1>3, <2>1, <2>2, <3>2, <3>3, FallGoesOn, FoundGoesOn
  <2>4. CASE Cardinality(m) > 1 /\ Find!Fall(p, "ambiguous") /\ findJob[p].pass = "classify"
    <3>1. CASE findJob[p].run \in completed
      <4>1. Cardinality(Find!Originals(findJob[p].run)) # 1
        BY <1>1, <2>4, <3>1, PageTells
      <4> QED BY <1>1, <2>2, <2>4, <4>1, FallGoesOn
    <3>2. CASE findJob[p].run \notin completed
      BY <1>3, <2>4, <3>2 DEF Find!Fall, Find!CanonicalResult, Find!Eligible
    <3> QED BY <3>1, <3>2
  <2> QED BY <1>1, <1>3, <2>1, <2>2, <2>3, <2>4, FoundGoesOn
<1>6. ASSUME findPc[p] = "children" PROVE Cardinality(Find!Originals(findJob[p].run)) # 1
  BY <1>1, <1>6, FS_EmptySet DEF SearchSound
<1>7. CASE Find!LookAtChild(p)
  <2>1. findPc[p] = "children"
    BY <1>7 DEF Find!LookAtChild
  <2>2. PICK c, m : \/ Find!Fall(p, "ambiguous")
                    \/ Find!Step(p, "children",
                         [findJob[p] EXCEPT !.left = @ \ {c}, !.found = @ \cup m])
    BY <1>7 DEF Find!LookAtChild
  <2>3. CASE Find!Step(p, "children", [findJob[p] EXCEPT !.left = @ \ {c}, !.found = @ \cup m])
    <3> DEFINE j == [findJob[p] EXCEPT !.left = @ \ {c}, !.found = @ \cup m]
    <3>1. DOMAIN j = JobFields /\ j.pass = findJob[p].pass /\ j.run = findJob[p].run
      BY <1>2, <2>1 DEF JobFields
    <3> HIDE DEF j
    <3>2. Find!Step(p, "children", j)
      BY <2>3 DEF j
    <3>3. j.run \in completed /\ Find!Originals(j.run) = {}
      BY <1>1, <2>1, <3>1 DEF SearchSound
    <3> QED BY <1>1, <1>2, <2>1, <3>1, <3>2, <3>3, SearchGoesOn
  <2> QED BY <1>1, <1>6, <2>1, <2>2, <2>3, FallGoesOn
<1>8. CASE Find!ChooseChild(p)
  <2>1. findPc[p] = "children"
    BY <1>8 DEF Find!ChooseChild
  <2>2. Find!Fall(p, "missing") \/ Find!Fall(p, "ambiguous") \/ Find!Refuse(p)
        \/ \E r : Find!Found(p, r)
    BY <1>8 DEF Find!ChooseChild
  <2> QED BY <1>1, <1>3, <1>6, <2>1, <2>2, FallGoesOn, FoundGoesOn
<1> QED BY <1>4, <1>5, <1>7, <1>8 DEF LookupStep

MakingStep(p) == Find!RecoverLegacy(p) \/ Find!Rematerialize(p)

LEMMA MakingKeeps ==
    ASSUME FindingInv, NEW p \in Procs, MakingStep(p)
    PROVE  FindingInv'
<1>1. /\ UNCHANGED <<completed, proposals, stateMoves>> /\ ProposalsSound /\ SearchSound(p)
      /\ findPc[p] # "idle"
  BY DEF MakingStep, Find!RecoverLegacy, Find!Rematerialize, FindingInv
<1>2. DOMAIN findJob[p] = JobFields /\ findJob[p].pass \in {"try", "classify", "retry"}
  BY <1>1 DEF SearchSound, JobFields
<1>3. CASE Find!Refuse(p)
  BY <1>1, <1>3, SearchGoesOn DEF Find!Refuse
<1>4. ASSUME NEW c, Find!Step(p, "persist", [findJob[p] EXCEPT !.copy = c]), c
             = Find!Copy(c.kind, c.run, c.mark),
             c.kind \in {"legacy", "rematerialized"}, CopySound(c)
      PROVE  FindingInv'
  <2> DEFINE j == [findJob[p] EXCEPT !.copy = c]
  <2>1. DOMAIN j = JobFields /\ j.pass = findJob[p].pass /\ j.copy = c
    BY <1>2 DEF JobFields
  <2> HIDE DEF j
  <2>2. Find!Step(p, "persist", j)
    BY <1>4 DEF j
  <2> QED BY <1>1, <1>2, <1>4, <2>1, <2>2, SearchGoesOn
<1>5. CASE Find!RecoverLegacy(p)
  <2>1. PICK r : r = findJob[p].source
    OBVIOUS
  <2>2. CASE ~Find!Eligible(r)
    BY <1>3, <1>5, <2>1, <2>2 DEF Find!RecoverLegacy
  <2>3. CASE Find!Eligible(r)
    <3>1. PICK m \in Find!Matches(r) :
            \/ Find!Fall(p, "ambiguous")
            \/ Find!Refuse(p)
            \/ /\ Cardinality(m) = 1 /\ Find!Inspected(CHOOSE f \in m : TRUE)
               /\ Find!Step(p, "persist",
                            [findJob[p] EXCEPT !.copy
                                = Find!Copy("legacy", r, (CHOOSE f \in m : TRUE).mark)])
      BY SameCount, <1>5, <2>1, <2>3 DEF Find!RecoverLegacy
    <3>2. CASE Find!Fall(p, "ambiguous")
      <4>1. findJob[p].pass # "classify"
        BY <1>1, <1>5 DEF Find!RecoverLegacy, SearchSound
      <4> QED BY <1>1, <3>2, <4>1, FallGoesOn
    <3>3. CASE /\ Cardinality(m) = 1 /\ Find!Inspected(CHOOSE f \in m : TRUE)
               /\ Find!Step(p, "persist",
                            [findJob[p] EXCEPT !.copy
                                = Find!Copy("legacy", r, (CHOOSE f \in m : TRUE).mark)])
      <4>1. IsFiniteSet(m) /\ Find!Originals(r) = m /\ r \in completed
        BY <1>1, <2>3, <3>3, PageTells DEF Find!Eligible
      <4>2. PICK q : m = {q}
        BY <3>3, <4>1, FS_Singleton
      <4>3. (CHOOSE f \in m : TRUE) = q
        BY <4>2
      <4> DEFINE c == Find!Copy("legacy", r, q.mark)
      <4>4. /\ c.kind = "legacy" /\ c.run = r /\ c.mark = q.mark
            /\ c = Find!Copy(c.kind, c.run, c.mark)
        BY DEF Find!Copy
      <4> HIDE DEF c
      <4>5. {o.mark : o \in Find!Originals(r)} = {q.mark}
        BY <4>1, <4>2
      <4>6. CopySound(c)
        BY <3>3, <4>1, <4>3, <4>4, <4>5 DEF CopySound, Find!Inspected, Find!Shaped
      <4>7. Find!Step(p, "persist", [findJob[p] EXCEPT !.copy = c])
        BY <3>3, <4>3 DEF c
      <4> QED BY <1>4, <4>4, <4>6, <4>7
    <3> QED BY <1>3, <3>1, <3>2, <3>3
  <2> QED BY <2>2, <2>3
<1>6. CASE Find!Rematerialize(p)
  <2>1. PICK r, n : r = findJob[p].run /\ n = findJob[p].note
    OBVIOUS
  <2>2. CASE Find!Step(p, "persist", [findJob[p] EXCEPT !.copy = Find!Copy("rematerialized", r, n)])
    <3> DEFINE c == Find!Copy("rematerialized", r, n)
    <3>1. c.kind = "rematerialized" /\ c.run = r /\ c = Find!Copy(c.kind, c.run, c.mark)
      BY DEF Find!Copy
    <3> HIDE DEF c
    <3>2. r \in completed /\ Cardinality(Find!Originals(r)) # 1
      BY <1>1, <1>6, <2>1 DEF Find!Rematerialize, SearchSound
    <3>3. CopySound(c) /\ Find!Step(p, "persist", [findJob[p] EXCEPT !.copy = c])
      BY <2>2, <3>1, <3>2 DEF CopySound, c
    <3> QED BY <1>4, <3>1, <3>3
  <2> QED BY <1>3, <1>6, <2>1, <2>2 DEF Find!Rematerialize
<1> QED BY <1>5, <1>6 DEF MakingStep

LEMMA PersistKeeps ==
    ASSUME FindingInv, NEW p \in Procs, Find!Persist(p)
    PROVE  FindingInv'
<1>1. /\ findPc[p] = "persist" /\ UNCHANGED <<completed, stateMoves>> /\ ProposalsSound
      /\ SearchSound(p)
      /\ stateMoves \in Nat
  BY DEF Find!Persist, FindingInv
<1>2. PICK c : c = findJob[p].copy
  OBVIOUS
<1>3. /\ c = Find!Copy(c.kind, c.run, c.mark) /\ c.kind \in {"legacy", "rematerialized"}
      /\ CopySound(c)
  BY <1>1, <1>2 DEF SearchSound
<1>4. \/ proposals' = proposals
      \/ /\ proposals' = proposals \cup {c}
         /\ ~ \E q \in proposals : Find!SameIdentity(q, c)
  <2>1. CASE /\ Find!HeadHolds
             /\ ~ \E q \in proposals : Find!SameIdentity(q, [c EXCEPT !.at = stateMoves % 2])
    <3>1. stateMoves % 2 = 0
      BY <1>1, <2>1 DEF Find!HeadHolds, Find!Moved
    <3>2. [c EXCEPT !.at = stateMoves % 2] = c
      BY <1>3, <3>1 DEF Find!Copy
    <3>3. proposals' = proposals \cup {[c EXCEPT !.at = stateMoves % 2]}
      BY <1>2, <2>1 DEF Find!Persist
    <3> QED BY <2>1, <3>2, <3>3
  <2>2. CASE ~ (/\ Find!HeadHolds
                /\ ~ \E q \in proposals : Find!SameIdentity(q, [c EXCEPT !.at = stateMoves % 2]))
    BY <1>2, <2>2 DEF Find!Persist
  <2> QED BY <2>1, <2>2
<1>5. Settled
  BY <1>1, <1>3, <1>4 DEF Settled, Find!Originals
<1>6. CopySound(c)' /\ \A q \in proposals : CopySound(q) => CopySound(q)'
  BY <1>3, <1>5, CopyStays
<1>7. ProposalsSound'
  <2>1. CASE proposals' = proposals
    BY <1>1, <1>5, <2>1, ProposalsStay
  <2>2. CASE /\ proposals' = proposals \cup {c}
             /\ ~ \E q \in proposals : Find!SameIdentity(q, c)
    <3>1. IsFiniteSet(proposals')
      BY <1>1, <2>2, FS_AddElement DEF ProposalsSound
    <3>2. c.kind = "rematerialized" =>
            ~ \E q \in proposals : q.kind = c.kind /\ q.run = c.run
      BY <2>2 DEF Find!SameIdentity
    <3>3. c = [kind |-> c.kind, run |-> c.run, mark |-> c.mark, at |-> 0]
      BY <1>3 DEF Find!Copy
    <3>4. \A q \in proposals : q.kind = "rematerialized" => \A other \in proposals' :
            other.kind = q.kind /\ other.run = q.run => other = q
      BY <1>1, <2>2, <3>2 DEF ProposalsSound
    <3>5. c.kind = "rematerialized" => \A other \in proposals' :
            other.kind = c.kind /\ other.run = c.run => other = c
      BY <2>2, <3>2
    <3>6. \A q \in proposals :
            /\ q = [kind |-> q.kind, run |-> q.run, mark |-> q.mark, at |-> 0]
            /\ q.kind \in {"original", "legacy", "rematerialized"}
            /\ q.kind # "original" => CopySound(q)'
      BY <1>1, <1>6 DEF ProposalsSound
    <3> HIDE DEF Find!Persist
    <3> QED BY <1>3, <1>6, <2>2, <3>1, <3>3, <3>4, <3>5, <3>6 DEF ProposalsSound
  <2> QED BY <1>4, <2>1, <2>2
<1>8. /\ findPc'[p] = "idle" /\ DOMAIN findPc' = Procs /\ DOMAIN findJob' = Procs
      /\ \A q \in Procs \ {p} : findPc'[q] = findPc[q] /\ findJob'[q] = findJob[q]
  BY StepTo DEF Find!Persist, Find!Refuse
<1>9. \A q \in Procs \ {p} : SearchSound(q)'
  BY <1>5, <1>8, SearchStays DEF FindingInv
<1>10. SearchSound(p)'
  BY <1>8 DEF SearchSound
<1> QED BY <1>1, <1>7, <1>8, <1>9, <1>10 DEF FindingInv

WorkspaceStep ==
    \/ Find!Move
    \/ \E r \in FindingRuns : Find!Propose(r) \/ Find!Complete(r) \/ Find!LoseMaterial(r)

LEMMA WorkspaceKeeps ==
    ASSUME FindingInv, WorkspaceStep
    PROVE  FindingInv'
<1>1. findPc' = findPc /\ findJob' = findJob /\ ProposalsSound /\ stateMoves' \in Nat
  BY DEF WorkspaceStep, Find!Move, Find!Propose, Find!Complete, Find!LoseMaterial, FindingInv
<1>2. CASE UNCHANGED proposals /\ completed \subseteq completed'
  <2>1. Settled
    BY <1>2 DEF Settled, Find!Originals
  <2>2. ProposalsSound' /\ \A p \in Procs : SearchSound(p)'
    BY <1>1, <1>2, <2>1, ProposalsStay, SearchStays DEF FindingInv
  <2> QED BY <1>1, <2>2 DEF FindingInv
<1>3. ASSUME NEW r \in FindingRuns, Find!Propose(r) PROVE FindingInv'
  <2>1. PICK o \in Candidates : o.run = r /\ proposals' = proposals \cup {o}
    BY <1>3 DEF Find!Propose
  <2>2. /\ r \notin completed /\ completed' = completed /\ o.kind = "original"
        /\ o = [kind |-> o.kind, run |-> o.run, mark |-> o.mark, at |-> 0]
    BY <1>3, CandidateAssumption DEF Find!Propose
  <2>3. Settled
    BY <2>1, <2>2 DEF Settled, Find!Originals
  <2>4. \A q \in proposals : CopySound(q) => CopySound(q)'
    BY <2>3, CopyStays
  <2>5. IsFiniteSet(proposals')
    BY <1>1, <2>1, FS_AddElement DEF ProposalsSound
  <2>6. \A q \in proposals :
          /\ q = [kind |-> q.kind, run |-> q.run, mark |-> q.mark, at |-> 0]
          /\ q.kind \in {"original", "legacy", "rematerialized"}
          /\ q.kind # "original" => CopySound(q)'
          /\ q.kind = "rematerialized" =>
                \A other \in proposals : other.kind = q.kind /\ other.run = q.run => other = q
    BY <1>1, <2>4 DEF ProposalsSound
  <2>7. ProposalsSound'
    BY <2>1, <2>2, <2>5, <2>6 DEF ProposalsSound
  <2>8. \A p \in Procs : SearchSound(p)'
    BY <1>1, <2>3, SearchStays DEF FindingInv
  <2> QED BY <1>1, <2>7, <2>8 DEF FindingInv
<1> QED BY <1>2, <1>3 DEF WorkspaceStep, Find!Move, Find!Complete, Find!LoseMaterial

LEMMA FindingInitSound == Find!Init => FindingInv
<1> SUFFICES ASSUME Find!Init PROVE FindingInv
  OBVIOUS
<1>1. proposals \subseteq Candidates
  BY DEF Find!Init
<1>2. IsFiniteSet(proposals)
  BY <1>1, FS_Subset, CandidateAssumption
<1>3. ProposalsSound
  <2>1. \A q \in proposals :
          q.kind = "original" /\ q = [kind |-> q.kind, run |-> q.run, mark |-> q.mark, at |-> 0]
    BY <1>1, CandidateAssumption
  <2> QED BY <1>2, <2>1 DEF ProposalsSound
<1>4. \A p \in Procs : SearchSound(p)
  BY DEF Find!Init, SearchSound
<1> QED BY <1>3, <1>4 DEF FindingInv, Find!Init

LEMMA FindingStep ==
    ASSUME FindingInv, Find!Next \/ UNCHANGED <<completed, proposals, stateMoves, findPc, findJob>>
    PROVE  FindingInv'
<1>1. CASE UNCHANGED <<completed, proposals, stateMoves, findPc, findJob>>
  <2>1. Settled
    BY <1>1 DEF Settled, Find!Originals
  <2> QED BY <1>1, <2>1, ProposalsStay, SearchStays DEF FindingInv
<1>2. CASE \E p \in Procs : \/ \E r \in FindingRuns : Find!Recover(p, r)
                            \/ Find!Exact(p) \/ Find!LookAtChild(p) \/ Find!ChooseChild(p)
                            \/ Find!RecoverLegacy(p) \/ Find!Rematerialize(p) \/ Find!Persist(p)
  BY <1>2, LookupKeeps, MakingKeeps, PersistKeeps DEF LookupStep, MakingStep
<1>3. CASE Find!Move \/ \E r \in FindingRuns : Find!Propose(r) \/ Find!Complete(r)
          \/ Find!LoseMaterial(r)
  BY <1>3, WorkspaceKeeps DEF WorkspaceStep
<1> QED BY <1>1, <1>2, <1>3 DEF Find!Next

LEMMA FindingRight == FindingInv => Find!RecoveredFromOne
<1> SUFFICES ASSUME FindingInv, NEW q \in proposals
             PROVE  /\ q.at = 0
                    /\ q.kind # "original" => CopySound(q)
                    /\ q.kind = "rematerialized" =>
                          \A other \in proposals : other.kind = q.kind /\ other.run = q.run
                              => other = q
  BY SameCount DEF Find!RecoveredFromOne, CopySound
<1>1. q = [kind |-> q.kind, run |-> q.run, mark |-> q.mark, at |-> 0]
  BY DEF FindingInv, ProposalsSound
<1>2. q.at = 0
  BY <1>1
<1> QED BY <1>2 DEF FindingInv, ProposalsSound

-----------------------------------------------------------------------------
(* Packages                                                                 *)

Listed(s) == \E S : s \in Seq(S)

(* What an exhibit derives from, and the Package it was made from, were    *)
(* there before it; that Package holds what it shows.                      *)
ExhibitsSound ==
    /\ Listed(exhibits)
    /\ \A e \in DOMAIN exhibits :
          /\ exhibits[e].from \subseteq DOMAIN exhibits
          /\ exhibits[e].runs \subseteq DOMAIN PackageRuns
          /\ exhibits[e].origin # None =>
                /\ exhibits[e].origin \in DOMAIN packages
                /\ \A o \in DOMAIN exhibits[e].shows :
                      /\ o \in DOMAIN packages[exhibits[e].origin].revisions
                      /\ packages[exhibits[e].origin].revisions[o] = exhibits[e].shows[o]

PackageInv ==
    /\ Listed(snapshots) /\ ExhibitsSound
    /\ \A id \in DOMAIN packages :
          /\ packages[id].exhibits \subseteq DOMAIN exhibits
          /\ packages[id].runs \subseteq DOMAIN PackageRuns
    /\ DOMAIN readerJob = Readers
    /\ Package!OneMode /\ Package!VisualsCurrent /\ Package!ExportsWhole

LEMMA Longer ==
    ASSUME NEW s, NEW x, Listed(s)
    PROVE  /\ Listed(Append(s, x)) /\ DOMAIN s \subseteq DOMAIN Append(s, x)
           /\ DOMAIN Append(s, x) = DOMAIN s \cup {Len(s) + 1} /\ Len(s) + 1 \notin DOMAIN s
           /\ \A n \in DOMAIN s : Append(s, x)[n] = s[n]
           /\ Append(s, x)[Len(s) + 1] = x
<1>1. PICK S : s \in Seq(S)
  BY DEF Listed
<1>2. s \in Seq(S \cup {x}) /\ x \in S \cup {x}
  BY <1>1
<1>3. Append(s, x) \in Seq(S \cup {x})
  BY <1>2
<1> QED BY <1>2, <1>3 DEF Listed

(* What was derived so far is not derived from what is added.              *)
LEMMA AncestryStays ==
    ASSUME ExhibitsSound, NEW x, exhibits' = Append(exhibits, x), NEW e \in DOMAIN exhibits
    PROVE  Package!Ancestry(e)' = Package!Ancestry(e)
<1> DEFINE D == DOMAIN exhibits
           ClosedIn(S, of) == \A d \in S : of[d].from \subseteq S
<1>1. /\ D \subseteq DOMAIN exhibits' /\ \A d \in D : exhibits'[d] = exhibits[d]
      /\ \A d \in D : exhibits[d].from \subseteq D
  BY Longer DEF ExhibitsSound
<1>2. ASSUME NEW d, d \in Package!Ancestry(e)' PROVE d \in Package!Ancestry(e)
  <2>1. \A S \in SUBSET DOMAIN exhibits' : e \in S /\ ClosedIn(S, exhibits') => d \in S
    BY <1>2 DEF Package!Ancestry
  <2>2. d \in D
    BY <1>1, <2>1
  <2>3. ASSUME NEW S \in SUBSET D, e \in S, ClosedIn(S, exhibits) PROVE d \in S
    BY <1>1, <2>1, <2>3
  <2> QED BY <2>2, <2>3 DEF Package!Ancestry
<1>3. ASSUME NEW d, d \in Package!Ancestry(e) PROVE d \in Package!Ancestry(e)'
  <2>1. d \in D /\ \A S \in SUBSET D : e \in S /\ ClosedIn(S, exhibits) => d \in S
    BY <1>3 DEF Package!Ancestry
  <2>2. ASSUME NEW S \in SUBSET DOMAIN exhibits', e \in S, ClosedIn(S, exhibits') PROVE d \in S
    <3>1. ClosedIn(S \cap D, exhibits)
      BY <1>1, <2>2
    <3> QED BY <2>1, <2>2, <3>1
  <2> QED BY <1>1, <2>1, <2>2 DEF Package!Ancestry
<1> QED BY <1>2, <1>3

LEMMA RunsStay ==
    ASSUME ExhibitsSound, NEW x, exhibits' = Append(exhibits, x), NEW e \in DOMAIN exhibits
    PROVE  Package!RunsBehind(e)' = Package!RunsBehind(e)
<1>1. Package!Ancestry(e)' = Package!Ancestry(e) /\ Package!Ancestry(e) \subseteq DOMAIN exhibits
  BY AncestryStays DEF Package!Ancestry
<1>2. \A d \in DOMAIN exhibits : exhibits'[d] = exhibits[d]
  BY Longer DEF ExhibitsSound
<1>3. {exhibits'[d].runs : d \in Package!Ancestry(e)}
      = {exhibits[d].runs : d \in Package!Ancestry(e)}
  BY <1>1, <1>2
<1> QED BY <1>1, <1>3 DEF Package!RunsBehind

LEMMA RunsKnown ==
    ASSUME ExhibitsSound, NEW e PROVE Package!RunsBehind(e) \subseteq DOMAIN PackageRuns
BY DEF ExhibitsSound, Package!RunsBehind, Package!Ancestry

LEMMA PackageInitSound == Package!Init => PackageInv
<1> SUFFICES ASSUME Package!Init PROVE PackageInv
  OBVIOUS
<1>1. Listed(snapshots) /\ Listed(exhibits) /\ DOMAIN exhibits = {} /\ DOMAIN packages = {}
  <2> DEFINE first == [o \in Package!Objects |-> 1]
  <2>1. snapshots = <<first>> /\ exhibits = <<>> /\ DOMAIN packages = {}
    BY DEF Package!Init
  <2> HIDE DEF first
  <2>2. <<first>> \in Seq({first}) /\ <<>> \in Seq({first}) /\ DOMAIN <<>> = {}
    OBVIOUS
  <2> QED BY <2>1, <2>2 DEF Listed
<1>2. DOMAIN readerJob = Readers /\ \A r \in Readers : readerJob[r].at = "idle"
  BY DEF Package!Init, Package!Idle
<1> QED BY <1>1, <1>2
        DEF PackageInv, ExhibitsSound, Package!OneMode, Package!VisualsCurrent,
            Package!ExportsWhole

(* Two modes are too many.                                                 *)
LEMMA TwoModesAreTooMany ==
    ASSUME NEW M, M \subseteq {"real", "virtual"}, Package!Cardinality(M) < 2
    PROVE  \A m, n \in M : m = n
<1>1. SUFFICES ASSUME M = {"real", "virtual"} PROVE FALSE
  OBVIOUS
<1>2. IsFiniteSet({"real"}) /\ Cardinality({"real"}) = 1
  BY FS_Singleton
<1>3. Cardinality({"real"} \cup {"virtual"}) = 2
  BY <1>2, FS_AddElement
<1>4. M = {"real"} \cup {"virtual"}
  BY <1>1
<1> QED BY <1>3, <1>4, SameCount

LEMMA BuildKeeps == ASSUME PackageInv, NEW new, Package!Build(new) PROVE PackageInv'
<1>1. PICK n \in DOMAIN snapshots, others \in SUBSET (Package!Objects \ {Question}),
           chosenRuns \in SUBSET DOMAIN PackageRuns, chosen \in SUBSET DOMAIN exhibits,
           captures \in SUBSET DOMAIN SourceOf :
         Package!Keep(new, snapshots[n], {Question} \cup others, chosenRuns, chosen, captures)
  BY Zenon DEF Package!Build
<1> DEFINE objects == {Question} \cup others
           p == Package!Package(snapshots[n], objects, chosenRuns, chosen, captures)
           modes == Package!Modes(chosenRuns, chosen, captures)
<1> HIDE DEF objects, p, modes
<1>8. /\ Package!Cardinality(modes) < 2 /\ Package!VisualsFit(snapshots[n], objects, chosen)
      /\ packages' = [i \in DOMAIN packages \cup {new} |-> IF i = new THEN p ELSE packages[i]]
  BY <1>1 DEF Package!Keep, objects, p, modes
<1>2. /\ new \notin DOMAIN packages /\ UNCHANGED <<snapshots, exhibits, readerJob>>
      /\ DOMAIN packages' = DOMAIN packages \cup {new} /\ packages'[new] = p
      /\ \A i \in DOMAIN packages : packages'[i] = packages[i]
  BY <1>8 DEF Package!Build
<1>3. /\ p.revisions = [o \in objects |-> snapshots[n][o]] /\ p.runs = chosenRuns
      /\ p.exhibits = chosen /\ p.captures = captures /\ p.virtual = (modes = {"virtual"})
  BY DEF Package!Package, p, objects, modes
<1>4. ExhibitsSound'
  BY <1>2 DEF PackageInv, ExhibitsSound, Listed
<1>5. Package!OneMode'
  <2> DEFINE behind == chosenRuns \cup (UNION {Package!RunsBehind(e) : e \in chosen})
                         \cup {r \in DOMAIN PackageRuns : PackageRuns[r].captures \cap captures # {}}
  <2>1. \A e : Package!RunsBehind(e)' = Package!RunsBehind(e)
    BY <1>2 DEF Package!RunsBehind, Package!Ancestry
  <2>2. modes = {PackageRuns[r].mode : r \in behind}
    BY DEF Package!Modes, Package!Provenance, modes
  <2>3. ASSUME NEW r \in behind PROVE r \in DOMAIN PackageRuns
    <3>1. CASE \E e \in chosen : r \in Package!RunsBehind(e)
      BY <3>1, RunsKnown DEF PackageInv
    <3>2. CASE r \in chosenRuns
      BY <3>2
    <3>3. CASE r \in {k \in DOMAIN PackageRuns : PackageRuns[k].captures \cap captures # {}}
      BY <3>3
    <3> QED BY <3>1, <3>2, <3>3
  <2> HIDE DEF behind
  <2>4. modes \subseteq {"real", "virtual"}
    BY <2>2, <2>3, ModeAssumption
  <2>5. \A r \in behind : PackageRuns[r].mode = (IF p.virtual THEN "virtual" ELSE "real")
    <3>1. \A m, k \in modes : m = k
      BY <1>8, <2>4, TwoModesAreTooMany
    <3>2. ASSUME NEW r \in behind PROVE modes = {PackageRuns[r].mode}
      BY <2>2, <3>1
    <3>3. ASSUME NEW r \in behind PROVE PackageRuns[r].mode \in {"real", "virtual"}
      BY <2>2, <2>4
    <3>4. ASSUME NEW r \in behind
          PROVE PackageRuns[r].mode = (IF p.virtual THEN "virtual" ELSE "real")
      <4>1. CASE PackageRuns[r].mode = "virtual"
        BY <1>3, <3>2, <4>1
      <4>2. CASE PackageRuns[r].mode = "real"
        <5>1. modes # {"virtual"}
          BY <3>2, <4>2
        <5> QED BY <1>3, <4>2, <5>1
      <4> QED BY <3>3, <4>1, <4>2
    <3> QED BY <3>4
  <2>6. ASSUME NEW i \in DOMAIN packages
        PROVE  \A r \in packages[i].runs \cup (UNION {Package!RunsBehind(e) : e
               \in packages[i].exhibits})
                          \cup {s \in DOMAIN PackageRuns :
                                   PackageRuns[s].captures \cap packages[i].captures # {}} :
                  PackageRuns[r].mode = (IF packages[i].virtual THEN "virtual" ELSE "real")
    BY DEF PackageInv, Package!OneMode
  <2>7. ASSUME NEW i \in DOMAIN packages'
        PROVE  \A r \in packages'[i].runs
                          \cup (UNION {Package!RunsBehind(e)' : e \in packages'[i].exhibits})
                          \cup {s \in DOMAIN PackageRuns :
                                   PackageRuns[s].captures \cap packages'[i].captures # {}} :
                  PackageRuns[r].mode = (IF packages'[i].virtual THEN "virtual" ELSE "real")
    <3>1. CASE i = new
      BY <1>2, <1>3, <2>1, <2>5, <3>1 DEF behind
    <3>2. CASE i \in DOMAIN packages
      BY <1>2, <2>1, <2>6, <3>2
    <3> QED BY <1>2, <3>1, <3>2
  <2> QED BY <2>7 DEF Package!OneMode
<1>6. Package!VisualsCurrent'
  <2>1. ASSUME NEW e \in chosen, exhibits[e].origin # None
        PROVE  /\ exhibits[e].origin \in DOMAIN packages
               /\ \A o \in DOMAIN exhibits[e].shows :
                     /\ o \in objects /\ o \in DOMAIN packages[exhibits[e].origin].revisions
                     /\ snapshots[n][o] = packages[exhibits[e].origin].revisions[o]
    <3>1. Package!Carried(exhibits[e], snapshots[n], objects, chosen)
      BY <1>8, <2>1 DEF Package!VisualsFit
    <3> QED BY <2>1, <3>1 DEF PackageInv, ExhibitsSound, Package!Carried
  <2>2. ASSUME NEW i \in DOMAIN packages'
        PROVE  /\ \E m \in DOMAIN snapshots : \A o \in DOMAIN packages'[i].revisions :
                     packages'[i].revisions[o] = snapshots[m][o]
               /\ \A e \in packages'[i].exhibits : exhibits[e].origin # None =>
                     \A o \in DOMAIN exhibits[e].shows :
                        /\ o \in DOMAIN packages'[i].revisions
                        /\ o \in DOMAIN packages'[exhibits[e].origin].revisions
                        /\ packages'[i].revisions[o] = packages'[exhibits[e].origin].revisions[o]
    <3>1. CASE i = new
      BY <1>2, <1>3, <2>1, <3>1
    <3>2. CASE i \in DOMAIN packages
      <4>1. \A e \in packages[i].exhibits :
               exhibits[e].origin # None => exhibits[e].origin \in DOMAIN packages
        BY <3>2 DEF PackageInv, ExhibitsSound
      <4> QED BY <1>2, <3>2, <4>1 DEF PackageInv, Package!VisualsCurrent
    <3> QED BY <1>2, <3>1, <3>2
  <2> QED BY <1>2, <2>2 DEF Package!VisualsCurrent
<1>7. \A id \in DOMAIN packages' : packages'[id].exhibits \subseteq DOMAIN exhibits'
          /\ packages'[id].runs \subseteq DOMAIN PackageRuns
  BY <1>2, <1>3 DEF PackageInv
<1> QED BY <1>2, <1>4, <1>5, <1>6, <1>7 DEF PackageInv, Package!ExportsWhole

LEMMA CaptureKeeps ==
    ASSUME PackageInv, Package!CaptureNote \/ Package!CaptureVisual
    PROVE  PackageInv'
<1>1. UNCHANGED <<snapshots, packages, readerJob>>
  BY DEF Package!CaptureNote, Package!CaptureVisual
<1>2. PICK x : /\ exhibits' = Append(exhibits, x)
               /\ x.from \subseteq DOMAIN exhibits /\ x.runs \subseteq DOMAIN PackageRuns
               /\ x.origin # None =>
                     /\ x.origin \in DOMAIN packages
                     /\ \A o \in DOMAIN x.shows :
                           /\ o \in DOMAIN packages[x.origin].revisions
                           /\ packages[x.origin].revisions[o] = x.shows[o]
  <2>1. CASE Package!CaptureNote
    <3>1. PICK of \in SUBSET DOMAIN PackageRuns, from \in SUBSET DOMAIN exhibits :
             exhibits' = Append(exhibits, [runs |-> of, from |-> from, shows |-> <<>>,
                                           origin |-> None])
      BY <2>1 DEF Package!CaptureNote
    <3> QED BY <3>1
  <2>2. CASE Package!CaptureVisual
    <3>1. PICK id, objects, from :
             /\ id \in DOMAIN packages /\ objects \in Figures
             /\ from \subseteq packages[id].exhibits /\ Package!ExactlyCurrent(id, objects)
             /\ exhibits' = Append(exhibits, [runs |-> {}, from |-> from,
                                              shows |-> [o \in objects |-> Package!Current[o]],
                                              origin |-> id])
      BY <2>2 DEF Package!CaptureVisual
    <3>2. from \subseteq DOMAIN exhibits
      BY <3>1 DEF PackageInv
    <3> QED BY <3>1, <3>2 DEF Package!ExactlyCurrent
  <2> QED BY <2>1, <2>2
<1>3. /\ Listed(exhibits') /\ DOMAIN exhibits \subseteq DOMAIN exhibits'
      /\ DOMAIN exhibits' = DOMAIN exhibits \cup {Len(exhibits) + 1}
      /\ \A e \in DOMAIN exhibits : exhibits'[e] = exhibits[e]
      /\ exhibits'[Len(exhibits) + 1] = x
  BY <1>2, Longer DEF PackageInv, ExhibitsSound
<1>4. ExhibitsSound'
  <2>1. ASSUME NEW e \in DOMAIN exhibits'
        PROVE  /\ exhibits'[e].from \subseteq DOMAIN exhibits'
               /\ exhibits'[e].runs \subseteq DOMAIN PackageRuns
               /\ exhibits'[e].origin # None =>
                     /\ exhibits'[e].origin \in DOMAIN packages
                     /\ \A o \in DOMAIN exhibits'[e].shows :
                           /\ o \in DOMAIN packages[exhibits'[e].origin].revisions
                           /\ packages[exhibits'[e].origin].revisions[o] = exhibits'[e].shows[o]
    <3>1. CASE e = Len(exhibits) + 1
      BY <1>2, <1>3, <3>1
    <3>2. CASE e \in DOMAIN exhibits
      BY <1>3, <3>2 DEF PackageInv, ExhibitsSound
    <3> QED BY <1>3, <3>1, <3>2
  <2> QED BY <1>1, <1>3, <2>1 DEF ExhibitsSound
<1>5. Package!OneMode'
  <2>1. ASSUME NEW i \in DOMAIN packages
        PROVE  {Package!RunsBehind(e)' : e \in packages[i].exhibits}
                 = {Package!RunsBehind(e) : e \in packages[i].exhibits}
    BY <1>2, RunsStay DEF PackageInv
  <2> QED BY <1>1, <2>1 DEF PackageInv, Package!OneMode
<1>6. Package!VisualsCurrent'
  BY <1>1, <1>3 DEF PackageInv, Package!VisualsCurrent
<1> QED BY <1>1, <1>3, <1>4, <1>5, <1>6 DEF PackageInv, Package!ExportsWhole

LEMMA OthersKeep ==
    ASSUME PackageInv,
           \/ \E o \in Package!Objects : Package!Revise(o)
           \/ \E id \in PackageIds : Package!Lose(id)
           \/ \E r \in Readers : \/ Package!BeginExport(r) \/ Package!CopyFiles(r)
                                 \/ Package!EndExport(r) \/ Package!Leave(r)
    PROVE  PackageInv'
<1>1. UNCHANGED <<exhibits, packages>>
  BY DEF Package!Revise, Package!Lose, Package!BeginExport, Package!CopyFiles,
     Package!EndExport, Package!Leave
<1>2. ExhibitsSound' /\ Package!OneMode'
  <2>1. \A e : Package!RunsBehind(e)' = Package!RunsBehind(e)
    BY <1>1 DEF Package!RunsBehind, Package!Ancestry
  <2> QED BY <1>1, <2>1 DEF PackageInv, ExhibitsSound, Package!OneMode
<1>3. /\ Listed(snapshots') /\ DOMAIN snapshots \subseteq DOMAIN snapshots'
      /\ \A n \in DOMAIN snapshots : snapshots'[n] = snapshots[n]
  <2>1. CASE \E o \in Package!Objects : Package!Revise(o)
    BY <2>1, Longer DEF PackageInv, Package!Revise
  <2>2. CASE UNCHANGED snapshots
    BY <2>2 DEF PackageInv, Listed
  <2> QED BY <2>1, <2>2 DEF Package!Lose, Package!BeginExport, Package!CopyFiles,
          Package!EndExport, Package!Leave
<1>4. Package!VisualsCurrent'
  BY <1>1, <1>3 DEF PackageInv, Package!VisualsCurrent
<1>5. DOMAIN readerJob' = Readers /\ Package!ExportsWhole'
  <2>1. CASE UNCHANGED readerJob
    BY <2>1 DEF PackageInv, Package!ExportsWhole
  <2>2. ASSUME NEW r \in Readers, NEW j, readerJob' = [readerJob EXCEPT ![r] = j],
               j.at = "exported" => j.whole
        PROVE  DOMAIN readerJob' = Readers /\ Package!ExportsWhole'
    BY <2>2 DEF PackageInv, Package!ExportsWhole
  <2>3. ASSUME NEW r \in Readers,
               Package!BeginExport(r) \/ Package!CopyFiles(r) \/ Package!Leave(r)
        PROVE  DOMAIN readerJob' = Readers /\ Package!ExportsWhole'
    <3>1. CASE Package!BeginExport(r)
      <4>1. PICK id : readerJob' = [readerJob EXCEPT ![r] = [at |-> "copying", id |-> id]]
        BY <3>1 DEF Package!BeginExport
      <4>2. [at |-> "copying", id |-> id].at = "copying"
        OBVIOUS
      <4> QED BY <2>2, <4>1, <4>2
    <3>2. CASE Package!CopyFiles(r)
      <4>1. PICK w : readerJob' = [readerJob EXCEPT ![r] = [at |-> "copied", whole |-> w]]
        BY <3>2 DEF PackageInv, Package!CopyFiles
      <4>2. [at |-> "copied", whole |-> w].at = "copied"
        OBVIOUS
      <4> QED BY <2>2, <4>1, <4>2
    <3>3. CASE Package!Leave(r)
      <4>1. readerJob' = [readerJob EXCEPT ![r] = Package!Idle] /\ Package!Idle.at = "idle"
        BY <3>3 DEF Package!Leave, Package!Idle
      <4> QED BY <2>2, <4>1
    <3> QED BY <2>3, <3>1, <3>2, <3>3
  <2>4. ASSUME NEW r \in Readers, Package!EndExport(r)
        PROVE  DOMAIN readerJob' = Readers /\ Package!ExportsWhole'
    <3>1. CASE Package!Verified(r)
      <4>1. readerJob' = [readerJob EXCEPT ![r] = [readerJob[r] EXCEPT !.at = "exported"]]
        BY <2>4, <3>1 DEF PackageInv, Package!EndExport
      <4>2. [readerJob[r] EXCEPT !.at = "exported"].whole = readerJob[r].whole
        OBVIOUS
      <4> QED BY <2>2, <3>1, <4>1, <4>2 DEF Package!Verified
    <3>2. CASE ~Package!Verified(r)
      <4>1. readerJob' = [readerJob EXCEPT ![r] = Package!Idle]
        BY <2>4, <3>2 DEF Package!EndExport
      <4> QED BY <2>2, <4>1 DEF Package!Idle
    <3> QED BY <3>1, <3>2
  <2> QED BY <2>1, <2>3, <2>4 DEF Package!Revise, Package!Lose
<1>6. \A id \in DOMAIN packages' : packages'[id].exhibits \subseteq DOMAIN exhibits'
          /\ packages'[id].runs \subseteq DOMAIN PackageRuns
  BY <1>1 DEF PackageInv
<1> QED BY <1>2, <1>3, <1>4, <1>5, <1>6 DEF PackageInv

LEMMA PackageStep ==
    ASSUME PackageInv, Package!Next \/ UNCHANGED packageVars
    PROVE  PackageInv'
<1>1. CASE UNCHANGED packageVars
  <2>1. \A e : Package!RunsBehind(e)' = Package!RunsBehind(e)
    BY <1>1 DEF packageVars, Package!RunsBehind, Package!Ancestry
  <2> QED BY <1>1, <2>1 DEF packageVars, PackageInv, ExhibitsSound, Listed, Package!OneMode,
          Package!VisualsCurrent, Package!ExportsWhole
<1>2. CASE Package!Next
  BY <1>2, BuildKeeps, CaptureKeeps, OthersKeep DEF Package!Next
<1> QED BY <1>1, <1>2

-----------------------------------------------------------------------------
(* The services side by side                                                *)

LEMMA RecoveryStands == ASSUME RecoveryInv, UNCHANGED recoveryVars PROVE RecoveryInv'
<1> USE DEF recoveryVars
<1>1. CallsTyped' /\ PayloadsSound' /\ RunsSound' /\ ChildrenApart'
  BY DEF RecoveryInv, CallsTyped, PayloadsSound, RunsSound, ChildrenApart
<1>2. ASSUME NEW p \in Procs PROVE ReacquisitionSound(p)' /\ RepairSound(p)'
  BY DEF RecoveryInv, ReacquisitionSound, RepairSound
<1>3. Recovery!SettledByItsCall'
  BY DEF RecoveryInv, Recovery!SettledByItsCall
<1> QED BY <1>1, <1>2, <1>3 DEF RecoveryInv

(* One service goes on and the others stand still.                         *)
ServicesInv == ResearchInv /\ RecoveryInv /\ ContinuationInv /\ FindingInv /\ PackageInv

LEMMA ServicesInit == Init => ServicesInv
BY RequestAssumption, ResearchInitSound, RecoveryInit, ContinuationInitSound, FindingInitSound,
   PackageInitSound
   DEF Init, ServicesInv

LEMMA ServicesStep == ASSUME ServicesInv, [Next]_vars PROVE ServicesInv'
<1>1. None \notin Procs
  BY RequestAssumption
<1>2. ResearchInv'
  <2>1. Research!Next \/ UNCHANGED <<Research!stores, pc, job>>
    BY DEF Next, vars, researchVars, Research!stores
  <2> QED BY <1>1, <2>1, ResearchStep DEF ServicesInv
<1>3. RecoveryInv'
  <2>1. Recovery!Next \/ UNCHANGED recoveryVars
    BY DEF Next, vars
  <2> QED BY <1>1, <2>1, RecoveryStep, RecoveryStands DEF ServicesInv
<1>4. ContinuationInv'
  <2>1. Cont!Next \/ UNCHANGED <<attempts, binding, held, contPc, contJob>>
    BY DEF Next, vars, continuationVars
  <2> QED BY <2>1, ContinuationStep DEF ServicesInv
<1>5. FindingInv'
  <2>1. Find!Next \/ UNCHANGED <<completed, proposals, stateMoves, findPc, findJob>>
    BY DEF Next, vars, findingVars
  <2> QED BY <2>1, FindingStep DEF ServicesInv
<1>6. PackageInv'
  <2>1. Package!Next \/ UNCHANGED packageVars
    BY DEF Next, vars
  <2> QED BY <2>1, PackageStep DEF ServicesInv
<1> QED BY <1>2, <1>3, <1>4, <1>5, <1>6 DEF ServicesInv

LEMMA ServicesSound == Spec => []ServicesInv
BY ServicesInit, ServicesStep, PTL DEF Spec

-----------------------------------------------------------------------------
(* What is proved of the services.                                          *)

(* Whatever the order in which two collections, captures and retrievals go *)
(* on, whoever dies and whenever the Research State moves, a completed     *)
(* result agrees with a ledger that can be read back and with the captures,*)
(* and its candidate is of it (desktop_research_adapter.py).               *)
THEOREM LedgerKeptBehindResults == Spec => []ResultMatchesLedger
<1>1. ServicesInv => ResultMatchesLedger
  BY ResearchRight DEF ServicesInv, ResultMatchesLedger
<1> QED BY <1>1, ServicesSound, PTL

(* A child Run that is neither completed, failed nor aborted is that of a  *)
(* call that goes on, or its process died                                  *)
(* (material_reacquisition_service.py).                                    *)
THEOREM ChildRunsSettled == Spec => []SettledByItsCall
<1>1. ServicesInv => SettledByItsCall
  BY DEF ServicesInv, RecoveryInv, SettledByItsCall
<1> QED BY <1>1, ServicesSound, PTL

(* No step acquires again what has a verified version, or replaces corrupt *)
(* bytes of which quarantine holds no copy (local_payload_repair.py).      *)
THEOREM NoPayloadLost == Spec => NothingLost
<1>1. ServicesInv /\ [Next]_vars
      => [Recovery!RunIsNeeded /\ Recovery!LossIsQuarantined]_recoveryVars
  <2> SUFFICES ASSUME ServicesInv, [Next]_vars
               PROVE  \/ Recovery!RunIsNeeded /\ Recovery!LossIsQuarantined
                      \/ UNCHANGED recoveryVars
    OBVIOUS
  <2>1. Recovery!Next \/ UNCHANGED recoveryVars
    BY DEF Next, vars
  <2> QED BY <2>1, RecoveryDoes DEF ServicesInv
<1> QED BY <1>1, ServicesSound, PTL DEF Spec, NothingLost

(* However many calls continue reacquisitions, whichever of them die and   *)
(* whatever an operator does beside them, those for a single one leave it  *)
(* one usable result at most, those for any group of them one open attempt *)
(* at most; no two calls wait for each other's locks                       *)
(* (new_material_group_continuation_service.py); and a finding is          *)
(* recovered from one sound candidate or made anew                         *)
(* (finding_proposal_recovery.py).                                         *)
THEOREM OneResultOfAttempts == Spec => []OneResult
<1>1. ServicesInv => OneResult
  BY ContinuationRight, FindingRight DEF ServicesInv, OneResult
<1> QED BY <1>1, ServicesSound, PTL

(* However many Packages there are, and exhibits derived from each other   *)
(* through any number of steps, the Runs that a Package selects, those     *)
(* its exhibits derive from and those of its captures are of one mode (the *)
(* document of the Package that a visual was made from is attached         *)
(* whatever its mode), a visual shows what the Package that carries it     *)
(* holds, and an export is whole (research_package_builder.py).            *)
THEOREM PackagesWhole == Spec => []PackagesCohere
<1>1. ServicesInv => PackagesCohere
  BY DEF ServicesInv, PackageInv, PackagesCohere
<1> QED BY <1>1, ServicesSound, PTL
=============================================================================
