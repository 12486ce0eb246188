--------------------------- MODULE MaterialRecovery ---------------------------
(***************************************************************************)
(* Reacquisition of historical material and exact repair of its payloads   *)
(* (material_reacquisition_service.py, local_payload_repair.py).           *)
(*                                                                         *)
(* The targets are the originals and renditions of the captures of one     *)
(* historical Run; artifacts with the same bytes share one address.  A     *)
(* reacquisition holds a lock of its target across processes and records   *)
(* a child Run; a repair holds a lock of the address.  A payload is a      *)
(* record: what a diagnosis says of it and, when it is corrupt, which      *)
(* corruption it is, so that a lost one is noticed.                        *)
(***************************************************************************)
EXTENDS Naturals, Sequences

CONSTANTS
    Procs,
    Targets,
    Address,      \* the content address of each target's artifact
    Original,     \* for a rendition, the target it derives from; else None
    MaxRuns,      \* bound: child Runs
    MaxDamage,    \* bound: payloads that go missing, bad or unreadable
    MaxCrashes,   \* bound: deaths of processes
    None

Addresses == {Address[t] : t \in Targets}

VARIABLES
    payload,      \* what lies at each address
    quarantine,   \* corruptions kept by a hard link
    runs,         \* the historical Run's children, in order of creation
    targetLock, addressLock,
    pc, job,      \* where each call stands, and with what
    abandoned,    \* children whose process died
    damage, crashes

vars == <<payload, quarantine, runs, targetLock, addressLock, pc, job, abandoned, damage, crashes>>
locks == <<targetLock, addressLock>>
faults == <<abandoned, damage, crashes>>

State(of, n) == [is |-> of, corruption |-> n]
Verified == State("verified", 0)
Missing == State("missing", 0)
Repairable == {"missing", "corrupt"}

NoJob == [target |-> None, child |-> 0, attempt |-> 0, got |-> "nothing"]

Init ==
    /\ payload \in [Addresses -> {Verified, Missing}]
    /\ quarantine = {}
    /\ runs = <<>>
    /\ targetLock = [t \in Targets |-> None]
    /\ addressLock = [a \in Addresses |-> None]
    /\ pc = [p \in Procs |-> "idle"]
    /\ job = [p \in Procs |-> NoJob]
    /\ abandoned = {} /\ damage = 0 /\ crashes = 0

Healthy(t) == payload[Address[t]] = Verified
Eligible(t) == payload[Address[t]].is \in Repairable

Step(p, from, to) == pc[p] = from /\ pc' = [pc EXCEPT ![p] = to]

(* Whatever ends a call releases what it holds.                            *)
Release(p) ==
    /\ targetLock' = [t \in Targets |-> IF targetLock[t] = p THEN None ELSE targetLock[t]]
    /\ addressLock' = [a \in Addresses |-> IF addressLock[a] = p THEN None ELSE addressLock[a]]

End(p, from) == Step(p, from, "idle") /\ job' = [job EXCEPT ![p] = NoJob] /\ Release(p)

-----------------------------------------------------------------------------
(* reacquire: up to the child Run                                           *)

Reacquire(p, t) ==
    /\ Step(p, "idle", "waiting")
    /\ Eligible(t)
    /\ job' = [job EXCEPT ![p] = [NoJob EXCEPT !.target = t]]
    /\ UNCHANGED <<payload, quarantine, runs, locks, faults>>

TargetFree(t) == targetLock[t] = None

LockTarget(p) ==
    /\ Step(p, "waiting", "deciding")
    /\ TargetFree(job[p].target)
    /\ targetLock' = [targetLock EXCEPT ![job[p].target] = p]
    /\ UNCHANGED <<payload, quarantine, runs, addressLock, job, faults>>

Successes(t) == {i \in DOMAIN runs : runs[i].target = t /\ runs[i].status = "COMPLETED"}

(* A success counts only while the payload it vouches for verifies.        *)
PreviousSuccess(t) ==
    {i \in Successes(t) :
        \/ runs[i].result = "identical" /\ Healthy(t)
        \/ runs[i].result = "new" /\ runs[i].artifact = "verified"}

(* Healthy by now, or out of reach, or done before.                        *)
Reuse(p) ==
    /\ pc[p] = "deciding"
    /\ ~Eligible(job[p].target) \/ PreviousSuccess(job[p].target) # {}
    /\ End(p, "deciding")
    /\ UNCHANGED <<payload, quarantine, runs, faults>>

LatestAttempt ==
    IF runs = <<>> THEN 0
    ELSE LET n == CHOOSE i \in DOMAIN runs : \A j \in DOMAIN runs : runs[j].attempt <= runs[i].attempt
         IN  runs[n].attempt

Decide(p) ==
    /\ pc[p] = "deciding"
    /\ Eligible(job[p].target) /\ PreviousSuccess(job[p].target) = {}
    /\ Step(p, "deciding", "creating")
    /\ job' = [job EXCEPT ![p].attempt = LatestAttempt + 1]
    /\ UNCHANGED <<payload, quarantine, runs, locks, faults>>

CreateRun(p) ==
    /\ Len(runs) < MaxRuns
    /\ Step(p, "creating", "starting")
    /\ runs' = Append(runs, [target |-> job[p].target, attempt |-> job[p].attempt,
                             status |-> "PREPARED", result |-> "none", artifact |-> "none"])
    /\ job' = [job EXCEPT ![p].child = Len(runs) + 1]
    /\ UNCHANGED <<payload, quarantine, locks, faults>>

Transition(i, from, to) ==
    /\ runs[i].status = from
    /\ runs' = [runs EXCEPT ![i].status = to]

(* An abort got in between: the call raises, outside of its handler.       *)
StartRun(p) ==
    LET i == job[p].child IN
    /\ pc[p] = "starting"
    /\ \/ Transition(i, "PREPARED", "RUNNING") /\ Step(p, "starting", "retrieving")
          /\ UNCHANGED <<locks, job>>
       \/ runs[i].status # "PREPARED" /\ End(p, "starting") /\ UNCHANGED runs
    /\ UNCHANGED <<payload, quarantine, faults>>

-----------------------------------------------------------------------------
(* The new bytes                                                            *)

Outcomes == {"identical", "new", "nothing"}

AfterRetrieval == [identical |-> "repairing", new |-> "storing", nothing |-> "failing"]

Retrieved(p, outcome) ==
    /\ Step(p, "retrieving", AfterRetrieval[outcome])
    /\ job' = [job EXCEPT ![p].got = outcome]
    /\ UNCHANGED <<payload, quarantine, runs, locks, faults>>

(* The locator may serve the same bytes, other bytes or nothing.           *)
RetrieveOriginal(p, outcome) ==
    /\ pc[p] = "retrieving" /\ Original[job[p].target] = None
    /\ Retrieved(p, outcome)

(* A rendition is derived from an original that verifies.                  *)
RegenerateRendition(p, outcome) ==
    /\ pc[p] = "retrieving" /\ Original[job[p].target] # None
    /\ Healthy(Original[job[p].target]) \/ outcome = "nothing"
    /\ Retrieved(p, outcome)

(* Other bytes are a version of their own, stored under the child.         *)
StoreVersion(p) ==
    /\ Step(p, "storing", "recording")
    /\ runs' = [runs EXCEPT ![job[p].child].artifact = "verified"]
    /\ UNCHANGED <<payload, quarantine, locks, job, faults>>

(* The result is a diagnostic; then the Run completes.                     *)
RecordResult(p) ==
    /\ Step(p, "recording", "completing")
    /\ runs' = [runs EXCEPT ![job[p].child].result = job[p].got]
    /\ UNCHANGED <<payload, quarantine, locks, job, faults>>

Complete(p) ==
    LET i == job[p].child IN
    /\ pc[p] = "completing"
    /\ \/ Transition(i, "RUNNING", "COMPLETED") /\ End(p, "completing")
       \/ runs[i].status # "RUNNING" /\ Step(p, "completing", "failing")
          /\ UNCHANGED <<runs, locks, job>>
    /\ UNCHANGED <<payload, quarantine, faults>>

(* Seeded fault: a failed call leaves its Run as it is. *)
FailQuietly(p) ==
    /\ End(p, "failing")
    /\ UNCHANGED <<payload, quarantine, runs, faults>>

Fail(p) ==
    LET i == job[p].child IN
    /\ pc[p] = "failing"
    /\ \/ Transition(i, "RUNNING", "FAILED")
       \/ runs[i].status # "RUNNING" /\ UNCHANGED runs
    /\ End(p, "failing")
    /\ UNCHANGED <<payload, quarantine, faults>>

-----------------------------------------------------------------------------
(* restore_missing_artifact_from_file and install_exact_payload, on bytes   *)
(* that match; a caller may also bring a file of his own                    *)

BringFile(p, t) ==
    /\ Step(p, "idle", "repairing")
    /\ job' = [job EXCEPT ![p] = [NoJob EXCEPT !.target = t]]
    /\ UNCHANGED <<payload, quarantine, runs, locks, faults>>

At(p) == Address[job[p].target]
Outside(p) == job[p].child = 0

(* What follows an installation that worked, and one that did not.         *)
Installed(p, from) ==
    /\ addressLock' = [addressLock EXCEPT ![At(p)] = None]
    /\ IF Outside(p)
         THEN Step(p, from, "idle") /\ job' = [job EXCEPT ![p] = NoJob]
         ELSE Step(p, from, "recording") /\ UNCHANGED job
    /\ UNCHANGED targetLock

NotInstalled(p, from) ==
    /\ addressLock' = [a \in Addresses |-> IF addressLock[a] = p THEN None ELSE addressLock[a]]
    /\ IF Outside(p)
         THEN Step(p, from, "idle") /\ job' = [job EXCEPT ![p] = NoJob]
         ELSE Step(p, from, "failing") /\ UNCHANGED job
    /\ UNCHANGED targetLock

(* The lock is waited for only so long.                                    *)
LockAddress(p) ==
    /\ pc[p] = "repairing"
    /\ \/ /\ addressLock[At(p)] = None
          /\ addressLock' = [addressLock EXCEPT ![At(p)] = p]
          /\ Step(p, "repairing", "inspecting")
          /\ UNCHANGED <<targetLock, job>>
       \/ addressLock[At(p)] # None /\ NotInstalled(p, "repairing")
    /\ UNCHANGED <<payload, quarantine, runs, faults>>

Inspect(p) ==
    LET before == payload[At(p)] IN
    /\ pc[p] = "inspecting"
    /\ \/ before = Verified /\ Installed(p, "inspecting")
       \/ before.is = "unreadable" /\ NotInstalled(p, "inspecting")
       \/ /\ before.is \in Repairable
          /\ Step(p, "inspecting", IF before = Missing THEN "linking" ELSE "preserving")
          /\ UNCHANGED <<locks, job>>
    /\ UNCHANGED <<payload, quarantine, runs, faults>>

(* Seeded fault: the bad payload is not linked before it is replaced. *)
PreserveNothing(p) ==
    /\ Step(p, "preserving", "replacing")
    /\ UNCHANGED <<payload, quarantine, runs, locks, job, faults>>

(* The bad payload is hard-linked into quarantine, then replaced.          *)
Preserve(p) ==
    /\ Step(p, "preserving", "replacing")
    /\ quarantine' = quarantine \cup {payload[At(p)].corruption}
    /\ UNCHANGED <<payload, runs, locks, job, faults>>

Replace(p) ==
    /\ pc[p] = "replacing"
    /\ payload' = [payload EXCEPT ![At(p)] = Verified]
    /\ Installed(p, "replacing")
    /\ UNCHANGED <<quarantine, runs, faults>>

(* A missing payload is linked in, and never over one that appeared: that  *)
(* one must verify.                                                        *)
LinkMissing(p) ==
    /\ pc[p] = "linking"
    /\ \/ /\ payload[At(p)] = Missing
          /\ payload' = [payload EXCEPT ![At(p)] = Verified]
          /\ Installed(p, "linking")
       \/ /\ payload[At(p)] # Missing
          /\ IF payload[At(p)] = Verified THEN Installed(p, "linking")
             ELSE NotInstalled(p, "linking")
          /\ UNCHANGED payload
    /\ UNCHANGED <<quarantine, runs, faults>>

-----------------------------------------------------------------------------
(* The environment                                                          *)

(* Storing the same bytes elsewhere puts a missing payload back.           *)
OrdinaryWrite(a) ==
    /\ payload[a] = Missing
    /\ payload' = [payload EXCEPT ![a] = Verified]
    /\ UNCHANGED <<quarantine, runs, locks, pc, job, faults>>

Damage(a, now) ==
    /\ damage < MaxDamage
    /\ payload[a] \in {Verified, Missing} /\ payload[a] # now
    /\ payload' = [payload EXCEPT ![a] = now]
    /\ damage' = damage + 1
    /\ UNCHANGED <<quarantine, runs, locks, pc, job, abandoned, crashes>>

DamageVersion(i) ==
    /\ damage < MaxDamage
    /\ runs[i].artifact = "verified"
    /\ runs' = [runs EXCEPT ![i].artifact = "missing"]
    /\ damage' = damage + 1
    /\ UNCHANGED <<payload, quarantine, locks, pc, job, abandoned, crashes>>

AbortRun(i) ==
    /\ runs[i].status \in {"PREPARED", "RUNNING"}
    /\ runs' = [runs EXCEPT ![i].status = "ABORTED"]
    /\ UNCHANGED <<payload, quarantine, locks, pc, job, faults>>

Crash(p) ==
    /\ crashes < MaxCrashes /\ pc[p] # "idle"
    /\ crashes' = crashes + 1
    /\ abandoned' = abandoned \cup ({job[p].child} \ {0})
    /\ pc' = [pc EXCEPT ![p] = "idle"]
    /\ job' = [job EXCEPT ![p] = NoJob]
    /\ Release(p)
    /\ UNCHANGED <<payload, quarantine, runs, damage>>

Call(p) ==
    \/ LockTarget(p) \/ Reuse(p) \/ Decide(p) \/ CreateRun(p) \/ StartRun(p)
    \/ \E outcome \in Outcomes : RetrieveOriginal(p, outcome) \/ RegenerateRendition(p, outcome)
    \/ StoreVersion(p) \/ RecordResult(p) \/ Complete(p) \/ Fail(p)
    \/ LockAddress(p) \/ Inspect(p) \/ Preserve(p) \/ Replace(p) \/ LinkMissing(p)

Next ==
    \/ \E p \in Procs : Call(p) \/ Crash(p) \/ \E t \in Targets : Reacquire(p, t) \/ BringFile(p, t)
    \/ \E a \in Addresses :
          \/ OrdinaryWrite(a)
          \/ Damage(a, Missing) \/ Damage(a, State("unreadable", 0))
          \/ Damage(a, State("corrupt", damage + 1))
    \/ \E i \in DOMAIN runs : DamageVersion(i) \/ AbortRun(i)

Spec == Init /\ [][Next]_vars

-----------------------------------------------------------------------------
(* Properties                                                               *)

RunIsNeeded ==
    \A i \in DOMAIN runs' \ DOMAIN runs :
        LET t == runs'[i].target IN
        /\ ~\E j \in Successes(t) : runs[j].result = "new" /\ runs[j].artifact = "verified"
        /\ \A j \in DOMAIN runs : runs[j].target = t => runs[j].attempt < runs'[i].attempt

(* Two calls for one target never do the work twice: a child Run is made   *)
(* only while no version acquired for that target before still verifies,   *)
(* and it takes a number that no child of its target has.                  *)
NoNeedlessRun == [][RunIsNeeded]_vars

LossIsQuarantined ==
    \A a \in Addresses :
        payload[a].is = "corrupt" /\ payload'[a] # payload[a] =>
            payload[a].corruption \in quarantine

(* No repair loses bytes: a corrupt payload gives way only when it lies in *)
(* quarantine, whoever raced and whenever a repair died.                   *)
NothingLost == [][LossIsQuarantined]_vars

(* A child Run that is not finished belongs to a call in progress or to a  *)
(* process that died: no failure of a call leaves its Run open.            *)
SettledByItsCall ==
    \A i \in DOMAIN runs :
        runs[i].status \in {"PREPARED", "RUNNING"} =>
            i \in abandoned \/ \E p \in Procs : job[p].child = i
=============================================================================
