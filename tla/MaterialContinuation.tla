------------------------- MODULE MaterialContinuation -------------------------
(***************************************************************************)
(* Continuing a historical result with newly acquired material             *)
(* (new_material_continuation_*.py).  A request names one reacquisition    *)
(* Run or several; it takes a lock of each across processes, finds out     *)
(* what earlier requests left, and otherwise prepares a new Desktop        *)
(* Research Run, fills it from the historical one and collects it.  The    *)
(* attempts of one request are correlated by a conversation of their own;  *)
(* a request of one reacquisition is bound to its attempt as well: first   *)
(* on the reacquisition Run, then, the mirror, on the attempt.             *)
(*                                                                         *)
(* PREPARED and RUNNING are one status here, FAILED and ABORTED another:   *)
(* a continuation treats them alike.                                       *)
(***************************************************************************)
EXTENDS Naturals, Sequences, FiniteSets

CONSTANTS
    Procs,
    Reacquired,    \* reacquisition Runs, numbers: the order of their ids
    Requests,      \* the sets of them that requests name
    MaxAttempts,   \* bound: new Runs
    MaxMoves,      \* bound: Decisions committed meanwhile
    MaxCrashes,    \* bound: deaths of processes
    None

VARIABLES
    attempts,      \* the new Runs, in order of creation
    binding,       \* the newest attempt bound on each reacquisition Run, or 0
    held,          \* who holds each reacquisition's lock, or None
    pc, job,       \* where each call stands, and with what
    moves, crashes

vars == <<attempts, binding, held, pc, job, moves, crashes>>
bounds == <<moves, crashes>>

NoJob == [group |-> {}, prior |-> 0, child |-> 0]

Init ==
    /\ attempts = <<>>
    /\ binding = [r \in Reacquired |-> 0]
    /\ held = [r \in Reacquired |-> None]
    /\ pc = [p \in Procs |-> "idle"]
    /\ job = [p \in Procs |-> NoJob]
    /\ moves = 0 /\ crashes = 0

Open(i) == attempts[i].status = "RUNNING"
Completed(i) == attempts[i].status = "COMPLETED"

(* The admitted bytes are captured and Handoff, extension and proposal are *)
(* there.                                                                  *)
Reusable(i) == Completed(i) /\ attempts[i].captured /\ attempts[i].closed

At(p, label) == pc[p] = label
GoTo(p, label) == pc' = [pc EXCEPT ![p] = label]

(* A call that ends gives its locks back.                                  *)
End(p) ==
    /\ pc' = [pc EXCEPT ![p] = "idle"]
    /\ job' = [job EXCEPT ![p] = NoJob]
    /\ held' = [r \in Reacquired |-> IF held[r] = p THEN None ELSE held[r]]

-----------------------------------------------------------------------------
(* The locks                                                                *)

Request(p, group) ==
    /\ At(p, "idle")
    /\ job' = [job EXCEPT ![p] = [NoJob EXCEPT !.group = group]]
    /\ GoTo(p, "locking")
    /\ UNCHANGED <<attempts, binding, held, bounds>>

Missing(p) == {r \in job[p].group : held[r] # p}

(* Seeded fault: the run ids of a group are locked in any order.           *)
Unsorted(p) == Missing(p)

(* The run ids of a group are sorted.                                      *)
NextLock(p) == {r \in Missing(p) : \A s \in Missing(p) : r <= s}

TakeLock(p) ==
    /\ At(p, "locking")
    /\ \E r \in NextLock(p) :
          /\ held[r] = None
          /\ held' = [held EXCEPT ![r] = p]
          /\ GoTo(p, IF Missing(p) = {r} THEN "inspecting" ELSE "locking")
    /\ UNCHANGED <<attempts, binding, job, bounds>>

-----------------------------------------------------------------------------
(* What earlier requests left                                               *)

Single(p) == Cardinality(job[p].group) = 1
Bound(p) == binding[CHOOSE r \in job[p].group : TRUE]

(* A single request looks no further back than the Run that is bound.      *)
Correlated(p) ==
    {i \in DOMAIN attempts :
        /\ attempts[i].correlated /\ attempts[i].group = job[p].group
        /\ Single(p) => i > Bound(p)}

Latest(p) == IF Correlated(p) = {} THEN 0
             ELSE CHOOSE i \in Correlated(p) : \A j \in Correlated(p) : j <= i

Answer(p) == End(p) /\ UNCHANGED attempts

Continue(p, label, prior) ==
    /\ GoTo(p, label)
    /\ job' = [job EXCEPT ![p].prior = prior]
    /\ UNCHANGED <<attempts, held>>

(* The mirror tells an attempt that others may still collect from one that *)
(* nobody can use.                                                         *)
Interrupted(p) == ~attempts[Bound(p)].mirror

(* Closed results are answered again; a completed Run without the bound    *)
(* capture is refused for good.                                            *)
InspectBound(p) ==
    /\ At(p, "inspecting") /\ Single(p) /\ Bound(p) # 0
    /\ LET b == Bound(p) IN
          \/ ~Interrupted(p) /\ Completed(b)
             /\ IF attempts[b].captured /\ ~attempts[b].closed THEN Continue(p, "correlating", b)
                ELSE Answer(p)
          \/ ~Interrupted(p) /\ Open(b) /\ Answer(p)
          \/ Interrupted(p) /\ Open(b) /\ Continue(p, "aborting", b)
          \/ /\ ~Open(b) /\ (Interrupted(p) \/ ~Completed(b))
             /\ Continue(p, "correlating", b)
    /\ UNCHANGED <<binding, bounds>>

NothingBound(p) ==
    /\ At(p, "inspecting") /\ Single(p) /\ Bound(p) = 0
    /\ Continue(p, "correlating", 0)
    /\ UNCHANGED <<binding, bounds>>

(* abort leaves a Run that ended meanwhile as it is.                       *)
Aborted(i) == [attempts EXCEPT ![i].status = IF Open(i) THEN "ABORTED" ELSE @]

AbortBound(p) ==
    /\ At(p, "aborting")
    /\ attempts' = Aborted(job[p].prior)
    /\ GoTo(p, "correlating")
    /\ UNCHANGED <<binding, held, job, bounds>>

(* An attempt that was prepared and never bound.  Completed, it lacks the  *)
(* capture, which comes after the binding, and is refused.                 *)
InspectCorrelated(p) ==
    /\ At(p, "correlating")
    /\ LET i == Latest(p) IN
          \/ i = 0 /\ Continue(p, "preparing", job[p].prior)
          \/ i # 0 /\ Open(i) /\ Continue(p, "abandoning", i)
          \/ i # 0 /\ Completed(i) /\ Answer(p)
          \/ i # 0 /\ ~Open(i) /\ ~Completed(i) /\ Continue(p, "preparing", i)
    /\ UNCHANGED <<binding, bounds>>

(* A single request looks again at what it wanted to abort; a group does   *)
(* not.                                                                    *)
AbortCorrelated(p) ==
    /\ At(p, "abandoning")
    /\ attempts' = Aborted(job[p].prior)
    /\ IF Single(p) /\ Completed(job[p].prior) THEN End(p)
       ELSE GoTo(p, "preparing") /\ UNCHANGED <<job, held>>
    /\ UNCHANGED <<binding, bounds>>

InspectGroup(p) ==
    /\ At(p, "inspecting") /\ ~Single(p)
    /\ LET i == Latest(p) IN
          \/ i = 0 /\ Continue(p, "preparing", 0)
          \/ i # 0 /\ Open(i) /\ Continue(p, "abandoning", i)
          \/ /\ i # 0 /\ Completed(i)
             /\ IF attempts[i].captured /\ ~attempts[i].closed THEN Continue(p, "preparing", i)
                ELSE Answer(p)
          \/ i # 0 /\ ~Open(i) /\ ~Completed(i) /\ Continue(p, "preparing", i)
    /\ UNCHANGED <<binding, bounds>>

-----------------------------------------------------------------------------
(* The new Run                                                              *)

Prepare(p) ==
    /\ At(p, "preparing") /\ Len(attempts) < MaxAttempts
    /\ attempts' = Append(attempts,
           [group |-> job[p].group, status |-> "RUNNING", parent |-> job[p].prior,
            correlated |-> FALSE, mirror |-> FALSE, captured |-> FALSE,
            stale |-> FALSE, closed |-> FALSE])
    /\ job' = [job EXCEPT ![p].child = Len(attempts) + 1]
    /\ GoTo(p, "prepared")
    /\ UNCHANGED <<binding, held, bounds>>

Correlate(p) ==
    /\ At(p, "prepared")
    /\ attempts' = [attempts EXCEPT ![job[p].child].correlated = TRUE]
    /\ GoTo(p, IF Single(p) THEN "binding" ELSE "capturing")
    /\ UNCHANGED <<binding, held, job, bounds>>

BindParent(p) ==
    /\ At(p, "binding")
    /\ binding' = [r \in Reacquired |-> IF r \in job[p].group THEN job[p].child ELSE binding[r]]
    /\ GoTo(p, "mirroring")
    /\ UNCHANGED <<attempts, held, job, bounds>>

BindChild(p) ==
    /\ At(p, "mirroring")
    /\ attempts' = [attempts EXCEPT ![job[p].child].mirror = TRUE]
    /\ GoTo(p, "capturing")
    /\ UNCHANGED <<binding, held, job, bounds>>

(* The material and the replayed retrieval attempts.                       *)
Capture(p) ==
    /\ At(p, "capturing") /\ Open(job[p].child)
    /\ attempts' = [attempts EXCEPT ![job[p].child].captured = TRUE]
    /\ GoTo(p, "collecting")
    /\ UNCHANGED <<binding, held, job, bounds>>

(* A result pinned to a State that moved on gets no proposal.              *)
Collected(i) == [attempts EXCEPT ![i].status = "COMPLETED", ![i].closed = ~attempts[i].stale]

Collect(p) ==
    /\ At(p, "collecting") /\ Open(job[p].child)
    /\ attempts' = Collected(job[p].child)
    /\ End(p)
    /\ UNCHANGED <<binding, bounds>>

(* A step failed, or somebody ended the Run.  The Run is closed, except    *)
(* that a collection of a single request leaves it open for a correction.  *)
Fail(p) ==
    /\ pc[p] \in {"binding", "mirroring", "capturing", "collecting"}
    /\ attempts' = IF At(p, "collecting") /\ Single(p) THEN attempts ELSE Aborted(job[p].child)
    /\ End(p)
    /\ UNCHANGED <<binding, bounds>>

-----------------------------------------------------------------------------
(* Others                                                                   *)

(* The Run is open to everybody's collection, with the captures it has or  *)
(* with captures of its own, and to an abort.                              *)
OperatorCollect(i) ==
    /\ Open(i)
    /\ attempts' = Collected(i)
    /\ UNCHANGED <<binding, held, pc, job, bounds>>

OperatorAbort(i) ==
    /\ Open(i)
    /\ attempts' = Aborted(i)
    /\ UNCHANGED <<binding, held, pc, job, bounds>>

MoveState ==
    /\ moves < MaxMoves /\ moves' = moves + 1
    /\ attempts' = [i \in DOMAIN attempts |-> [attempts[i] EXCEPT !.stale = @ \/ Open(i)]]
    /\ UNCHANGED <<binding, held, pc, job, crashes>>

Crash(p) ==
    /\ ~At(p, "idle") /\ crashes < MaxCrashes
    /\ crashes' = crashes + 1
    /\ End(p)
    /\ UNCHANGED <<attempts, binding, moves>>

Next ==
    \/ MoveState
    \/ \E i \in DOMAIN attempts : OperatorCollect(i) \/ OperatorAbort(i)
    \/ \E p \in Procs :
          \/ \E group \in Requests : Request(p, group)
          \/ TakeLock(p)
          \/ InspectBound(p) \/ NothingBound(p) \/ AbortBound(p)
          \/ InspectCorrelated(p) \/ AbortCorrelated(p) \/ InspectGroup(p)
          \/ Prepare(p) \/ Correlate(p) \/ BindParent(p) \/ BindChild(p)
          \/ Capture(p) \/ Collect(p) \/ Fail(p) \/ Crash(p)

Spec == Init /\ [][Next]_vars

-----------------------------------------------------------------------------
(* Properties                                                               *)

Of(group) == {i \in DOMAIN attempts : attempts[i].correlated /\ attempts[i].group = group}

(* Whatever requests race, die or are repeated, the requests to continue a *)
(* single reacquisition leave at most one result that a reader could use.  *)
(* Requests for a group of them are not this careful and may leave two,    *)
(* and what a group made is not seen by a request for one of its members.  *)
OneResult ==
    \A r \in Reacquired : \A i, j \in Of({r}) : Reusable(i) /\ Reusable(j) => i = j

(* The correlated attempts of a request are a line: one at most is open,   *)
(* and each was made when the one before it, its parent, had ended.        *)
OneOpenAttempt ==
    \A group \in Requests : \A i, j \in Of(group) :
        /\ Open(i) /\ Open(j) => i = j
        /\ attempts[j].parent = i => ~Open(i)

(* No two requests wait for each other's locks for ever.                   *)
NoLockCycle ==
    \A p, q \in Procs :
        p # q /\ At(p, "locking") /\ At(q, "locking") =>
            ~ (/\ \A r \in NextLock(p) : held[r] = q
               /\ \A r \in NextLock(q) : held[r] = p)
=============================================================================
