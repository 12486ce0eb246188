----------------------------- MODULE CaptureStore -----------------------------
(***************************************************************************)
(* Artifact bytes and their registration in the local execution store.     *)
(* Rows live in SQLite behind its one write lock; bytes are files named by *)
(* their content, published before the rows that refer to them commit and  *)
(* removed again when a registration fails.  Batches and inputs remove or  *)
(* leave their files while they hold the write lock; a capture pair looks  *)
(* for its text before it takes the lock and cleans up after it gave the   *)
(* lock back, under a reservation that only captures of its Run respect.   *)
(*                                                                         *)
(* Staging files are private to a writer and left out.  Sizes are counts.  *)
(***************************************************************************)
EXTENDS Naturals, FiniteSets

CONSTANTS
    Writers, Runs,
    Jobs,        \* calls: op, run, items (each with id, role, content)
    RoleLimit,   \* role_count_limits and role_byte_limits
    MaxFaults,   \* bound: deaths, full disks and commits refused by SQLite
    Free, NoJob,
    NoRun        \* of an input, which belongs to no Run

(* A call names an identity once, and what it registers as an input or as  *)
(* an artifact of its Run are rows of two tables.  What an adapter puts on *)
(* its own has roles that no capture has: those alone have limits.         *)
JobRecord(j) ==
    /\ j.op \in {"capture", "batch", "input", "put", "event"} /\ j.run \in Runs
    /\ IsFiniteSet(j.items)
    /\ \A i, k \in j.items : i.id = k.id => i = k
    /\ \A i \in j.items : /\ i.role = "input" <=> j.op = "input"
                          /\ i.role = "output" <=> j.op = "put"

JobAssumption ==
    /\ NoJob \notin Jobs /\ Free \notin Writers /\ NoRun \notin Runs
    /\ \A j \in Jobs : JobRecord(j)
BoundAssumption == RoleLimit \in Nat /\ MaxFaults \in Nat

VARIABLES
    lock,         \* holder of the execution database's write lock
    reservation,  \* holder of each Run's large-original lock file
    running,      \* Runs whose status is RUNNING
    files,        \* published content-addressed files
    rows,         \* committed execution_artifacts and input_resources
    trace,        \* events of the operational trace, another database
    pc, job,
    todo,         \* items a writer has yet to store
    fresh,        \* files it will remove should its registration fail
    faults

db == <<running, rows, trace>>
local == <<pc, job, todo, fresh>>
vars == <<lock, reservation, db, files, local, faults>>

Init ==
    /\ lock = Free
    /\ reservation = [r \in Runs |-> Free]
    /\ running = Runs
    /\ files = {} /\ rows = {} /\ trace = {}
    /\ pc = [w \in Writers |-> "idle"]
    /\ job = [w \in Writers |-> NoJob]
    /\ todo = [w \in Writers |-> {}]
    /\ fresh = [w \in Writers |-> {}]
    /\ faults = 0

Contents(items) == {i.content : i \in items}

Row(j, i) == [id |-> i.id, run |-> IF j.op = "input" THEN NoRun ELSE j.run,
              role |-> i.role, content |-> i.content]

Rows(j) == {Row(j, i) : i \in j.items}

(* Contents that a capture of one Run shares with another call: it looks   *)
(* for them and removes them outside the lock that the other call holds.   *)
Contested ==
    {c \in UNION {Contents(j.items) : j \in Jobs} :
        \E j, k \in Jobs : /\ j.op = "capture" /\ (k.op # "capture" \/ k.run # j.run)
                          /\ c \in Contents(j.items) \cap Contents(k.items)}

Fault == faults < MaxFaults /\ faults' = faults + 1

Goto(w, step) == pc' = [pc EXCEPT ![w] = step]

-----------------------------------------------------------------------------
(* What a registration requires, checked inside its transaction             *)

InRole(j, i) == {r \in rows : r.run = j.run /\ r.role = i.role}

WithinRoleLimit(j) ==
    \A i \in j.items :
        Cardinality(InRole(j, i))
          + Cardinality({k \in j.items : k.role = i.role}) <= RoleLimit

NewIdentities(j) == \A r \in rows, i \in j.items : r.role # "input" => r.id # i.id

InputTaken(j) == {r \in rows : r.role = "input" /\ \E i \in j.items : r.id = i.id}

(* An input may be registered again with the same content, at any time,    *)
(* but only as of the same instant: the time is compared with the rest.    *)
(* Nobody asks for the status of the Run that an output is put for.        *)
Admissible(j) ==
    IF j.op = "input"
    THEN \A r \in InputTaken(j), i \in j.items : r.id = i.id => r.content = i.content
    ELSE /\ NewIdentities(j)
         /\ j.op # "put" => j.run \in running /\ WithinRoleLimit(j)

-----------------------------------------------------------------------------
(* A capture pair before its transaction                                    *)

Idle(w, j) == pc[w] = "idle" /\ job' = [job EXCEPT ![w] = j]

Reserve(w, j) ==
    /\ j.op = "capture" /\ Idle(w, j) /\ Goto(w, "preflight")
    /\ reservation[j.run] = Free
    /\ reservation' = [reservation EXCEPT ![j.run] = w]
    /\ UNCHANGED <<lock, db, files, todo, fresh, faults>>

(* A transaction of its own that only reads.                               *)
Preflight(w) ==
    /\ pc[w] = "preflight" /\ lock = Free
    /\ Goto(w, IF Admissible(job[w]) THEN "look" ELSE "leave")
    /\ UNCHANGED <<lock, reservation, db, files, job, todo, fresh, faults>>

TextOf(j) == {i \in j.items : i.role = "text"}

LookForText(w) ==
    /\ pc[w] = "look"
    /\ fresh' = [fresh EXCEPT ![w] = Contents(TextOf(job[w])) \ files]
    /\ Goto(w, "begin")
    /\ UNCHANGED <<lock, reservation, db, files, job, todo, faults>>

Request(w, j) ==
    /\ j.op # "capture" /\ Idle(w, j) /\ Goto(w, "begin")
    /\ UNCHANGED <<lock, reservation, db, files, todo, fresh, faults>>

-----------------------------------------------------------------------------
(* The write transaction; an input or an output is stored and then checked. *)

(* Seeded fault: files that were there before the batch count as new. *)
AllTargets(j) == Contents(j.items)

NewTargets(j) == Contents(j.items) \ files

BeginTransaction(w) ==
    /\ pc[w] = "begin" /\ lock = Free
    /\ IF Admissible(job[w]) \/ job[w].op \in {"input", "put"}
         THEN /\ lock' = w
              /\ todo' = [todo EXCEPT ![w] = job[w].items]
              /\ fresh' = IF job[w].op = "batch"
                          THEN [fresh EXCEPT ![w] = NewTargets(job[w])] ELSE fresh
              /\ Goto(w, "write")
         ELSE /\ Goto(w, IF job[w].op = "capture" THEN "clean" ELSE "leave")
              /\ UNCHANGED <<lock, todo, fresh>>
    /\ UNCHANGED <<reservation, db, files, job, faults>>

(* A file that exists is verified and shared, a new one is published; the  *)
(* original of a capture is removed later only if this writer created it.  *)
StoreBlob(w, i) ==
    /\ pc[w] = "write" /\ i \in todo[w]
    /\ files' = files \cup {i.content}
    /\ todo' = [todo EXCEPT ![w] = @ \ {i}]
    /\ fresh' = IF i.role = "original" /\ i.content \notin files
                THEN [fresh EXCEPT ![w] = @ \cup {i.content}] ELSE fresh
    /\ UNCHANGED <<lock, reservation, db, pc, job, faults>>

AppendEvent(w) ==
    /\ pc[w] = "write" /\ job[w].op = "event" /\ job[w] \notin trace
    /\ trace' = trace \cup {job[w]}
    /\ UNCHANGED <<lock, reservation, running, files, rows, local, faults>>

Written(w) == todo[w] = {} /\ (job[w].op = "event" => job[w] \in trace)

Commit(w) ==
    /\ pc[w] = "write" /\ Written(w) /\ Admissible(job[w])
    /\ rows' = rows \cup Rows(job[w])
    /\ lock' = Free
    /\ Goto(w, "leave")
    /\ UNCHANGED <<reservation, running, trace, files, job, todo, fresh, faults>>

(* Storing or committing fails.  A batch removes its new files while the   *)
(* exception passes its own handler, which a refused COMMIT does not.      *)
Rollback(w) ==
    /\ pc[w] = "write"
    /\ \/ Fault
       \/ /\ Written(w) /\ (Admissible(job[w]) => InputTaken(job[w]) # {} /\ job[w].op = "input")
          /\ UNCHANGED faults
    /\ files' = IF job[w].op = "batch" /\ todo[w] # {} THEN files \ fresh[w] ELSE files
    /\ lock' = Free
    /\ Goto(w, IF job[w].op = "capture" THEN "clean" ELSE "leave")
    /\ UNCHANGED <<reservation, db, job, todo, fresh>>

(* The capture's handler, outside the transaction.                         *)
CleanUp(w) ==
    /\ pc[w] = "clean"
    /\ files' = files \ fresh[w]
    /\ Goto(w, "leave")
    /\ UNCHANGED <<lock, reservation, db, job, todo, fresh, faults>>

Forget(w) ==
    /\ pc' = [pc EXCEPT ![w] = "idle"]
    /\ job' = [job EXCEPT ![w] = NoJob]
    /\ todo' = [todo EXCEPT ![w] = {}]
    /\ fresh' = [fresh EXCEPT ![w] = {}]
    /\ reservation' = [r \in Runs |-> IF reservation[r] = w THEN Free ELSE reservation[r]]

Leave(w) ==
    /\ pc[w] = "leave"
    /\ Forget(w)
    /\ UNCHANGED <<lock, db, files, faults>>

(* The kernel and SQLite release a dead writer's locks; its files stay.    *)
Crash(w) ==
    /\ pc[w] # "idle" /\ Fault
    /\ Forget(w)
    /\ lock' = IF lock = w THEN Free ELSE lock
    /\ UNCHANGED <<db, files>>

(* Seeded fault: the lifecycle does not wait for the write lock. *)
RunEndsAtOnce(r) ==
    /\ r \in running
    /\ running' = running \ {r}
    /\ UNCHANGED <<lock, reservation, rows, trace, files, local, faults>>

(* transition_run, a write transaction like the others.                    *)
RunEnds(r) ==
    /\ lock = Free /\ r \in running
    /\ running' = running \ {r}
    /\ UNCHANGED <<lock, reservation, rows, trace, files, local, faults>>

Next ==
    \/ \E w \in Writers :
          \/ \E j \in Jobs : Reserve(w, j) \/ Request(w, j)
          \/ Preflight(w) \/ LookForText(w) \/ BeginTransaction(w)
          \/ (\E i \in todo[w] : StoreBlob(w, i))
          \/ AppendEvent(w) \/ Commit(w) \/ Rollback(w) \/ CleanUp(w)
          \/ Leave(w) \/ Crash(w)
    \/ \E r \in Runs : RunEnds(r)

Spec == Init /\ [][Next]_vars

-----------------------------------------------------------------------------
(* Properties                                                               *)

Items == UNION {j.items : j \in Jobs}

(* Locks are held by writers, rows come from jobs, files hold contents.    *)
TypeOK ==
    /\ lock \in Writers \cup {Free}
    /\ reservation \in [Runs -> Writers \cup {Free}]
    /\ running \subseteq Runs
    /\ files \subseteq Contents(Items)
    /\ rows \subseteq UNION {Rows(j) : j \in Jobs}
    /\ trace \subseteq Jobs
    /\ pc \in [Writers -> {"idle", "preflight", "look", "begin", "write", "clean", "leave"}]
    /\ job \in [Writers -> Jobs \cup {NoJob}]
    /\ todo \in [Writers -> SUBSET Items]
    /\ fresh \in [Writers -> SUBSET Contents(Items)]
    /\ faults \in 0..MaxFaults

(* Whoever fails, dies or cleans up, the bytes of every registered         *)
(* artifact and input stay on disk, the contested ones excepted.           *)
FilesPresent == Contents(rows) \ Contested \subseteq files

(* Concurrent batches and captures of one Run do not together exceed what  *)
(* each of them checked.                                                   *)
WithinLimits ==
    \A r \in rows : r.role \notin {"input", "output"} =>
        Cardinality({s \in rows : s.run = r.run /\ s.role = r.role}) <= RoleLimit

(* An identity keeps its content and its Run once committed, whatever is   *)
(* submitted under it later.                                               *)
OneContentPerIdentity ==
    \A r, s \in rows : r.id = s.id /\ (r.role = "input" <=> s.role = "input") => r = s

(* No committed row is ever without its file, whoever fails and cleans up, *)
(* but for the bytes a capture shares with another Run's call; an identity *)
(* has one content and no Run more captures than its limits.               *)
NoDangling == TypeOK /\ FilesPresent /\ WithinLimits /\ OneContentPerIdentity

(* No capture, no batch and no trace event is added to a Run that has      *)
(* ended: the status its writer saw still holds when it commits.  Outputs  *)
(* that are put for the Run, whose status put_bytes does not look at, may  *)
(* come later.                                                             *)
NothingAfterTheEnd ==
    /\ \A r \in rows' \ rows : r.role \in {"input", "output"} \/ r.run \in running
    /\ \A e \in trace' \ trace : e.run \in running
=============================================================================
