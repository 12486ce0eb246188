---------------------------- MODULE ResearchState ----------------------------
(***************************************************************************)
(* StateTransitionService.apply over the SQLite repository, run by several *)
(* application processes at once.  A call is the code's sequence of        *)
(* separate database reads (idempotency lookup, project and lineage rows   *)
(* with the HEAD Snapshot, then everything else) followed by validation    *)
(* and one BEGIN IMMEDIATE commit, so every other process may act between  *)
(* two reads.  A process may die at any point and its request be submitted *)
(* again by anyone.  Rebinding the Project/Profile needs the Workspace     *)
(* lock that every open handle shares.                                     *)
(***************************************************************************)
EXTENDS SerialState

CONSTANT Clients

VARIABLES
    pc,       \* where each process stands in apply
    cur,      \* the request it is applying
    view,     \* the StateView it has loaded so far
    reply     \* what the last call answered

callers == <<pc, cur, view, reply>>
vars == <<tables, requests, callers>>

Nothing == [idle |-> TRUE]

Init ==
    /\ TablesInit
    /\ pc = [c \in Clients |-> "idle"]
    /\ cur = [c \in Clients |-> Nothing]
    /\ view = [c \in Clients |-> Nothing]
    /\ reply = [c \in Clients |-> Nothing]

Answer(c, kind) ==
    /\ pc' = [pc EXCEPT ![c] = "answered"]
    /\ reply' = [reply EXCEPT ![c] = kind]
    /\ view' = [view EXCEPT ![c] = Nothing]
    /\ UNCHANGED cur

Rejected(code) == [code |-> code]

Receipt(k) == [receipt |-> k]

-----------------------------------------------------------------------------
(* apply                                                                    *)

Prepare(p) == Draft(p) /\ UNCHANGED callers

(* A process opens the Workspace (shared lock) and calls apply.            *)
Submit(c, r) ==
    /\ pc[c] = "idle"
    /\ pc' = [pc EXCEPT ![c] = "lookup"]
    /\ cur' = [cur EXCEPT ![c] = r]
    /\ UNCHANGED <<tables, requests, view, reply>>

SameKey(r) == {k \in commits : k.req.p.key = r.p.key}

(* Seeded fault: the key alone finds the receipt.                           *)
LookupByKeyAlone(c) ==
    /\ pc[c] = "lookup"
    /\ \/ /\ SameKey(cur[c]) = {}
          /\ pc' = [pc EXCEPT ![c] = "head"]
          /\ UNCHANGED <<cur, view, reply>>
       \/ \E k \in SameKey(cur[c]) : Answer(c, Receipt(k))
    /\ UNCHANGED <<tables, requests>>

(* find_commit_by_idempotency_key: the stored receipt, or a rejection when *)
(* the key was committed with another request digest.                      *)
Lookup(c) ==
    /\ pc[c] = "lookup"
    /\ \/ /\ SameKey(cur[c]) = {}
          /\ pc' = [pc EXCEPT ![c] = "head"]
          /\ UNCHANGED <<cur, view, reply>>
       \/ \E k \in SameKey(cur[c]) :
             Answer(c, IF k.req = cur[c] THEN Receipt(k)
                                         ELSE Rejected("RT-IDEMPOTENCY-001"))
    /\ UNCHANGED <<tables, requests>>

(* load_state_view, first reads: project row, lineage row, HEAD Snapshot.  *)
ReadHead(c) ==
    LET line == cur[c].p.line IN
    /\ pc[c] = "head"
    /\ pc' = [pc EXCEPT ![c] = "rest"]
    /\ view' = [view EXCEPT ![c] =
           [pin |-> config, head |-> lines[line].head,
            members |-> MembersOf(lines[line].head)]]
    /\ UNCHANGED <<tables, requests, cur, reply>>

LoadedView(c) ==
    [pin |-> view[c].pin, head |-> view[c].head, members |-> view[c].members,
     objects |-> objects, decisions |-> decisions,
     snapIds |-> {s.id : s \in snapshots}, lines |-> lines, used |-> used]

(* load_state_view, remaining reads, then pure validation and reduction.   *)
ReadRest(c) ==
    /\ pc[c] = "rest"
    /\ IF Valid(LoadedView(c), cur[c])
       THEN /\ pc' = [pc EXCEPT ![c] = "commit"]
            /\ view' = [view EXCEPT ![c] = LoadedView(c)]
            /\ UNCHANGED <<cur, reply>>
       ELSE Answer(c, Rejected("RT-INVALID"))
    /\ UNCHANGED <<tables, requests>>

-----------------------------------------------------------------------------
(* ResearchStateRepository.commit, one transaction                          *)

(* Seeded fault: the HEAD comparison is left to validation alone.           *)
HeadUnchecked(c) == TRUE

HeadUnmoved(c) == lines[cur[c].p.line].head = cur[c].head

(* Seeded fault: INSERT OR IGNORE instead of comparing the stored payload.  *)
RowsIgnored(r) == \A x \in decisions, y \in r.p.records : x.id = y.id => x = y

(* _insert_immutable_object and _insert_decision_index accept an identity  *)
(* only when it is new or already holds the same payload.                  *)
RowsFit(r) ==
    /\ \A x \in objects, y \in NewRows(r) : (x.obj = y.obj /\ x.rev = y.rev) => x = y
    /\ \A x \in decisions, y \in r.p.records : x.id = y.id => x = y

SnapshotFresh(r) == r.p.kind # "switch" => \A s \in snapshots : s.id # r.p.snap

LineageFits(r) ==
    /\ r.p.kind = "fork" => lines[r.p.target].head = NoSnap
    /\ r.p.kind = "switch" => lines[r.p.target].head # NoSnap

(* Seeded fault: spending is checked on the loaded view only.               *)
UnspentUnchecked(spent) == TRUE

(* used_decisions has the Decision as its primary key.                     *)
Unspent(spent) == spent \cap used = {}

Spent(c) == Consumed(view[c].objects, cur[c].p)

Fits(c) == /\ RowsFit(cur[c])
           /\ SnapshotFresh(cur[c])
           /\ LineageFits(cur[c])
           /\ Unspent(Spent(c))

Commit(c) ==
    /\ pc[c] = "commit"
    /\ SameKey(cur[c]) = {}
    /\ HeadUnmoved(c)
    /\ Fits(c)
    /\ Persist(cur[c], view[c].members, Spent(c), view[c].lines[cur[c].p.line].pin)
    /\ UNCHANGED requests
    /\ Answer(c, Receipt([req |-> cur[c], prior |-> cur[c].head, consumed |-> Spent(c)]))

(* Replay inside the transaction: an equal request committed meanwhile.    *)
CommitReplayed(c) ==
    /\ pc[c] = "commit"
    /\ \E k \in SameKey(cur[c]) :
          Answer(c, IF k.req = cur[c] THEN Receipt(k)
                                      ELSE Rejected("RT-IDEMPOTENCY-002"))
    /\ UNCHANGED <<tables, requests>>

CommitRefused(c) ==
    /\ pc[c] = "commit"
    /\ SameKey(cur[c]) = {}
    /\ \/ ~HeadUnmoved(c) /\ Answer(c, Rejected("RT-HEAD-002"))
       \/ HeadUnmoved(c) /\ ~Fits(c) /\ Answer(c, Rejected("RT-PERSIST-001"))
    /\ UNCHANGED <<tables, requests>>

-----------------------------------------------------------------------------
(* The processes around apply                                               *)

(* Seeded fault: the handle forgets its request and stays in the call.      *)
LeaveHalfway(c) ==
    /\ cur' = [cur EXCEPT ![c] = Nothing]
    /\ view' = [view EXCEPT ![c] = Nothing]
    /\ UNCHANGED <<tables, requests, pc, reply>>

Leave(c) ==
    /\ pc' = [pc EXCEPT ![c] = "idle"]
    /\ cur' = [cur EXCEPT ![c] = Nothing]
    /\ view' = [view EXCEPT ![c] = Nothing]
    /\ reply' = [reply EXCEPT ![c] = Nothing]
    /\ UNCHANGED <<tables, requests>>

Close(c) == pc[c] = "answered" /\ Leave(c)

(* The process dies inside apply; its shared Workspace lock is released.   *)
Crash(c) == pc[c] \notin {"idle", "answered"} /\ Leave(c)

(* Seeded fault: a rebind waits for running commits only.                   *)
NoCommitRunning == \A c \in Clients : pc[c] # "commit"

(* The exclusive Workspace lock: no handle is open anywhere.               *)
Exclusive == \A c \in Clients : pc[c] = "idle"

Advance(pin) == Exclusive /\ Rebind(pin) /\ UNCHANGED callers

Next ==
    \/ \E p \in Proposals : Prepare(p)
    \/ \E c \in Clients : \E r \in requests : Submit(c, r)
    \/ \E c \in Clients : Lookup(c)
    \/ \E c \in Clients : ReadHead(c)
    \/ \E c \in Clients : ReadRest(c)
    \/ \E c \in Clients : Commit(c)
    \/ \E c \in Clients : CommitReplayed(c)
    \/ \E c \in Clients : CommitRefused(c)
    \/ \E c \in Clients : Close(c)
    \/ \E c \in Clients : Crash(c)
    \/ \E pin \in Pins : Advance(pin)

Spec == Init /\ [][Next]_vars

-----------------------------------------------------------------------------
(* Properties                                                               *)

TypeOK ==
    /\ config \in Pins
    /\ \A x \in objects : x.obj \in Objects /\ x.rev \in Nat
    /\ lines \in [LineageIds -> [head : SnapIds \cup {NoSnap}, pin : Pins]]
    /\ active \in LineageIds
    /\ \A r \in requests : r.p \in Proposals /\ r.pin \in Pins
    /\ pc \in [Clients -> {"idle", "lookup", "head", "rest", "commit", "answered"}]
    /\ \A c \in Clients : pc[c] # "idle" => cur[c] \in requests

Advances(k, l) == k.req.p.kind = "edit" /\ k.req.p.line = l

(* No lost update.  Two commits never advance one lineage from the same    *)
(* Snapshot, and the lineage HEAD is the Snapshot of the last of them: the *)
(* HEAD comparison inside the commit transaction (_write.py) makes every   *)
(* lineage a chain although requests are validated on views read earlier.  *)
LineageIsChain ==
    /\ \A j, k \in commits : \A l \in LineageIds :
          Advances(j, l) /\ Advances(k, l) /\ j.prior = k.prior => j = k
    /\ \A k \in commits : \A l \in LineageIds :
          Advances(k, l) => k.prior # lines[l].head

(* A Human Decision is consumed at most once, by one commit, on whatever   *)
(* lineage: the used_decisions key is checked inside the transaction.      *)
DecisionsSingleUse ==
    \A j, k \in commits : j.consumed \cap k.consumed # {} => j = k

(* Every status change a human must make carries that human's Decision: an *)
(* approved or verified revision follows an equal status, or its commit    *)
(* consumed a human Decision on that object with a fitting choice.         *)
Follows(x) == \E y \in objects : y.obj = x.obj /\ y.rev = x.rev - 1 /\ y.status = x.status

Backed(x) ==
    \E k \in commits, d \in decisions :
        /\ x \in NewRows(k.req)
        /\ d.id \in k.consumed /\ d.human /\ x.obj \in d.subjects
        /\ d.choice \in {IF x.obj \in Questions THEN "approve" ELSE "verify",
                         "reconfirm"}

StatusNeedsHuman ==
    \A x \in objects \ SeedRows :
        x.status \in {"approved", "verified"} => Follows(x) \/ Backed(x)

(* A revision identity has one content and every Snapshot member resolves  *)
(* to a stored revision, one per object.                                   *)
SnapshotsClosed ==
    /\ \A x, y \in objects : x.obj = y.obj /\ x.rev = y.rev => x = y
    /\ \A s \in snapshots : \A m \in s.members :
          /\ \E x \in objects : <<x.obj, x.rev>> = m
          /\ \A n \in s.members : m[1] = n[1] => m = n
    /\ \A l \in LineageIds : lines[l].head # NoSnap =>
          \E s \in snapshots : s.id = lines[l].head

(* An answered receipt is the stored commit of exactly the request asked,  *)
(* however often and by whomever it is retried.                            *)
ReceiptsTrue ==
    \A c \in Clients :
        pc[c] = "answered" /\ "receipt" \in DOMAIN reply[c] =>
            /\ reply[c].receipt \in commits
            /\ reply[c].receipt.req = cur[c]

(* A commit never lands under another Project/Profile binding than the one *)
(* it was validated with: commit does not compare pins again, the shared   *)
(* Workspace lock keeps a rebind out while a request is in flight.         *)
CommitsUnderTheirPin ==
    [][\A k \in commits' \ commits : k.req.pin = config']_vars

=============================================================================
