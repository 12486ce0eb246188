------------------------- MODULE ResearchStateProofs -------------------------
(***************************************************************************)
(* Theorems about ResearchState for every set of processes, proposals,     *)
(* lineages and bindings.                                                  *)
(***************************************************************************)
EXTENDS ResearchState, TLAPS

LineType == [head : SnapIds \cup {NoSnap}, pin : Pins]

StoredIds == {s.id : s \in snapshots} \cup {NoSnap}

-----------------------------------------------------------------------------
(* Type correctness                                                         *)

(* Every stored object has a newest revision, so the revision a request    *)
(* pins is a number.                                                       *)
LatestExists ==
    \A o \in Objects : Known(objects, o) =>
        \E x \in RowsOf(objects, o) : \A y \in RowsOf(objects, o) : y.rev <= x.rev

CallersTyped ==
    /\ \A r \in requests : r.revs \in [EditedObjects(r.p) -> Nat]
    /\ DOMAIN cur = Clients /\ DOMAIN view = Clients /\ DOMAIN reply = Clients
    /\ \A c \in Clients : pc[c] = "commit" => view[c].lines \in [LineageIds -> LineType]

TypeInv == TypeOK /\ LatestExists /\ CallersTyped

(* NextRev is the successor of the newest stored revision, or zero.        *)
LEMMA NextRevIsNat ==
    ASSUME TypeInv, NEW o \in Objects
    PROVE  NextRev(objects, o) \in Nat
<1>1. CASE ~Known(objects, o)
  BY <1>1 DEF NextRev
<1>2. CASE Known(objects, o)
  <2>1. Latest(objects, o) \in RowsOf(objects, o)
    BY <1>2 DEF Latest, TypeInv, LatestExists
  <2>2. Latest(objects, o).rev \in Nat
    BY <2>1 DEF RowsOf, TypeInv, TypeOK
  <2> QED BY <1>2, <2>2 DEF NextRev
<1> QED BY <1>1, <1>2

(* The edits of a proposal are edits of declared objects, one per object.  *)
LEMMA NewRowsTyped ==
    ASSUME TypeInv, NEW r \in requests
    PROVE  /\ \A x \in NewRows(r) : x.obj \in Objects /\ x.rev \in Nat
           /\ \A x, y \in NewRows(r) : x.obj = y.obj => x = y
<1>1. /\ r.p \in Proposals
      /\ \A e \in r.p.edits : /\ e.obj \in Objects
                              /\ \A f \in r.p.edits : e.obj = f.obj => e = f
  BY ProposalAssumption DEF TypeInv, TypeOK
<1>2. r.revs \in [EditedObjects(r.p) -> Nat]
  BY DEF TypeInv, CallersTyped
<1>3. ASSUME NEW x \in NewRows(r) PROVE x.obj \in Objects /\ x.rev \in Nat
  <2> PICK e \in r.p.edits : x = [obj |-> e.obj, rev |-> r.revs[e.obj],
                status |-> e.status, body |-> e.body, decs |-> e.refs]
    BY DEF NewRows
  <2>1. e.obj \in EditedObjects(r.p)
    BY DEF EditedObjects
  <2> QED BY <1>1, <1>2, <2>1
<1>4. ASSUME NEW x \in NewRows(r), NEW y \in NewRows(r), x.obj = y.obj PROVE x = y
  BY <1>1, <1>4 DEF NewRows
<1> QED BY <1>3, <1>4

(* A newest revision still exists after the rows of a request are stored.  *)
LEMMA LatestKept ==
    ASSUME TypeInv, NEW r \in requests, objects' = objects \cup NewRows(r)
    PROVE  LatestExists'
<1> SUFFICES ASSUME NEW o \in Objects, Known(objects', o)
             PROVE  \E x \in RowsOf(objects', o) :
                        \A y \in RowsOf(objects', o) : y.rev <= x.rev
  BY DEF LatestExists
<1>0. /\ \A x \in NewRows(r) : x.obj \in Objects /\ x.rev \in Nat
      /\ \A x, y \in NewRows(r) : x.obj = y.obj => x = y
      /\ \A x \in objects : x.rev \in Nat
  BY NewRowsTyped DEF TypeInv, TypeOK
<1>1. CASE \E x \in NewRows(r) : x.obj = o
  <2> PICK n \in NewRows(r) : n.obj = o
    BY <1>1
  <2>1. CASE Known(objects, o)
    <3> PICK x \in RowsOf(objects, o) : \A y \in RowsOf(objects, o) : y.rev <= x.rev
      BY <2>1 DEF TypeInv, LatestExists
    <3>1. CASE x.rev <= n.rev
      BY <1>0, <3>1 DEF RowsOf
    <3>2. CASE n.rev <= x.rev
      BY <1>0, <3>2 DEF RowsOf
    <3> QED BY <1>0, <3>1, <3>2 DEF RowsOf
  <2>2. CASE ~Known(objects, o)
    BY <1>0, <2>2 DEF RowsOf, Known
  <2> QED BY <2>1, <2>2
<1>2. CASE ~\E x \in NewRows(r) : x.obj = o
  <2>1. RowsOf(objects', o) = RowsOf(objects, o)
    BY <1>2 DEF RowsOf
  <2> QED BY <2>1 DEF TypeInv, LatestExists, Known
<1> QED BY <1>1, <1>2

(* The columns commit writes keep their types.                             *)
LEMMA PersistTyped ==
    ASSUME TypeInv, NEW r \in requests, NEW members, NEW spent, NEW linePin \in Pins,
           Persist(r, members, spent, linePin)
    PROVE  /\ config' \in Pins
           /\ \A x \in objects' : x.obj \in Objects /\ x.rev \in Nat
           /\ lines' \in [LineageIds -> LineType]
           /\ active' \in LineageIds
           /\ LatestExists'
<1>1. /\ r.p.line \in LineageIds /\ r.p.target \in LineageIds
      /\ r.p.snap \in SnapIds /\ r.p.kind \in {"edit", "fork", "switch"}
      /\ r.pin \in Pins
  BY ProposalAssumption DEF TypeInv, TypeOK
<1>2. config' = config /\ objects' = objects \cup NewRows(r)
  BY DEF Persist
<1>3. \A x \in objects' : x.obj \in Objects /\ x.rev \in Nat
  BY <1>2, NewRowsTyped DEF TypeInv, TypeOK
<1>4. lines' \in [LineageIds -> LineType]
  <2>1. lines \in [LineageIds -> LineType]
    BY DEF TypeInv, TypeOK, LineType
  <2>2. CASE r.p.kind = "edit"
    BY <1>1, <2>1, <2>2 DEF Persist, LineType
  <2>3. CASE r.p.kind = "fork"
    BY <1>1, <2>1, <2>3 DEF Persist, LineType
  <2>4. CASE r.p.kind = "switch"
    BY <2>1, <2>4 DEF Persist
  <2> QED BY <1>1, <2>2, <2>3, <2>4
<1>5. active' \in LineageIds
  BY <1>1 DEF Persist, TypeInv, TypeOK
<1> QED BY <1>2, <1>3, <1>4, <1>5, LatestKept DEF TypeInv, TypeOK

LEMMA TypeInit == Init => TypeInv
<1> SUFFICES ASSUME Init PROVE TypeInv
  OBVIOUS
<1>1. TypeOK
  BY SeedAssumption, RootAssumption, SnapAssumption, PinAssumption
     DEF Init, TablesInit, TypeOK, NoLine
<1>2. LatestExists
  BY SeedAssumption DEF Init, TablesInit, LatestExists, Known, RowsOf
<1>3. CallersTyped
  BY DEF Init, TablesInit, CallersTyped
<1> QED BY <1>1, <1>2, <1>3 DEF TypeInv

LEMMA TypeStep == TypeInv /\ [Next]_vars => TypeInv'
<1> SUFFICES ASSUME TypeInv, [Next]_vars PROVE TypeInv'
  OBVIOUS
<1> USE DEF TypeInv
<1>1. ASSUME NEW p \in Proposals, Prepare(p) PROVE TypeInv'
  <2>1. /\ requests' = requests \cup {Request(p)}
        /\ UNCHANGED tables /\ UNCHANGED callers
    BY <1>1 DEF Prepare, Draft
  <2>2. Request(p).p \in Proposals /\ Request(p).pin \in Pins
    BY DEF Request, TypeOK
  <2>3. \A o \in EditedObjects(p) : o \in Objects
    BY ProposalAssumption DEF EditedObjects
  <2>4. Request(p).revs \in [EditedObjects(Request(p).p) -> Nat]
    BY <2>3, NextRevIsNat DEF Request
  <2>5. TypeOK'
    BY <2>1, <2>2 DEF tables, callers, TypeOK
  <2>6. LatestExists'
    BY <2>1 DEF tables, LatestExists
  <2>7. CallersTyped'
    BY <2>1, <2>4 DEF tables, callers, CallersTyped
  <2> QED BY <2>5, <2>6, <2>7
<1>2. ASSUME NEW c \in Clients, NEW r \in requests, Submit(c, r) PROVE TypeInv'
  BY <1>2 DEF Submit, tables, TypeOK, LatestExists, CallersTyped
<1>3. ASSUME NEW c \in Clients, Lookup(c) PROVE TypeInv'
  BY <1>3 DEF Lookup, Answer, tables, TypeOK, LatestExists, CallersTyped
<1>4. ASSUME NEW c \in Clients, ReadHead(c) PROVE TypeInv'
  BY <1>4 DEF ReadHead, tables, TypeOK, LatestExists, CallersTyped
<1>5. ASSUME NEW c \in Clients, ReadRest(c) PROVE TypeInv'
  <2>1. UNCHANGED <<tables, requests, cur>>
    BY <1>5 DEF ReadRest, Answer
  <2>2. LoadedView(c).lines = lines
    BY DEF LoadedView
  <2> QED
    BY <1>5, <2>1, <2>2 DEF ReadRest, Answer, tables, TypeOK, LatestExists, CallersTyped, LineType
<1>6. ASSUME NEW c \in Clients, Commit(c) PROVE TypeInv'
  <2> DEFINE linePin == view[c].lines[cur[c].p.line].pin
  <2>1. cur[c] \in requests
    BY <1>6 DEF Commit, TypeOK
  <2>2. linePin \in Pins
    BY <1>6, <2>1, ProposalAssumption DEF Commit, TypeOK, CallersTyped, LineType
  <2>3. Persist(cur[c], view[c].members, Spent(c), linePin)
    BY <1>6 DEF Commit
  <2> HIDE DEF linePin
  <2>4. /\ config' \in Pins
        /\ \A x \in objects' : x.obj \in Objects /\ x.rev \in Nat
        /\ lines' \in [LineageIds -> LineType]
        /\ active' \in LineageIds
        /\ LatestExists'
    BY <2>1, <2>2, <2>3, PersistTyped
  <2>5. UNCHANGED requests
    BY <1>6 DEF Commit
  <2>6. pc' = [pc EXCEPT ![c] = "answered"] /\ UNCHANGED cur
        /\ DOMAIN view' = DOMAIN view /\ DOMAIN reply' = DOMAIN reply
        /\ \A d \in Clients \ {c} : view'[d] = view[d]
    BY <1>6 DEF Commit, Answer, CallersTyped
  <2>7. TypeOK'
    BY <2>1, <2>4, <2>5, <2>6 DEF TypeOK, LineType
  <2>8. CallersTyped'
    BY <2>5, <2>6 DEF CallersTyped, TypeOK
  <2> QED BY <2>4, <2>7, <2>8
<1>7. ASSUME NEW c \in Clients, CommitReplayed(c) PROVE TypeInv'
  BY <1>7 DEF CommitReplayed, Answer, tables, TypeOK, LatestExists, CallersTyped
<1>8. ASSUME NEW c \in Clients, CommitRefused(c) PROVE TypeInv'
  BY <1>8 DEF CommitRefused, Answer, tables, TypeOK, LatestExists, CallersTyped
<1>9. ASSUME NEW c \in Clients, Leave(c) PROVE TypeInv'
  BY <1>9 DEF Leave, tables, TypeOK, LatestExists, CallersTyped
<1>10. ASSUME NEW pin \in Pins, Advance(pin) PROVE TypeInv'
  BY <1>10 DEF Advance, Rebind, callers, TypeOK, LatestExists, CallersTyped, LineType
<1>11. CASE UNCHANGED vars
  BY <1>11 DEF vars, tables, callers, TypeOK, LatestExists, CallersTyped, RowsOf, Known
<1> QED
  BY <1>1, <1>2, <1>3, <1>4, <1>5, <1>6, <1>7, <1>8, <1>9, <1>10, <1>11
     DEF Next, Close, Crash

(* Every reachable state is well typed, whatever the callers propose.      *)
THEOREM TypeCorrect == Spec => []TypeOK
<1>1. Spec => []TypeInv
  BY TypeInit, TypeStep, PTL DEF Spec
<1>2. TypeInv => TypeOK
  BY DEF TypeInv
<1> QED BY <1>1, <1>2, PTL

-----------------------------------------------------------------------------
(* Lineages are chains                                                      *)

(* Every HEAD and every prior names a stored Snapshot (or none), so a fresh *)
(* Snapshot id is none of them.                                            *)
HeadsStored ==
    /\ \A l \in LineageIds : lines[l].head \in StoredIds
    /\ \A k \in commits : k.prior \in StoredIds

ChainInv == TypeInv /\ HeadsStored /\ LineageIsChain

LEMMA ChainInit == Init => ChainInv
<1>1. Init => HeadsStored
  BY DEF Init, TablesInit, HeadsStored, StoredIds, NoLine
<1>2. Init => LineageIsChain
  BY DEF Init, TablesInit, LineageIsChain
<1> QED BY <1>1, <1>2, TypeInit DEF ChainInv

(* A commit that found the HEAD unmoved and its Snapshot id fresh extends  *)
(* the chain of the lineage it advances and leaves the others alone.       *)
LEMMA CommitExtendsChain ==
    ASSUME ChainInv, NEW c \in Clients, Commit(c)
    PROVE  HeadsStored' /\ LineageIsChain'
<1> DEFINE r == cur[c]
           new == [req |-> r, prior |-> r.head, consumed |-> Spent(c)]
<1>1. r \in requests
  BY DEF Commit, ChainInv, TypeInv, TypeOK
<1>2. /\ r.p.line \in LineageIds /\ r.p.target \in LineageIds
      /\ r.p.snap \in SnapIds /\ r.p.kind \in {"edit", "fork", "switch"}
  BY <1>1, ProposalAssumption DEF ChainInv, TypeInv, TypeOK
<1>3. /\ lines[r.p.line].head = r.head
      /\ r.p.kind # "switch" => r.p.snap \notin StoredIds
      /\ r.p.kind = "fork" => lines[r.p.target].head = NoSnap
  BY <1>2, SnapAssumption DEF Commit, HeadUnmoved, Fits, SnapshotFresh, LineageFits, StoredIds
<1>4. commits' = commits \cup {new}
  BY DEF Commit, Persist
<1>5. lines \in [LineageIds -> LineType]
  BY DEF ChainInv, TypeInv, TypeOK, LineType
<1>6. StoredIds \subseteq StoredIds' /\ (r.p.kind # "switch" => r.p.snap \in StoredIds')
  <2>1. CASE r.p.kind = "switch"
    BY <2>1 DEF Commit, Persist, StoredIds
  <2>2. CASE r.p.kind # "switch"
    <3> DEFINE s == [id |-> r.p.snap, prior |-> r.head,
                     members |-> NextMembers(view[c].members, r)]
    <3>1. snapshots' = snapshots \cup {s}
      BY <2>2 DEF Commit, Persist
    <3>2. s.id = r.p.snap
      OBVIOUS
    <3> HIDE DEF s, r
    <3> QED BY <3>1, <3>2 DEF StoredIds
  <2> QED BY <2>1, <2>2
<1>7. \A l \in LineageIds :
         \/ lines'[l].head = lines[l].head
         \/ /\ r.p.kind # "switch" /\ lines'[l].head = r.p.snap
            /\ r.p.kind = "edit" => l = r.p.line
  <2>1. CASE r.p.kind = "edit"
    BY <1>2, <1>5, <2>1 DEF Commit, Persist
  <2>2. CASE r.p.kind = "fork"
    BY <1>2, <1>5, <2>2 DEF Commit, Persist
  <2>3. CASE r.p.kind = "switch"
    BY <2>3 DEF Commit, Persist
  <2> QED BY <1>2, <2>1, <2>2, <2>3
<1>8. r.head \in StoredIds
  BY <1>2, <1>3 DEF ChainInv, HeadsStored
<1>9. HeadsStored'
  BY <1>4, <1>6, <1>7, <1>8 DEF ChainInv, HeadsStored
<1>10. r.p.kind = "edit" => lines'[r.p.line].head = r.p.snap
  BY <1>2, <1>5 DEF Commit, Persist
<1>11. ASSUME NEW j \in commits', NEW k \in commits', NEW l \in LineageIds,
              Advances(j, l), Advances(k, l), j.prior = k.prior
       PROVE  j = k
  <2>1. \A i \in commits : Advances(i, l) => i.prior # lines[l].head
    BY DEF ChainInv, LineageIsChain
  <2>2. Advances(new, l) => new.prior = lines[l].head
    BY <1>3 DEF Advances
  <2>3. CASE j \in commits /\ k \in commits
    BY <1>11, <2>3 DEF ChainInv, LineageIsChain
  <2> QED BY <1>4, <1>11, <2>1, <2>2, <2>3
<1>12. ASSUME NEW k \in commits', NEW l \in LineageIds, Advances(k, l)
       PROVE  k.prior # lines'[l].head
  <2>1. k.prior \in StoredIds
    BY <1>4, <1>8 DEF ChainInv, HeadsStored
  <2>2. CASE lines'[l].head = r.p.snap /\ r.p.kind # "switch"
    BY <1>3, <2>1, <2>2
  <2>3. CASE lines'[l].head = lines[l].head /\ k \in commits
    BY <1>12, <2>3 DEF ChainInv, LineageIsChain
  <2>4. CASE k = new
    BY <1>2, <1>3, <1>8, <1>10, <1>12, <2>4 DEF Advances
  <2> QED BY <1>4, <1>7, <2>2, <2>3, <2>4
<1> QED BY <1>9, <1>11, <1>12 DEF LineageIsChain

LEMMA ChainStep == ChainInv /\ [Next]_vars => ChainInv'
<1> SUFFICES ASSUME ChainInv, [Next]_vars PROVE ChainInv'
  OBVIOUS
<1>1. TypeInv'
  BY TypeStep DEF ChainInv
<1>2. ASSUME NEW c \in Clients, Commit(c) PROVE HeadsStored' /\ LineageIsChain'
  BY <1>2, CommitExtendsChain
<1>3. ASSUME NEW pin \in Pins, Advance(pin) PROVE HeadsStored' /\ LineageIsChain'
  <2>1. /\ UNCHANGED <<snapshots, commits>>
        /\ lines' = [lines EXCEPT ![active].pin = pin]
    BY <1>3 DEF Advance, Rebind
  <2>2. lines \in [LineageIds -> LineType] /\ active \in LineageIds
    BY DEF ChainInv, TypeInv, TypeOK, LineType
  <2>3. \A l \in LineageIds : lines'[l].head = lines[l].head
    BY <2>1, <2>2 DEF LineType
  <2> QED
    BY <2>1, <2>3 DEF ChainInv, HeadsStored, StoredIds, LineageIsChain, Advances
<1>4. CASE UNCHANGED tables
  <2>1. UNCHANGED <<lines, commits, snapshots>>
    BY <1>4 DEF tables
  <2>2. HeadsStored'
    BY <2>1 DEF ChainInv, HeadsStored, StoredIds
  <2>3. LineageIsChain'
    BY <2>1 DEF ChainInv, LineageIsChain, Advances
  <2> QED BY <1>1, <2>2, <2>3 DEF ChainInv
<1>5. (~\E c \in Clients : Commit(c)) /\ (~\E pin \in Pins : Advance(pin))
        => UNCHANGED tables
  BY DEF Next, vars, tables, Prepare, Draft, Submit, Lookup, ReadHead, ReadRest,
         CommitReplayed, CommitRefused, Close, Crash, Leave
<1> QED BY <1>1, <1>2, <1>3, <1>4, <1>5 DEF ChainInv

(* No lost update: the commits of a lineage form a chain that ends at its  *)
(* HEAD, whatever the processes loaded before they committed.              *)
THEOREM ChainCorrect == Spec => []LineageIsChain
<1>1. Spec => []ChainInv
  BY ChainInit, ChainStep, PTL DEF Spec
<1> QED BY <1>1, PTL DEF ChainInv

-----------------------------------------------------------------------------
(* Decisions are spent once                                                 *)

(* What commits consumed is recorded as used, so the key check of the next *)
(* commit sees it.                                                         *)
SpentRecorded == \A k \in commits : k.consumed \subseteq used

SpendInv == SpentRecorded /\ DecisionsSingleUse

LEMMA SpendStep == SpendInv /\ [Next]_vars => SpendInv'
<1> SUFFICES ASSUME SpendInv, [Next]_vars PROVE SpendInv'
  OBVIOUS
<1> USE DEF SpendInv, SpentRecorded, DecisionsSingleUse
<1>1. ASSUME NEW c \in Clients, Commit(c) PROVE SpendInv'
  <2> DEFINE new == [req |-> cur[c], prior |-> cur[c].head, consumed |-> Spent(c)]
  <2>1. /\ commits' = commits \cup {new}
        /\ used' = used \cup Spent(c)
        /\ Spent(c) \cap used = {}
    BY <1>1 DEF Commit, Persist, Fits, Unspent
  <2>2. \A k \in commits : k.consumed \cap new.consumed = {}
    BY <2>1
  <2> QED BY <2>1, <2>2
<1>2. CASE UNCHANGED <<commits, used>>
  BY <1>2
<1>3. (~\E c \in Clients : Commit(c)) => UNCHANGED <<commits, used>>
  BY DEF Next, vars, tables, Prepare, Draft, Submit, Lookup, ReadHead, ReadRest,
         CommitReplayed, CommitRefused, Close, Crash, Leave, Advance, Rebind
<1> QED BY <1>1, <1>2, <1>3

(* A Human Decision is consumed by at most one commit of the project.      *)
THEOREM SingleUseCorrect == Spec => []DecisionsSingleUse
<1>1. Init => SpendInv
  BY DEF Init, TablesInit, SpendInv, SpentRecorded, DecisionsSingleUse
<1>2. Spec => []SpendInv
  BY <1>1, SpendStep, PTL DEF Spec
<1> QED BY <1>2, PTL DEF SpendInv

-----------------------------------------------------------------------------
(* Receipts                                                                 *)

ReceiptInv == TypeInv /\ ReceiptsTrue

LEMMA ReceiptStep == ReceiptInv /\ [Next]_vars => ReceiptInv'
<1> SUFFICES ASSUME ReceiptInv, [Next]_vars PROVE ReceiptsTrue'
  BY TypeStep DEF ReceiptInv
<1> USE DEF ReceiptInv, TypeInv, CallersTyped
<1>1. commits \subseteq commits'
  BY DEF Next, vars, tables, Prepare, Draft, Submit, Lookup, ReadHead, ReadRest, Commit,
         Persist, CommitReplayed, CommitRefused, Close, Crash, Leave, Advance, Rebind
<1>2. ASSUME NEW c \in Clients,
             UNCHANGED <<cur[c], reply[c]>>, pc'[c] = "answered" => pc[c] = "answered"
      PROVE  pc'[c] = "answered" /\ "receipt" \in DOMAIN reply'[c] =>
                reply'[c].receipt \in commits' /\ reply'[c].receipt.req = cur'[c]
  BY <1>1, <1>2 DEF ReceiptsTrue
<1>3. ASSUME NEW c \in Clients, NEW k \in commits', k.req = cur[c], Answer(c, Receipt(k))
      PROVE  ReceiptsTrue'
  <2>1. reply'[c].receipt = k /\ cur' = cur
    BY <1>3 DEF Answer, Receipt
  <2>2. \A d \in Clients \ {c} :
           UNCHANGED <<cur[d], reply[d]>> /\ (pc'[d] = "answered" => pc[d] = "answered")
    BY <1>3 DEF Answer, TypeOK
  <2> QED BY <1>2, <1>3, <2>1, <2>2 DEF ReceiptsTrue
<1>4. ASSUME NEW c \in Clients, NEW code, Answer(c, Rejected(code))
      PROVE  ReceiptsTrue'
  <2>1. "receipt" \notin DOMAIN reply'[c]
    BY <1>4 DEF Answer, Rejected
  <2>2. \A d \in Clients \ {c} :
           UNCHANGED <<cur[d], reply[d]>> /\ (pc'[d] = "answered" => pc[d] = "answered")
    BY <1>4 DEF Answer, TypeOK
  <2> QED BY <1>2, <2>1, <2>2 DEF ReceiptsTrue
<1>5. ASSUME NEW c \in Clients, pc'[c] # "answered",
             \A d \in Clients \ {c} :
                UNCHANGED <<cur[d], reply[d]>> /\ (pc'[d] = "answered" => pc[d] = "answered")
      PROVE  ReceiptsTrue'
  BY <1>2, <1>5 DEF ReceiptsTrue
<1>6. ASSUME NEW p \in Proposals, Prepare(p) PROVE ReceiptsTrue'
  BY <1>1, <1>6 DEF Prepare, callers, ReceiptsTrue
<1>7. ASSUME NEW c \in Clients, NEW r \in requests, Submit(c, r) PROVE ReceiptsTrue'
  BY <1>5, <1>7 DEF Submit, TypeOK
<1>8. ASSUME NEW c \in Clients, Lookup(c) PROVE ReceiptsTrue'
  <2>1. CASE SameKey(cur[c]) = {} /\ pc' = [pc EXCEPT ![c] = "head"] /\ UNCHANGED <<cur, reply>>
    BY <1>5, <2>1 DEF TypeOK
  <2>2. ASSUME NEW k \in SameKey(cur[c]),
               Answer(c, IF k.req = cur[c] THEN Receipt(k) ELSE Rejected("RT-IDEMPOTENCY-001"))
        PROVE  ReceiptsTrue'
    BY <1>1, <1>3, <1>4, <2>2 DEF SameKey
  <2> QED BY <1>8, <2>1, <2>2 DEF Lookup
<1>9. ASSUME NEW c \in Clients, ReadHead(c) PROVE ReceiptsTrue'
  BY <1>5, <1>9 DEF ReadHead, TypeOK
<1>10. ASSUME NEW c \in Clients, ReadRest(c) PROVE ReceiptsTrue'
  <2>1. CASE Valid(LoadedView(c), cur[c])
    BY <1>5, <1>10, <2>1 DEF ReadRest, TypeOK
  <2>2. CASE ~Valid(LoadedView(c), cur[c])
    BY <1>4, <1>10, <2>2 DEF ReadRest
  <2> QED BY <2>1, <2>2
<1>11. ASSUME NEW c \in Clients, Commit(c) PROVE ReceiptsTrue'
  <2> DEFINE k == [req |-> cur[c], prior |-> cur[c].head, consumed |-> Spent(c)]
  <2>1. k \in commits' /\ k.req = cur[c] /\ Answer(c, Receipt(k))
    BY <1>11 DEF Commit, Persist
  <2> HIDE DEF k
  <2> QED BY <1>3, <2>1
<1>12. ASSUME NEW c \in Clients, CommitReplayed(c) PROVE ReceiptsTrue'
  <2>1. PICK k \in SameKey(cur[c]) :
           Answer(c, IF k.req = cur[c] THEN Receipt(k) ELSE Rejected("RT-IDEMPOTENCY-002"))
    BY <1>12 DEF CommitReplayed
  <2> QED BY <1>1, <1>3, <1>4, <2>1 DEF SameKey
<1>13. ASSUME NEW c \in Clients, CommitRefused(c) PROVE ReceiptsTrue'
  BY <1>4, <1>13 DEF CommitRefused
<1>14. ASSUME NEW c \in Clients, Leave(c) PROVE ReceiptsTrue'
  BY <1>5, <1>14 DEF Leave, TypeOK
<1>15. ASSUME NEW pin \in Pins, Advance(pin) PROVE ReceiptsTrue'
  BY <1>1, <1>15 DEF Advance, callers, ReceiptsTrue
<1>16. CASE UNCHANGED vars
  BY <1>1, <1>16 DEF vars, callers, ReceiptsTrue
<1> QED
  BY <1>6, <1>7, <1>8, <1>9, <1>10, <1>11, <1>12, <1>13, <1>14, <1>15, <1>16
     DEF Next, Close, Crash

(* Whoever retries a request, after a lost answer or a crash, is answered  *)
(* with the one stored commit of exactly that request, or refused.         *)
THEOREM ReceiptsCorrect == Spec => []ReceiptsTrue
<1>1. Init => ReceiptInv
  BY TypeInit DEF Init, ReceiptInv, ReceiptsTrue
<1>2. Spec => []ReceiptInv
  BY <1>1, ReceiptStep, PTL DEF Spec
<1> QED BY <1>2, PTL DEF ReceiptInv

-----------------------------------------------------------------------------
(* Commits and the Project/Profile binding                                  *)

(* While a process is inside apply its view, and later the request it      *)
(* validated, carry the current binding: a rebind needs every handle shut. *)
PinInv ==
    /\ DOMAIN pc = Clients /\ DOMAIN view = Clients
    /\ \A c \in Clients : pc[c] = "rest" => view[c].pin = config
    /\ \A c \in Clients : pc[c] = "commit" => cur[c].pin = config

LEMMA PinStep == TypeInv /\ PinInv /\ [Next]_vars => PinInv'
<1> SUFFICES ASSUME TypeInv, PinInv, [Next]_vars PROVE PinInv'
  OBVIOUS
<1> USE DEF PinInv
<1>1. ASSUME NEW c \in Clients, ReadRest(c) PROVE PinInv'
  <2>1. LoadedView(c).pin = view[c].pin
    BY DEF LoadedView
  <2> QED BY <1>1, <2>1 DEF ReadRest, Valid, PinsCurrent, Answer, tables
<1>2. ASSUME NEW c \in Clients, Commit(c) PROVE PinInv'
  <2>1. UNCHANGED <<config, cur>> /\ pc' = [pc EXCEPT ![c] = "answered"]
    BY <1>2 DEF Commit, Persist, Answer
  <2>2. DOMAIN view' = Clients /\ \A d \in Clients \ {c} : view'[d] = view[d]
    BY <1>2 DEF Commit, Answer
  <2> QED BY <2>1, <2>2
<1>3. ASSUME NEW pin \in Pins, Advance(pin) PROVE PinInv'
  BY <1>3 DEF Advance, Exclusive, Rebind, callers
<1>4. ASSUME NEW c \in Clients, NEW r \in requests, Submit(c, r) PROVE PinInv'
  BY <1>4 DEF Submit, tables, TypeInv, CallersTyped
<1>5. ASSUME NEW c \in Clients, Lookup(c) PROVE PinInv'
  BY <1>5 DEF Lookup, Answer, tables
<1>6. ASSUME NEW c \in Clients, ReadHead(c) PROVE PinInv'
  BY <1>6 DEF ReadHead, tables
<1>7. ASSUME NEW c \in Clients, CommitReplayed(c) \/ CommitRefused(c) PROVE PinInv'
  BY <1>7 DEF CommitReplayed, CommitRefused, Answer, tables
<1>8. ASSUME NEW c \in Clients, Leave(c) PROVE PinInv'
  BY <1>8 DEF Leave, tables, TypeInv, CallersTyped
<1>9. CASE UNCHANGED <<tables, callers>>
  BY <1>9 DEF tables, callers
<1> QED
  BY <1>1, <1>2, <1>3, <1>4, <1>5, <1>6, <1>7, <1>8, <1>9
     DEF Next, vars, Prepare, Draft, Close, Crash

(* No commit lands under another binding than its request was judged by.   *)
THEOREM PinCorrect == Spec => CommitsUnderTheirPin
<1>1. Init => PinInv
  BY DEF Init, PinInv
<1>2. Spec => [](TypeInv /\ PinInv)
  BY <1>1, TypeInit, TypeStep, PinStep, PTL DEF Spec
<1>3. TypeInv /\ PinInv /\ [Next]_vars => [\A k \in commits' \ commits : k.req.pin = config']_vars
  <2> SUFFICES ASSUME PinInv, Next, NEW k \in commits' \ commits
               PROVE  k.req.pin = config'
    OBVIOUS
  <2>1. \E c \in Clients : Commit(c)
    BY DEF Next, tables, Prepare, Draft, Submit, Lookup, ReadHead, ReadRest,
           CommitReplayed, CommitRefused, Close, Crash, Leave, Advance, Rebind
  <2>2. PICK c \in Clients : Commit(c)
    BY <2>1
  <2> QED BY <2>2 DEF Commit, Persist, PinInv
<1> QED BY <1>2, <1>3, PTL DEF Spec, CommitsUnderTheirPin

-----------------------------------------------------------------------------
(* What a loaded view is worth                                              *)

(* Every object of a set of rows has a newest revision.                    *)
HasLatest(rows) ==
    \A o \in Objects : Known(rows, o) =>
        \E x \in RowsOf(rows, o) : \A y \in RowsOf(rows, o) : y.rev <= x.rev

OneSnapshotPerId == \A s, t \in snapshots : s.id = t.id => s = t

(* A request was pinned to a lineage that exists, and lineages stay.       *)
RequestsPinned ==
    \A r \in requests : r.head # NoSnap /\ lines[r.p.line].head # NoSnap

(* The members a process loaded are those of the Snapshot it loaded.       *)
MembersLoaded(c) ==
    \E s \in snapshots : s.id = view[c].head /\ s.members = view[c].members

(* While the HEAD has not moved, neither has the binding of its lineage.   *)
LineLoaded(c) ==
    LET line == cur[c].p.line IN
    lines[line].head = cur[c].head => view[c].lines[line].pin = lines[line].pin

(* What a process is about to commit was valid on a view that may be a     *)
(* mixture and old, but holds only what is stored.                         *)
ViewSound(c) ==
    /\ Valid(view[c], cur[c])
    /\ view[c].objects \subseteq objects
    /\ view[c].decisions \subseteq decisions
    /\ HasLatest(view[c].objects)
    /\ LineLoaded(c)

ViewsSound ==
    \A c \in Clients :
        /\ pc[c] \in {"rest", "commit"} => MembersLoaded(c)
        /\ pc[c] = "commit" => ViewSound(c)

StateInv ==
    /\ ChainInv /\ PinInv
    /\ OneSnapshotPerId /\ RequestsPinned /\ ViewsSound /\ SnapshotsClosed

LEMMA MembersOfStored ==
    ASSUME OneSnapshotPerId, NEW s \in snapshots
    PROVE  MembersOf(s.id) = s.members
BY DEF OneSnapshotPerId, MembersOf

(* Only a commit or an advancement writes a table.                         *)
LEMMA TablesQuiet ==
    ASSUME [Next]_vars, ~\E c \in Clients : Commit(c), ~\E pin \in Pins : Advance(pin)
    PROVE  UNCHANGED tables
BY DEF Next, vars, tables, Prepare, Draft, Submit, Lookup, ReadHead, ReadRest,
       CommitReplayed, CommitRefused, Close, Crash, Leave

LEMMA StateInit == Init => StateInv
<1> SUFFICES ASSUME Init PROVE StateInv
  OBVIOUS
<1>1. ChainInv /\ PinInv
  BY ChainInit DEF Init, PinInv
<1>2. OneSnapshotPerId /\ RequestsPinned /\ ViewsSound
  BY DEF Init, TablesInit, OneSnapshotPerId, RequestsPinned, ViewsSound
<1>3. SnapshotsClosed
  <2>1. \A x, y \in objects : x.obj = y.obj => x = y
    BY SeedAssumption DEF Init, TablesInit
  <2>2. snapshots = {[id |-> Genesis, prior |-> NoSnap,
                      members |-> {<<x.obj, x.rev>> : x \in objects}]}
    BY DEF Init, TablesInit
  <2>3. \A s \in snapshots : s.id = Genesis /\ s.members = {<<x.obj, x.rev>> : x \in objects}
    BY <2>2
  <2>4. \A l \in LineageIds : lines[l].head # NoSnap => lines[l].head = Genesis
    BY DEF Init, TablesInit, NoLine
  <2>5. ASSUME NEW s \in snapshots, NEW m \in s.members
        PROVE  /\ \E x \in objects : <<x.obj, x.rev>> = m
               /\ \A n \in s.members : m[1] = n[1] => m = n
    BY <2>1, <2>3
  <2>6. \E s \in snapshots : s.id = Genesis
    BY <2>2
  <2> QED BY <2>1, <2>4, <2>5, <2>6 DEF SnapshotsClosed
<1> QED BY <1>1, <1>2, <1>3 DEF StateInv

(* What a commit does to the HEAD of a lineage: nothing, or its own fresh  *)
(* Snapshot on the lineage it edits or on one that did not exist.          *)
LEMMA CommitMoves ==
    ASSUME ChainInv, NEW c \in Clients, Commit(c), NEW l \in LineageIds
    PROVE  \/ lines'[l] = lines[l]
           \/ /\ cur[c].p.kind # "switch"
              /\ lines'[l].head = cur[c].p.snap
              /\ cur[c].p.snap \in SnapIds /\ cur[c].p.snap \notin StoredIds
              /\ l = cur[c].p.line \/ lines[l].head = NoSnap
<1> DEFINE r == cur[c]
<1>1. r \in requests
  BY DEF Commit, ChainInv, TypeInv, TypeOK
<1>2. /\ r.p.line \in LineageIds /\ r.p.target \in LineageIds
      /\ r.p.snap \in SnapIds /\ r.p.kind \in {"edit", "fork", "switch"}
  BY <1>1, ProposalAssumption DEF ChainInv, TypeInv, TypeOK
<1>3. /\ r.p.kind # "switch" => r.p.snap \notin StoredIds
      /\ r.p.kind = "fork" => lines[r.p.target].head = NoSnap
  BY <1>2, SnapAssumption DEF Commit, Fits, SnapshotFresh, LineageFits, StoredIds
<1>4. lines \in [LineageIds -> LineType]
  BY DEF ChainInv, TypeInv, TypeOK, LineType
<1>5. CASE r.p.kind = "edit"
  BY <1>2, <1>3, <1>4, <1>5 DEF Commit, Persist
<1>6. CASE r.p.kind = "fork"
  BY <1>2, <1>3, <1>4, <1>6 DEF Commit, Persist
<1>7. CASE r.p.kind = "switch"
  BY <1>7 DEF Commit, Persist
<1> QED BY <1>2, <1>5, <1>6, <1>7

(* The Snapshot a commit stores has one stored revision per object.        *)
LEMMA NextMembersClosed ==
    ASSUME StateInv, NEW c \in Clients, Commit(c), cur[c].p.kind # "switch",
           NEW m \in NextMembers(view[c].members, cur[c])
    PROVE  /\ \E x \in objects' : <<x.obj, x.rev>> = m
           /\ \A n \in NextMembers(view[c].members, cur[c]) : m[1] = n[1] => m = n
<1> DEFINE r == cur[c]
           old == view[c].members
           Kept(k) == k \in old /\ k[1] \notin EditedObjects(r.p)
           Fresh(k) == \E x \in NewRows(r) : k = <<x.obj, x.rev>>
<1>1. r \in requests /\ pc[c] = "commit" /\ r.p.kind \in {"edit", "fork"}
  BY ProposalAssumption DEF Commit, StateInv, ChainInv, TypeInv, TypeOK
<1>2. PICK s \in snapshots : s.members = old
  BY <1>1 DEF StateInv, ViewsSound, MembersLoaded
<1>3. LineageSound(view[c], r.p)
  BY <1>1 DEF StateInv, ViewsSound, ViewSound, Valid
<1>4. r.p.kind = "fork" => EditedObjects(r.p) \cap r.p.keep = {}
  <2>1. CASE r.p.kind = "fork"
    BY <1>3, <2>1 DEF LineageSound
  <2> QED BY <2>1
<1>5. \A k \in NextMembers(old, r) : Kept(k) \/ Fresh(k)
  <2>1. CASE r.p.kind = "fork"
    BY <1>4, <2>1 DEF NextMembers, NewKeys
  <2>2. CASE r.p.kind # "fork"
    BY <2>2 DEF NextMembers, NewKeys
  <2> QED BY <2>1, <2>2
<1>6. /\ \A x, y \in NewRows(r) : x.obj = y.obj => x = y
      /\ \A x \in NewRows(r) : x.obj \in EditedObjects(r.p)
  <2>1. \A x, y \in NewRows(r) : x.obj = y.obj => x = y
    BY <1>1, NewRowsTyped DEF StateInv, ChainInv
  <2>2. \A x \in NewRows(r) : x.obj \in EditedObjects(r.p)
    BY DEF NewRows, EditedObjects
  <2> QED BY <2>1, <2>2
<1>7. objects' = objects \cup NewRows(r)
  BY DEF Commit, Persist
<1>8. \A k \in old : \E x \in objects : <<x.obj, x.rev>> = k
  BY <1>2 DEF StateInv, SnapshotsClosed
<1>9. \E x \in objects' : <<x.obj, x.rev>> = m
  BY <1>5, <1>7, <1>8
<1>10. ASSUME NEW n \in NextMembers(old, r), m[1] = n[1] PROVE m = n
  <2>1. CASE Kept(m) /\ Kept(n)
    BY <1>2, <1>10, <2>1 DEF StateInv, SnapshotsClosed
  <2>2. CASE Fresh(m) /\ Fresh(n)
    BY <1>6, <1>10, <2>2
  <2>3. CASE Kept(m) /\ Fresh(n)
    BY <1>6, <1>10, <2>3
  <2>4. CASE Fresh(m) /\ Kept(n)
    BY <1>6, <1>10, <2>4
  <2> QED BY <1>5, <2>1, <2>2, <2>3, <2>4
<1> QED BY <1>9, <1>10

LEMMA CommitKeepsTables ==
    ASSUME StateInv, NEW c \in Clients, Commit(c)
    PROVE  OneSnapshotPerId' /\ RequestsPinned' /\ SnapshotsClosed'
<1> DEFINE r == cur[c]
           new == [id |-> r.p.snap, prior |-> r.head, members |-> NextMembers(view[c].members, r)]
<1>1. r \in requests /\ requests' = requests
  BY DEF Commit, StateInv, ChainInv, TypeInv, TypeOK
<1>2. /\ objects' = objects \cup NewRows(r)
      /\ snapshots' = IF r.p.kind = "switch" THEN snapshots ELSE snapshots \cup {new}
  BY DEF Commit, Persist
<1>3. new.id = r.p.snap /\ new.members = NextMembers(view[c].members, r)
  OBVIOUS
<1>4. r.p.kind # "switch" => \A s \in snapshots : s.id # new.id
  BY DEF Commit, Fits, SnapshotFresh
<1>5. \A l \in LineageIds :
         \/ lines'[l] = lines[l]
         \/ r.p.kind # "switch" /\ lines'[l].head = new.id /\ new.id \in SnapIds
  BY <1>3, CommitMoves DEF StateInv
<1>6. \A x, y \in objects' : x.obj = y.obj /\ x.rev = y.rev => x = y
  <2>1. \A x \in objects, y \in NewRows(r) : (x.obj = y.obj /\ x.rev = y.rev) => x = y
    BY DEF Commit, Fits, RowsFit
  <2>2. \A x, y \in NewRows(r) : x.obj = y.obj => x = y
    BY <1>1, NewRowsTyped DEF StateInv, ChainInv
  <2>3. \A x, y \in objects : x.obj = y.obj /\ x.rev = y.rev => x = y
    BY DEF StateInv, SnapshotsClosed
  <2> QED BY <1>2, <2>1, <2>2, <2>3
<1>7. ASSUME r.p.kind # "switch", NEW m \in new.members
      PROVE  /\ \E x \in objects' : <<x.obj, x.rev>> = m
             /\ \A n \in new.members : m[1] = n[1] => m = n
  BY <1>3, <1>7, NextMembersClosed
<1> HIDE DEF new
<1>8. OneSnapshotPerId'
  BY <1>2, <1>4 DEF StateInv, OneSnapshotPerId
<1>9. RequestsPinned'
  <2>1. \A q \in requests : q.p.line \in LineageIds
    BY ProposalAssumption DEF StateInv, ChainInv, TypeInv, TypeOK
  <2> QED BY <1>1, <1>5, <2>1, SnapAssumption DEF StateInv, RequestsPinned
<1>10. ASSUME NEW s \in snapshots', NEW m \in s.members
       PROVE  /\ \E x \in objects' : <<x.obj, x.rev>> = m
              /\ \A n \in s.members : m[1] = n[1] => m = n
  <2>1. CASE s \in snapshots
    BY <1>2, <2>1 DEF StateInv, SnapshotsClosed
  <2>2. CASE s = new /\ r.p.kind # "switch"
    BY <1>7, <2>2
  <2> QED BY <1>2, <2>1, <2>2
<1>11. \A l \in LineageIds : lines'[l].head # NoSnap =>
           \E s \in snapshots' : s.id = lines'[l].head
  BY <1>2, <1>5 DEF StateInv, SnapshotsClosed
<1>12. SnapshotsClosed'
  BY <1>6, <1>10, <1>11 DEF SnapshotsClosed
<1> QED BY <1>8, <1>9, <1>12

(* A process whose own step it is not keeps a sound view while another     *)
(* commits.                                                                *)
LEMMA CommitKeepsViews ==
    ASSUME StateInv, NEW c \in Clients, Commit(c), NEW d \in Clients,
           UNCHANGED <<pc[d], cur[d], view[d]>>
    PROVE  /\ pc'[d] \in {"rest", "commit"} => MembersLoaded(d)'
           /\ pc'[d] = "commit" => ViewSound(d)'
<1>1. objects \subseteq objects' /\ decisions \subseteq decisions' /\ snapshots \subseteq snapshots'
  BY DEF Commit, Persist
<1>2. pc'[d] \in {"rest", "commit"} => MembersLoaded(d)'
  BY <1>1 DEF StateInv, ViewsSound, MembersLoaded
<1>3. ASSUME pc[d] = "commit" PROVE ViewSound(d)'
  <2>1. ViewSound(d)
    BY <1>3 DEF StateInv, ViewsSound
  <2>2. /\ Valid(view[d], cur[d])'
        /\ (view[d].objects)' \subseteq objects' /\ (view[d].decisions)' \subseteq decisions'
        /\ HasLatest(view[d].objects)'
    BY <1>1, <2>1 DEF ViewSound
  <2>3. LineLoaded(d)'
    <3> DEFINE line == cur[d].p.line
    <3>1. cur[d] \in requests /\ line \in LineageIds
      BY <1>3, ProposalAssumption DEF StateInv, ChainInv, TypeInv, TypeOK
    <3>2. lines[line].head # NoSnap
      BY <3>1 DEF StateInv, RequestsPinned
    <3>3. cur[d].head \in StoredIds
      <4>1. cur[d].head = view[d].head
        BY <2>1 DEF ViewSound, Valid, HeadExpected
      <4> QED BY <1>3, <4>1 DEF StateInv, ViewsSound, MembersLoaded, StoredIds
    <3>4. \/ lines'[line] = lines[line]
          \/ lines'[line].head \notin StoredIds
      BY <3>1, CommitMoves DEF StateInv
    <3> QED BY <2>1, <3>3, <3>4 DEF ViewSound, LineLoaded
  <2> QED BY <2>2, <2>3 DEF ViewSound
<1> QED BY <1>2, <1>3

LEMMA StateStep == StateInv /\ [Next]_vars => StateInv'
<1> SUFFICES ASSUME StateInv, [Next]_vars PROVE StateInv'
  OBVIOUS
<1>1. ChainInv' /\ PinInv'
  BY ChainStep, PinStep DEF StateInv, ChainInv
<1>2. ASSUME NEW d \in Clients, UNCHANGED <<tables, pc[d], cur[d], view[d]>>
      PROVE  /\ pc'[d] \in {"rest", "commit"} => MembersLoaded(d)'
             /\ pc'[d] = "commit" => ViewSound(d)'
  BY <1>2 DEF tables, StateInv, ViewsSound, MembersLoaded, ViewSound, LineLoaded
<1>3. CASE UNCHANGED tables
  <2>1. OneSnapshotPerId' /\ SnapshotsClosed'
    BY <1>3 DEF tables, StateInv, OneSnapshotPerId, SnapshotsClosed
  <2>2. ASSUME NEW c \in Clients,
               \A d \in Clients \ {c} : UNCHANGED <<pc[d], cur[d], view[d]>>,
               pc'[c] \in {"rest", "commit"} => MembersLoaded(c)',
               pc'[c] = "commit" => ViewSound(c)'
        PROVE  ViewsSound'
    BY <1>2, <1>3, <2>2 DEF ViewsSound
  <2>3. ASSUME NEW c \in Clients, pc'[c] \notin {"rest", "commit"},
               \A d \in Clients \ {c} : UNCHANGED <<pc[d], cur[d], view[d]>>
        PROVE  ViewsSound'
    BY <2>2, <2>3
  <2>4. ASSUME NEW p \in Proposals, Prepare(p) PROVE RequestsPinned' /\ ViewsSound'
    <3>1. Request(p).head # NoSnap /\ lines[Request(p).p.line].head # NoSnap
      BY <2>4 DEF Prepare, Draft, Request
    <3>2. RequestsPinned'
      BY <1>3, <2>4, <3>1 DEF Prepare, Draft, tables, StateInv, RequestsPinned
    <3>3. ViewsSound'
      BY <1>2, <1>3, <2>4 DEF Prepare, callers, ViewsSound
    <3> QED BY <3>2, <3>3
  <2>5. UNCHANGED requests => RequestsPinned'
    BY <1>3 DEF tables, StateInv, RequestsPinned
  <2> USE DEF StateInv, PinInv, ChainInv, TypeInv, CallersTyped
  <2>6. ASSUME NEW c \in Clients, NEW r \in requests, Submit(c, r) PROVE ViewsSound'
    BY <2>3, <2>6 DEF Submit
  <2>7. ASSUME NEW c \in Clients, Lookup(c) PROVE ViewsSound'
    BY <2>3, <2>7 DEF Lookup, Answer
  <2>8. ASSUME NEW c \in Clients, ReadHead(c) PROVE ViewsSound'
    <3> DEFINE id == lines[cur[c].p.line].head
    <3>1. cur[c] \in requests /\ cur[c].p.line \in LineageIds
      BY <2>8, ProposalAssumption DEF ReadHead, TypeOK
    <3>2. PICK s \in snapshots : s.id = id
      BY <3>1 DEF RequestsPinned, SnapshotsClosed
    <3>3. view'[c].head = id /\ view'[c].members = s.members
      BY <2>8, <3>2, MembersOfStored DEF ReadHead
    <3>4. MembersLoaded(c)'
      BY <1>3, <3>2, <3>3 DEF tables, MembersLoaded
    <3> QED BY <2>2, <2>8, <3>4 DEF ReadHead
  <2>9. ASSUME NEW c \in Clients, ReadRest(c) PROVE ViewsSound'
    <3>1. CASE ~Valid(LoadedView(c), cur[c])
      BY <2>3, <2>9, <3>1 DEF ReadRest, Answer
    <3>2. CASE Valid(LoadedView(c), cur[c])
      <4>1. view' = [view EXCEPT ![c] = LoadedView(c)] /\ UNCHANGED cur
            /\ pc' = [pc EXCEPT ![c] = "commit"] /\ pc[c] = "rest"
        BY <2>9, <3>2 DEF ReadRest
      <4>2. view'[c] = LoadedView(c) /\ cur'[c] = cur[c]
        BY <4>1
      <4>3. MembersLoaded(c)'
        <5>1. PICK s \in snapshots : s.id = view[c].head /\ s.members = view[c].members
          BY <4>1 DEF ViewsSound, MembersLoaded
        <5> QED BY <1>3, <4>2, <5>1 DEF tables, MembersLoaded, LoadedView
      <4>4. /\ (view'[c]).objects = objects' /\ (view'[c]).decisions = decisions'
            /\ (view'[c]).lines = lines'
        BY <1>3, <4>2 DEF tables, LoadedView
      <4>5. Valid(view[c], cur[c])'
        BY <3>2, <4>2
      <4>6. HasLatest(objects')
        BY <1>3 DEF tables, LatestExists, HasLatest
      <4>7. ViewSound(c)'
        BY <4>4, <4>5, <4>6 DEF ViewSound, LineLoaded
      <4> QED BY <2>2, <4>1, <4>3, <4>7
    <3> QED BY <3>1, <3>2
  <2>10. ASSUME NEW c \in Clients, CommitReplayed(c) \/ CommitRefused(c) PROVE ViewsSound'
    BY <2>3, <2>10 DEF CommitReplayed, CommitRefused, Answer
  <2>11. ASSUME NEW c \in Clients, Leave(c) PROVE ViewsSound'
    BY <2>3, <2>11 DEF Leave
  <2>12. ASSUME UNCHANGED <<requests, callers>> PROVE ViewsSound'
    BY <1>2, <1>3, <2>12 DEF callers, ViewsSound
  <2>13. CASE \E p \in Proposals : Prepare(p)
    BY <1>1, <2>1, <2>4, <2>13
  <2>14. CASE ~\E p \in Proposals : Prepare(p)
    <3>1. UNCHANGED requests
      BY <2>14 DEF Next, vars, Submit, Lookup, ReadHead, ReadRest, Commit,
             CommitReplayed, CommitRefused, Close, Crash, Leave, Advance, Rebind
    <3>2. \A c \in Clients : ~Commit(c)
      <4> SUFFICES ASSUME NEW c \in Clients, Commit(c) PROVE FALSE
        OBVIOUS
      <4> DEFINE k == [req |-> cur[c], prior |-> cur[c].head, consumed |-> Spent(c)]
      <4>1. k \in commits'
        BY DEF Commit, Persist
      <4>2. k.req = cur[c] /\ SameKey(cur[c]) = {}
        BY DEF Commit
      <4> QED BY <1>3, <4>1, <4>2 DEF tables, SameKey
    <3>3. \A pin \in Pins : ~Advance(pin)
      BY <1>3 DEF tables, Advance, Rebind
    <3>4. ViewsSound'
      BY <2>6, <2>7, <2>8, <2>9, <2>10, <2>11, <2>12, <2>14, <3>2, <3>3
         DEF Next, vars, Close, Crash
    <3> QED BY <1>1, <2>1, <2>5, <3>1, <3>4
  <2> QED BY <2>13, <2>14
<1>4. ASSUME NEW c \in Clients, Commit(c) PROVE StateInv'
  <2>1. OneSnapshotPerId' /\ RequestsPinned' /\ SnapshotsClosed'
    BY <1>4, CommitKeepsTables
  <2>2. pc'[c] = "answered"
    BY <1>4 DEF Commit, Answer, StateInv, ChainInv, TypeInv, TypeOK
  <2>3. \A d \in Clients \ {c} : UNCHANGED <<pc[d], cur[d], view[d]>>
    BY <1>4 DEF Commit, Answer, StateInv, PinInv
  <2>4. ViewsSound'
    BY <1>4, <2>2, <2>3, CommitKeepsViews DEF ViewsSound
  <2> QED BY <1>1, <2>1, <2>4 DEF StateInv
<1>5. ASSUME NEW pin \in Pins, Advance(pin) PROVE StateInv'
  <2>1. /\ UNCHANGED <<objects, snapshots, requests, pc>>
        /\ lines' = [lines EXCEPT ![active].pin = pin]
        /\ \A c \in Clients : pc[c] = "idle"
    BY <1>5 DEF Advance, Rebind, Exclusive, callers
  <2>2. lines \in [LineageIds -> LineType] /\ active \in LineageIds
    BY DEF StateInv, ChainInv, TypeInv, TypeOK, LineType
  <2>3. \A l \in LineageIds : lines'[l].head = lines[l].head
    BY <2>1, <2>2 DEF LineType
  <2>4. OneSnapshotPerId' /\ SnapshotsClosed'
    BY <2>1, <2>3 DEF StateInv, OneSnapshotPerId, SnapshotsClosed
  <2>5. \A r \in requests : r.p.line \in LineageIds
    BY ProposalAssumption DEF StateInv, ChainInv, TypeInv, TypeOK
  <2>6. RequestsPinned' /\ ViewsSound'
    BY <2>1, <2>3, <2>5 DEF StateInv, RequestsPinned, ViewsSound
  <2> QED BY <1>1, <2>4, <2>6 DEF StateInv
<1> QED BY <1>3, <1>4, <1>5, TablesQuiet

LEMMA StateAlways == Spec => []StateInv
BY StateInit, StateStep, PTL DEF Spec

(* A revision has one content for good, and what is effective on a lineage *)
(* is stored, one revision per object, whichever lineage stored it.        *)
THEOREM SnapshotsCorrect == Spec => []SnapshotsClosed
<1>1. StateInv => SnapshotsClosed
  BY DEF StateInv
<1> QED BY <1>1, StateAlways, PTL

-----------------------------------------------------------------------------
(* Human Decisions behind a status                                          *)

LEMMA LatestStored ==
    ASSUME NEW rows, HasLatest(rows), NEW o \in Objects, Known(rows, o)
    PROVE  /\ Latest(rows, o) \in rows /\ Latest(rows, o).obj = o
           /\ \A y \in RowsOf(rows, o) : y.rev <= Latest(rows, o).rev
<1>1. PICK x \in RowsOf(rows, o) : \A y \in RowsOf(rows, o) : y.rev <= x.rev
  BY DEF HasLatest
<1>2. /\ Latest(rows, o) \in RowsOf(rows, o)
      /\ \A y \in RowsOf(rows, o) : y.rev <= Latest(rows, o).rev
  BY <1>1 DEF Latest
<1> QED BY <1>2 DEF RowsOf

(* A duty that was met on the view is met by a human's Decision that the   *)
(* commit stores, and the commit consumes it.                              *)
LEMMA DutyConsumed ==
    ASSUME StateInv, NEW c \in Clients, Commit(c),
           NEW d \in Duties(view[c].objects, cur[c].p)
    PROVE  \E y \in decisions' : y.id \in Spent(c) /\ Authorizes(y, d)
<1>1. PICK y \in Pool(view[c], cur[c].p) : Authorizes(y, d)
  BY DEF Commit, StateInv, ViewsSound, ViewSound, Valid, DutiesMet
<1>2. y \in decisions'
  BY DEF Commit, Persist, Pool, StateInv, ViewsSound, ViewSound
<1>3. y.id \in Spent(c)
  BY <1>1 DEF Spent, Consumed, Authorizes
<1> QED BY <1>1, <1>2, <1>3

LEMMA CommitKeepsStatus ==
    ASSUME StateInv, StatusNeedsHuman, NEW c \in Clients, Commit(c)
    PROVE  StatusNeedsHuman'
<1> DEFINE r == cur[c]
           k == [req |-> r, prior |-> r.head, consumed |-> Spent(c)]
           rows == view[c].objects
           Needs(x) == x.status \in {"approved", "verified"}
<1>1. /\ objects' = objects \cup NewRows(r)
      /\ decisions \subseteq decisions'
      /\ commits' = commits \cup {k}
  BY DEF Commit, Persist
<1>2. /\ r \in requests /\ r.p \in Proposals /\ r.p.kind \in {"edit", "fork", "switch"}
      /\ rows \subseteq objects /\ HasLatest(rows)
      /\ Reducible(view[c], r)
  BY ProposalAssumption
     DEF Commit, StateInv, ChainInv, TypeInv, TypeOK, ViewsSound, ViewSound, Valid
<1>3. ASSUME NEW x \in objects, x \notin SeedRows, Needs(x)
      PROVE  Follows(x)' \/ Backed(x)'
  BY <1>1, <1>3 DEF StatusNeedsHuman, Follows, Backed
<1>4. ASSUME NEW x \in NewRows(r), Needs(x) PROVE Follows(x)' \/ Backed(x)'
  <2> PICK e \in r.p.edits : x = [obj |-> e.obj, rev |-> r.revs[e.obj],
                status |-> e.status, body |-> e.body, decs |-> e.refs]
    BY DEF NewRows
  <2>1. /\ e.obj \in Objects /\ r.revs[e.obj] = NextRev(rows, e.obj)
        /\ e.status = "approved" => e.obj \in Questions
        /\ e.status = "verified" => e.obj \in Evidence
        /\ x.obj = e.obj /\ x.rev = r.revs[e.obj] /\ x.status = e.status
    BY <1>2, ProposalAssumption, StatusAssumption DEF Reducible
  <2> DEFINE choice == IF e.obj \in Questions THEN "approve" ELSE "verify"
  <2>2. ASSUME NEW q \in {choice, "reconfirm"}, NEW refs,
               [choice |-> q, subject |-> e.obj, refs |-> refs] \in Duties(rows, r.p)
        PROVE  Backed(x)'
    <3> DEFINE d == [choice |-> q, subject |-> e.obj, refs |-> refs]
    <3>1. PICK y \in decisions' : y.id \in Spent(c) /\ Authorizes(y, d)
      BY <2>2, DutyConsumed
    <3>2. y.human /\ y.choice = q /\ e.obj \in y.subjects
      BY <3>1 DEF Authorizes
    <3>3. k \in commits' /\ k.req = r /\ k.consumed = Spent(c)
      BY <1>1
    <3> HIDE DEF k
    <3> QED BY <2>1, <3>1, <3>2, <3>3 DEF Backed
  <2>3. CASE r.p.kind = "edit" /\ StatusMoves(rows, e)
    <3>1. choice \in EditChoices(rows, e)
      BY <1>4, <2>1, <2>3, ObjectsDisjoint DEF EditChoices, Objects
    <3>2. [choice |-> choice, subject |-> e.obj, refs |-> e.refs] \in Duties(rows, r.p)
      BY <2>3, <3>1 DEF Duties
    <3> QED BY <2>2, <3>2
  <2>4. CASE ~StatusMoves(rows, e)
    <3> DEFINE z == Latest(rows, e.obj)
    <3>1. Known(rows, e.obj) /\ z.status = e.status
      BY <2>4 DEF StatusMoves
    <3>2. z \in objects /\ z.obj = e.obj
      BY <1>2, <2>1, <3>1, LatestStored
    <3>3. z.rev \in Nat
      BY <3>2 DEF StateInv, ChainInv, TypeInv, TypeOK
    <3>4. z.rev = x.rev - 1
      BY <2>1, <3>1, <3>3 DEF NextRev
    <3> HIDE DEF z
    <3> QED BY <1>1, <2>1, <3>1, <3>2, <3>4 DEF Follows
  <2>5. CASE r.p.kind = "fork"
    <3>1. [choice |-> "reconfirm", subject |-> e.obj, refs |-> r.p.refs] \in Duties(rows, r.p)
      BY <2>5 DEF Duties
    <3> QED BY <2>2, <3>1
  <2>6. CASE r.p.kind = "switch"
    BY <1>2, <2>6 DEF Reducible
  <2> QED BY <1>2, <2>3, <2>4, <2>5, <2>6
<1> QED BY <1>1, <1>3, <1>4 DEF StatusNeedsHuman

LEMMA StatusStep == StateInv /\ StatusNeedsHuman /\ [Next]_vars => StatusNeedsHuman'
<1> SUFFICES ASSUME StateInv, StatusNeedsHuman, [Next]_vars PROVE StatusNeedsHuman'
  OBVIOUS
<1>1. CASE \E c \in Clients : Commit(c)
  BY <1>1, CommitKeepsStatus
<1>2. CASE UNCHANGED <<objects, decisions, commits>>
  BY <1>2 DEF StatusNeedsHuman, Follows, Backed
<1>3. (\E pin \in Pins : Advance(pin)) => UNCHANGED <<objects, decisions, commits>>
  BY DEF Advance, Rebind
<1> QED BY <1>1, <1>2, <1>3, TablesQuiet DEF tables

(* No object becomes approved or verified but by a human's Decision on it  *)
(* that this very commit consumed, however old the view was that its       *)
(* requirements were read from.                                            *)
THEOREM StatusCorrect == Spec => []StatusNeedsHuman
<1>1. Init => StatusNeedsHuman
  BY DEF Init, TablesInit, StatusNeedsHuman
<1>2. Spec => []StatusNeedsHuman
  BY <1>1, StatusStep, StateAlways, PTL DEF Spec
<1> QED BY <1>2

-----------------------------------------------------------------------------
(* The detailed commit is an abstract one                                   *)

(* What a request edits had, in the view it was judged by, the newest      *)
(* revision it has now among those before the request's own.               *)
LEMMA MeasuredAsLoaded ==
    ASSUME StateInv, NEW c \in Clients, Commit(c), NEW o \in EditedObjects(cur[c].p)
    PROVE  /\ Known(MeasuredRows(cur[c]), o) <=> Known(view[c].objects, o)
           /\ Known(view[c].objects, o) =>
                Latest(MeasuredRows(cur[c]), o) = Latest(view[c].objects, o)
           /\ NextRev(MeasuredRows(cur[c]), o) = NextRev(view[c].objects, o)
<1> DEFINE r == cur[c]
           rows == view[c].objects
           now == MeasuredRows(r)
<1>1. /\ r.p \in Proposals /\ o \in Objects
      /\ rows \subseteq objects /\ HasLatest(rows)
      /\ r.revs[o] = NextRev(rows, o)
  <2>1. r \in requests /\ r.p \in Proposals /\ pc[c] = "commit"
    BY DEF Commit, StateInv, ChainInv, TypeInv, TypeOK
  <2>2. o \in Objects
    BY <2>1, ProposalAssumption DEF EditedObjects
  <2>3. ViewSound(c)
    BY <2>1 DEF StateInv, ViewsSound
  <2>4. r.revs[o] = NextRev(rows, o)
    BY <2>3 DEF ViewSound, Valid, Reducible, EditedObjects
  <2> QED BY <2>1, <2>2, <2>3, <2>4 DEF ViewSound
<1>2. \A x \in objects : x.rev \in Nat
  BY DEF StateInv, ChainInv, TypeInv, TypeOK
<1>3. \A x \in RowsOf(now, o) : x \in objects /\ x.obj = o /\ x.rev < r.revs[o]
  BY DEF MeasuredRows, RowsOf
<1>4. CASE ~Known(rows, o)
  <2>1. r.revs[o] = 0
    BY <1>1, <1>4 DEF NextRev
  <2>2. RowsOf(now, o) = {}
    BY <1>2, <1>3, <2>1
  <2>3. ~Known(now, o)
    BY <2>2 DEF Known
  <2> QED BY <1>4, <2>3 DEF NextRev
<1>5. CASE Known(rows, o)
  <2> DEFINE z == Latest(rows, o)
  <2>1. z \in objects /\ z.obj = o /\ z.rev \in Nat /\ r.revs[o] = z.rev + 1
    BY <1>1, <1>2, <1>5, LatestStored DEF NextRev
  <2>2. z \in RowsOf(now, o) /\ \A y \in RowsOf(now, o) : y.rev <= z.rev
    <3>1. z \in RowsOf(now, o)
      BY <2>1 DEF MeasuredRows, RowsOf
    <3>2. \A y \in RowsOf(now, o) : y.rev <= z.rev
      BY <1>2, <1>3, <2>1
    <3> QED BY <3>1, <3>2
  <2>3. Known(now, o)
    BY <2>2 DEF Known
  <2>4. Latest(now, o) \in RowsOf(now, o) /\ \A y \in RowsOf(now, o) : y.rev <= Latest(now, o).rev
    BY <2>2 DEF Latest
  <2>5. Latest(now, o).rev = z.rev
    <3>1. Latest(now, o).rev \in Nat
      BY <1>2, <1>3, <2>4
    <3> QED BY <2>1, <2>2, <2>4, <3>1
  <2>6. Latest(now, o) = z
    BY <1>3, <2>1, <2>4, <2>5 DEF StateInv, SnapshotsClosed
  <2> QED BY <1>5, <2>3, <2>6 DEF NextRev
<1> QED BY <1>4, <1>5

(* Hence the same Decisions are needed, and the same are consumed.         *)
LEMMA DutiesAsLoaded ==
    ASSUME StateInv, NEW c \in Clients, Commit(c)
    PROVE  Duties(MeasuredRows(cur[c]), cur[c].p) = Duties(view[c].objects, cur[c].p)
<1> DEFINE p == cur[c].p
           rows == view[c].objects
           now == MeasuredRows(cur[c])
<1>1. p.kind \in {"edit", "fork", "switch"}
  BY ProposalAssumption DEF Commit, StateInv, ChainInv, TypeInv, TypeOK
<1>2. CASE p.kind = "edit"
  <2>1. ASSUME NEW e \in p.edits PROVE EditChoices(now, e) = EditChoices(rows, e)
    <3>1. e.obj \in EditedObjects(p)
      BY DEF EditedObjects
    <3>2. /\ Known(now, e.obj) <=> Known(rows, e.obj)
          /\ Known(rows, e.obj) => Latest(now, e.obj) = Latest(rows, e.obj)
      BY <3>1, MeasuredAsLoaded
    <3>3. /\ StatusMoves(now, e) <=> StatusMoves(rows, e)
          /\ BodyMoves(now, e) <=> BodyMoves(rows, e)
      BY <3>2 DEF StatusMoves, BodyMoves
    <3> QED BY <3>3 DEF EditChoices
  <2> HIDE DEF now, rows, p
  <2>2. UNION {{[choice |-> q, subject |-> e.obj, refs |-> e.refs] :
                    q \in EditChoices(now, e)} : e \in p.edits}
        = UNION {{[choice |-> q, subject |-> e.obj, refs |-> e.refs] :
                    q \in EditChoices(rows, e)} : e \in p.edits}
    BY <2>1
  <2>3. Duties(now, p) = Duties(rows, p)
    BY <1>2, <2>2 DEF Duties
  <2> QED BY <2>3 DEF now, rows, p
<1>3. CASE p.kind = "fork"
  BY <1>3 DEF Duties
<1>4. CASE p.kind = "switch"
  BY <1>4 DEF Duties
<1> QED BY <1>1, <1>2, <1>3, <1>4

(* A request that was valid on the view it loaded, and passed the checks   *)
(* of the transaction, is valid on the state it is committed to.           *)
LEMMA CommitFound ==
    ASSUME StateInv, NEW c \in Clients, Commit(c)
    PROVE  /\ cur[c] \in requests /\ pc[c] = "commit"
           /\ cur[c].p \in Proposals /\ cur[c].p.line \in LineageIds
           /\ cur[c].p.kind \in {"edit", "fork", "switch"}
           /\ Valid(view[c], cur[c])
           /\ cur[c].head = lines[cur[c].p.line].head
           /\ cur[c].pin = config
           /\ MembersOf(cur[c].head) = view[c].members
           /\ lines[cur[c].p.line].pin = view[c].lines[cur[c].p.line].pin
           /\ Consumed(MeasuredRows(cur[c]), cur[c].p) = Spent(c)
           /\ Spent(c) \cap used = {}
<1>1. /\ cur[c] \in requests /\ pc[c] = "commit"
      /\ cur[c].p \in Proposals /\ cur[c].p.line \in LineageIds
      /\ cur[c].p.kind \in {"edit", "fork", "switch"}
  BY ProposalAssumption DEF Commit, StateInv, ChainInv, TypeInv, TypeOK
<1>2. Valid(view[c], cur[c]) /\ LineLoaded(c)
  BY <1>1 DEF StateInv, ViewsSound, ViewSound
<1>3. cur[c].head = lines[cur[c].p.line].head /\ cur[c].pin = config
  BY <1>1 DEF Commit, HeadUnmoved, StateInv, PinInv
<1>4. MembersOf(cur[c].head) = view[c].members
  <2>1. PICK s \in snapshots : s.id = view[c].head /\ s.members = view[c].members
    BY <1>1 DEF StateInv, ViewsSound, MembersLoaded
  <2>2. cur[c].head = view[c].head
    BY <1>2 DEF Valid, HeadExpected
  <2> QED BY <2>1, <2>2, MembersOfStored DEF StateInv
<1>5. lines[cur[c].p.line].pin = view[c].lines[cur[c].p.line].pin
  BY <1>2, <1>3 DEF LineLoaded
<1>6. Consumed(MeasuredRows(cur[c]), cur[c].p) = Spent(c)
  BY DutiesAsLoaded DEF Consumed, Spent
<1>7. Spent(c) \cap used = {}
  BY DEF Commit, Fits, Unspent
<1> QED BY <1>1, <1>2, <1>3, <1>4, <1>5, <1>6, <1>7

LEMMA CommitValidNow ==
    ASSUME StateInv, NEW c \in Clients, Commit(c)
    PROVE  Valid(ViewFor(cur[c]), cur[c])
<1> DEFINE r == cur[c]
           p == r.p
           v == view[c]
           w == ViewFor(r)
<1>1. /\ w.pin = config /\ w.head = lines[p.line].head
      /\ w.members = MembersOf(lines[p.line].head)
      /\ w.objects = MeasuredRows(r) /\ w.decisions = decisions \ p.records
      /\ w.snapIds = {s.id : s \in snapshots} /\ w.lines = lines
      /\ w.used = used \cap Consumed(MeasuredRows(r), p)
  BY DEF ViewFor
<1>2. /\ v.decisions \subseteq decisions
      /\ DutiesMet(v, p) /\ RefsSound(v, p) /\ LineageSound(v, p) /\ Reducible(v, r)
  BY CommitFound DEF Valid, StateInv, ViewsSound, ViewSound
<1>3. w.used = {} /\ Duties(w.objects, p) = Duties(v.objects, p) /\ w.members = v.members
  BY <1>1, CommitFound, DutiesAsLoaded
<1>4. Pool(v, p) \subseteq Pool(w, p)
  BY <1>1, <1>2 DEF Pool
<1>5. PinsCurrent(w, r) /\ HeadExpected(w, r)
  BY <1>1, CommitFound DEF PinsCurrent, HeadExpected
<1> HIDE DEF w, v, r
<1>6. DutiesMet(w, p)
  BY <1>2, <1>3, <1>4 DEF DutiesMet
<1>7. RefsSound(w, p)
  BY <1>2, <1>3, <1>4 DEF RefsSound
<1> USE DEF r, v
<1>8. LineageSound(w, p)
  <2>1. /\ p.kind = "fork" => lines[p.target].head = NoSnap
        /\ p.kind = "switch" => lines[p.target].head # NoSnap
    BY DEF Commit, Fits, LineageFits
  <2>2. CASE p.kind = "edit"
    BY <2>2 DEF LineageSound
  <2>3. CASE p.kind = "fork"
    BY <1>1, <1>2, <1>3, <2>1, <2>3 DEF LineageSound
  <2>4. CASE p.kind = "switch"
    BY <1>1, <2>1, <2>4 DEF LineageSound
  <2> QED BY CommitFound, <2>2, <2>3, <2>4
<1>9. Reducible(w, r)
  <2>1. ASSUME NEW e \in p.edits PROVE r.revs[e.obj] = NextRev(w.objects, e.obj)
    <3>1. e.obj \in EditedObjects(p)
      BY DEF EditedObjects
    <3>2. NextRev(w.objects, e.obj) = NextRev(v.objects, e.obj)
      BY <1>1, <3>1, MeasuredAsLoaded
    <3> QED BY <1>2, <3>2 DEF Reducible
  <2>2. \A x \in p.records : \A y \in w.decisions : x.id # y.id
    BY <1>1 DEF Commit, Fits, RowsFit
  <2>3. p.kind # "switch" => p.snap \notin w.snapIds
    BY <1>1 DEF Commit, Fits, SnapshotFresh
  <2>4. /\ p.kind = "edit" => p.edits # {} \/ p.records # {}
        /\ p.kind = "switch" => p.edits = {}
    BY <1>2 DEF Reducible
  <2> QED BY <2>1, <2>2, <2>3, <2>4 DEF Reducible
<1> QED BY <1>5, <1>6, <1>7, <1>8, <1>9 DEF Valid, w

LEMMA CommitIsAbstract ==
    ASSUME StateInv, NEW c \in Clients, Commit(c)
    PROVE  CommitValid(cur[c])
<1>1. \A k \in commits : k.req.p.key # cur[c].p.key
  BY DEF Commit, SameKey
<1>2. Valid(ViewFor(cur[c]), cur[c])
  BY CommitValidNow
<1>3. \A x \in objects, y \in NewRows(cur[c]) : (x.obj = y.obj /\ x.rev = y.rev) => x = y
  BY DEF Commit, Fits, RowsFit
<1>4. Persist(cur[c], MembersOf(cur[c].head), Consumed(MeasuredRows(cur[c]), cur[c].p),
              lines[cur[c].p.line].pin)
  <2>1. Persist(cur[c], view[c].members, Spent(c), view[c].lines[cur[c].p.line].pin)
    BY DEF Commit
  <2> QED BY <2>1, CommitFound
<1>5. UNCHANGED requests
  BY DEF Commit
<1> QED BY <1>1, <1>2, <1>3, <1>4, <1>5 DEF CommitValid

(* Every step of the processes is a step of the serial specification, or   *)
(* leaves its tables alone.                                                *)
LEMMA StepRefines == StateInv /\ [Next]_vars => [TablesNext]_<<tables, requests>>
<1> SUFFICES ASSUME StateInv, [Next]_vars PROVE [TablesNext]_<<tables, requests>>
  OBVIOUS
<1>1. ASSUME NEW p \in Proposals, Prepare(p) PROVE TablesNext
  BY <1>1 DEF Prepare, TablesNext
<1>2. ASSUME NEW c \in Clients, Commit(c) PROVE TablesNext
  BY <1>2, CommitFound, CommitIsAbstract DEF TablesNext
<1>3. ASSUME NEW pin \in Pins, Advance(pin) PROVE TablesNext
  BY <1>3 DEF Advance, TablesNext
<1>4. CASE /\ ~\E p \in Proposals : Prepare(p)
           /\ ~\E c \in Clients : Commit(c)
           /\ ~\E pin \in Pins : Advance(pin)
  BY <1>4 DEF Next, vars, Submit, Lookup, ReadHead, ReadRest,
         CommitReplayed, CommitRefused, Close, Crash, Leave
<1> QED BY <1>1, <1>2, <1>3, <1>4

(* Processes that load mixtures of old states, die and retry implement the *)
(* history in which every commit is one step, valid where it is applied.   *)
THEOREM Serializable == Spec => TablesSpec
<1>1. Init => TablesInit
  BY DEF Init
<1> QED BY <1>1, StepRefines, StateAlways, PTL DEF Spec, TablesSpec
=============================================================================
