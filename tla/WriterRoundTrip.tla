-------------------------- MODULE WriterRoundTrip --------------------------
(***************************************************************************)
(* The round trip of one composition series: sections of the selected      *)
(* version are exported to an outside Writer as a pinned input, responses  *)
(* are imported as manuscript revisions (writer_round_trip_service.py and  *)
(* _import.py).  WriterComposition models the series itself; here a new    *)
(* version and a selection are one step each.                              *)
(*                                                                         *)
(* A response may cover part of the manuscript: the sections it leaves     *)
(* alone keep the text and the input they were written for, and the whole  *)
(* gets an assembled input that names the origin of each section.          *)
(***************************************************************************)
EXTENDS Naturals, Sequences, FiniteSets

CONSTANTS
    Procs,          \* processes
    Outlines,       \* the sections of each composition version
    MaxRevisions,   \* bound on revision numbers
    MaxBatches,     \* bound on exported inputs
    MaxFaults,      \* bound on deaths and failed writes
    MaxLosses,      \* bound on lost files
    None

VARIABLES
    comps, selected,        \* composition versions so far, the one selected
    inputs,                 \* pinned inputs retained in the Workspace
    disk,                   \* revisions, continuity record and head
    lock, job, clock,
    faults, losses,
    answers                 \* history: answered imports, [response, rev]

vars == <<comps, selected, inputs, disk, lock, job, clock, faults, losses, answers>>
series == <<comps, selected>>

(* An input pins a composition version; an exported batch names sections,  *)
(* an assembled one the batch each section comes from.                     *)
Batch(n, secs) == [comp |-> n, rows |-> [s \in secs |-> None]]
Secs(i) == DOMAIN i.rows
Assembled(i) == \E s \in Secs(i) : i.rows[s] # None

Ref(r) == [num |-> r.num, at |-> r.at]

Idle == [op |-> "idle", comp |-> None, want |-> {}, rows |-> <<>>,
         resp |-> None, rev |-> None, todo |-> <<>>]

Init ==
    /\ comps = 1 /\ selected = None
    /\ inputs = {}
    /\ disk = [root |-> FALSE, record |-> None, revs |-> {}, head |-> None]
    /\ lock = None
    /\ job = [p \in Procs |-> Idle]
    /\ clock = 0 /\ faults = 0 /\ losses = 0
    /\ answers = {}

NewVersion ==
    /\ lock = None /\ comps < Len(Outlines)
    /\ comps' = comps + 1
    /\ UNCHANGED <<selected, inputs, disk, lock, job, clock, faults, losses, answers>>

Choose(n) ==
    /\ lock = None /\ n # selected
    /\ selected' = n
    /\ UNCHANGED <<comps, inputs, disk, lock, job, clock, faults, losses, answers>>

-----------------------------------------------------------------------------
(* export                                                                  *)

quiet == <<series, disk, clock, faults, losses, answers>>

(* The selection is read without the series lock ...  (One export at a     *)
(* time and few of them are bounds: exports share nothing but inputs.)     *)
Export(p, secs) ==
    /\ \A q \in Procs : job[q].op # "export"
    /\ Cardinality({x \in inputs : ~Assembled(x.doc)}) < MaxBatches
    /\ job[p].op = "idle" /\ selected # None
    /\ secs \subseteq Outlines[selected]
    /\ job' = [job EXCEPT ![p] = [Idle EXCEPT !.op = "export", !.comp = selected, !.want = secs]]
    /\ UNCHANGED <<quiet, inputs, lock>>

(* ... and again for every section that is written out.                    *)
ExportSection(p) ==
    /\ job[p].op = "export" /\ DOMAIN job[p].rows # job[p].want
    /\ \E s \in job[p].want \ DOMAIN job[p].rows :
         IF s \in Outlines[selected]
         THEN job' = [job EXCEPT ![p].rows =
                [x \in DOMAIN @ \cup {s} |-> IF x = s THEN selected ELSE @[x]]]
         ELSE job' = [job EXCEPT ![p] = Idle]
    /\ UNCHANGED <<quiet, inputs, lock>>

(* Seeded fault: the exported sections are not compared with the pin.      *)
AllFromUnchecked(rows, n) == TRUE

(* Every section must be the canonical one of the pinned version.          *)
AllFrom(rows, n) == \A s \in DOMAIN rows : rows[s] = n

(* An exported input, with the version each of its sections was read from. *)
Exported(p) ==
    /\ job[p].op = "export" /\ DOMAIN job[p].rows = job[p].want
    /\ inputs' = IF AllFrom(job[p].rows, job[p].comp)
                 THEN inputs \cup {[doc |-> Batch(job[p].comp, job[p].want), read |-> job[p].rows]}
                 ELSE inputs
    /\ job' = [job EXCEPT ![p] = Idle]
    /\ UNCHANGED <<quiet, lock>>

Has(i) == \E x \in inputs : x.doc = i

(* An input resolves with the batches its sections come from.              *)
Resolves(i) == \A s \in Secs(i) : i.rows[s] # None => Has(i.rows[s]) /\ s \in Secs(i.rows[s])
Loads(i) == Has(i) /\ Resolves(i)

-----------------------------------------------------------------------------
(* import: what is found                                                   *)

RevisionOf(ref) == CHOOSE r \in disk.revs : Ref(r) = ref
Stored(ref) == \E r \in disk.revs : Ref(r) = ref

(* The sections and their origins agree with the revision's input.         *)
ScopeHolds(r) ==
    /\ Loads(r.input) /\ Loads(r.resp.input)
    /\ DOMAIN r.rows = Secs(r.input)
    /\ \A s \in Secs(r.input) :
         r.rows[s].origin = IF r.input.rows[s] = None THEN r.resp.input ELSE r.input.rows[s]

ParentHolds(r) ==
    IF r.num = 1 THEN r.parent = None ELSE r.parent.num = r.num - 1 /\ Stored(r.parent)

(* Without a continuity record the revisions must prove one chain.         *)
OneChain ==
    /\ \A r, q \in disk.revs : r.num = q.num => r = q
    /\ \A r \in disk.revs : ParentHolds(r)

Newest == CHOOSE r \in disk.revs : \A q \in disk.revs : q.num <= r.num
Last ==
    IF disk.record # None THEN disk.record
    ELSE IF disk.revs = {} THEN None ELSE Newest

(* The head may lag behind r, but only at an ancestor of it.               *)
HeadLeadsTo(r) ==
    \/ disk.head \in {None, Ref(r)}
    \/ /\ disk.head.num < r.num
       /\ \E line \in [disk.head.num..r.num -> disk.revs \cup {r}] :
            /\ line[r.num] = r /\ Ref(line[disk.head.num]) = disk.head
            /\ \A n \in disk.head.num..(r.num - 1) : Ref(line[n]) = line[n + 1].parent

Reconcilable ==
    IF Last = None THEN ~disk.root
    ELSE /\ disk.record = None => OneChain
         /\ ScopeHolds(Last) /\ ParentHolds(Last) /\ HeadLeadsTo(Last)

(* A revision can be inspected together with its lineage.                  *)
Inspects(r) ==
    /\ Stored(Ref(r)) /\ ScopeHolds(r)
    /\ \A n \in 1..(r.num - 1) : \E q \in disk.revs : q.num = n /\ ParentHolds(q)

Put(f, x) == [file |-> f, val |-> x]
If(test, w) == IF test THEN <<w>> ELSE <<>>

Reconciling ==
    IF Last = None THEN <<>>
    ELSE If(disk.record = None, Put("record", Last))
           \o If(Last \notin disk.revs, Put("rev", Last))
           \o If(disk.head # Ref(Last), Put("head", Ref(Last)))

-----------------------------------------------------------------------------
(* import: what is made of it                                              *)

Rows(i, batch) == [s \in Secs(i) |-> IF i.rows[s] = None THEN batch ELSE i.rows[s]]

(* The input of the whole manuscript after response a to base revision b,  *)
(* or None when the response does not fit.                                 *)
Effective(a, b) ==
    LET batch == a.input
        complete == a.secs = Secs(batch)
        kept  == Rows(b.input, b.resp.input)
        all   == Secs(b.input) \cup Secs(batch)
    IN  IF Assembled(batch) \/ ~(a.secs \subseteq Secs(batch)) THEN None
        ELSE IF b = None THEN IF complete THEN batch ELSE None
        ELSE IF b.input.comp # batch.comp
        THEN IF complete /\ Secs(batch) = Outlines[batch.comp] THEN batch ELSE None
        ELSE IF (b.resp.input # batch /\ ~complete) \/ ~Loads(b.input) \/ ~(all \subseteq a.secs \cup Secs(b.input))
        THEN None
        ELSE [comp |-> batch.comp,
              rows |-> [s \in all |-> IF s \in a.secs THEN batch ELSE kept[s]]]

Leave(p) == lock' = None /\ job' = [job EXCEPT ![p] = Idle]

(* A response names the input it answers, the revision it builds on and    *)
(* the sections it writes.                                                 *)
Import(p, a) ==
    /\ job[p].op = "idle" /\ lock = None
    /\ Loads(a.input)
    /\ lock' = p
    /\ job' = [job EXCEPT ![p] = [Idle EXCEPT !.op = "reconcile", !.resp = a]]
    /\ UNCHANGED <<quiet, inputs>>

Reconcile(p) ==
    /\ job[p].op = "reconcile"
    /\ IF Reconcilable
       THEN job' = [job EXCEPT ![p].op = "import", ![p].todo = Reconciling] /\ UNCHANGED lock
       ELSE Leave(p)
    /\ UNCHANGED <<quiet, inputs>>

(* The path of a revision is a digest of its response.                     *)
Already(a) == {r \in disk.revs : r.resp = a}

(* An imported revision answers again unless it is ahead of the head.      *)
Answers(r) == disk.head # None /\ r.num <= disk.head.num /\ (r.num = disk.head.num => Ref(r) = disk.head)

BaseCurrent(a) == a.base = disk.head

Decide(p) ==
    LET a == job[p].resp
        b == IF disk.head = None THEN None ELSE RevisionOf(disk.head)
        i == Effective(a, b)
        r == [num  |-> IF b = None THEN 1 ELSE b.num + 1, at |-> clock + 1,
              parent |-> a.base, resp |-> a, input |-> i,
              rows |-> [s \in Secs(i) |->
                 IF s \in a.secs THEN [origin |-> a.input, by |-> clock + 1] ELSE b.rows[s]]]
    IN  /\ job[p].op = "import" /\ job[p].todo = <<>>
        /\ IF Already(a) # {}
           THEN /\ answers' = answers \cup {[resp |-> a, rev |-> q] : q \in {x \in Already(a) : Answers(x)}}
                /\ Leave(p) /\ UNCHANGED clock
           ELSE IF BaseCurrent(a) /\ i # None /\ Resolves(i)
           THEN /\ (IF b = None THEN 1 ELSE b.num + 1) <= MaxRevisions
                /\ clock' = clock + 1
                /\ job' = [job EXCEPT ![p].op = "imported", ![p].rev = r, ![p].todo =
                     If(Assembled(i), Put("input", i))
                       \o <<Put("record", r), Put("rev", r), Put("head", Ref(r))>>]
                /\ UNCHANGED <<lock, answers>>
           ELSE Leave(p) /\ UNCHANGED <<clock, answers>>
        /\ UNCHANGED <<series, inputs, disk, faults, losses>>

Imported(p) ==
    /\ job[p].op = "imported" /\ job[p].todo = <<>>
    /\ answers' = answers \cup {[resp |-> job[p].resp, rev |-> job[p].rev]}
    /\ Leave(p)
    /\ UNCHANGED <<series, inputs, disk, clock, faults, losses>>

-----------------------------------------------------------------------------
(* Files and faults                                                        *)

Persist(p) ==
    /\ job[p].todo # <<>>
    /\ LET w == Head(job[p].todo) IN
       /\ inputs' = IF w.file = "input" /\ ~Has(w.val)
                    THEN inputs \cup {[doc |-> w.val, read |-> [s \in Secs(w.val) |-> w.val.comp]]}
                    ELSE inputs
       /\ disk' = CASE w.file = "input"  -> disk
                    [] w.file = "record" -> [disk EXCEPT !.record = w.val]
                    [] w.file = "rev"    -> [disk EXCEPT !.revs = @ \cup {w.val}, !.root = TRUE]
                    [] w.file = "head"   -> [disk EXCEPT !.head = w.val, !.root = TRUE]
    /\ job' = [job EXCEPT ![p].todo = Tail(@)]
    /\ UNCHANGED <<series, lock, clock, faults, losses, answers>>

(* The process dies or a write fails.                                      *)
Stops(p) ==
    /\ job[p].op \in {"reconcile", "import", "imported"}
    /\ faults < MaxFaults /\ faults' = faults + 1
    /\ Leave(p)
    /\ UNCHANGED <<series, inputs, disk, clock, losses, answers>>

Lose ==
    /\ lock = None
    /\ losses < MaxLosses /\ losses' = losses + 1
    /\ \/ disk.record # None /\ disk' = [disk EXCEPT !.record = None] /\ UNCHANGED inputs
       \/ disk.head # None /\ disk' = [disk EXCEPT !.head = None] /\ UNCHANGED inputs
       \/ \E r \in disk.revs : disk' = [disk EXCEPT !.revs = @ \ {r}] /\ UNCHANGED inputs
       \/ \E i \in inputs : inputs' = inputs \ {i} /\ UNCHANGED disk
    /\ UNCHANGED <<series, lock, job, clock, faults, answers>>

Work(p) ==
    \/ ExportSection(p) \/ Exported(p) \/ Reconcile(p) \/ Decide(p) \/ Imported(p) \/ Persist(p)

Responses ==
    {[input |-> x.doc, base |-> b, secs |-> s] :
        x \in inputs, b \in {None} \cup {Ref(y.rev) : y \in answers},
        s \in (SUBSET UNION {Outlines[n] : n \in 1..comps}) \ {{}}}

Ask(p) ==
    \/ selected # None /\ \E secs \in SUBSET Outlines[selected] : secs # {} /\ Export(p, secs)
    \/ \E a \in Responses : a.secs \subseteq Secs(a.input) /\ Import(p, a)

Next ==
    \/ NewVersion \/ (\E n \in 1..comps : Choose(n)) \/ Lose
    \/ \E p \in Procs : Work(p) \/ Ask(p) \/ Stops(p)

Spec == Init /\ [][Next]_vars

-----------------------------------------------------------------------------
(* Properties                                                              *)

TypeOK ==
    /\ comps \in 1..Len(Outlines) /\ selected \in (1..comps) \cup {None}
    /\ \A r \in disk.revs : r.num \in 1..MaxRevisions /\ r.at <= clock
    /\ disk.head # None => disk.root
    /\ \A p \in Procs : job[p].op \in {"idle", "export"} \/ lock = p

(* All sections of an exported input come from the version it pins,        *)
(* although the selection may move between any two of them.                *)
InputsPinned == \A x \in inputs : \A s \in DOMAIN x.read : x.read[s] = x.doc.comp

(* No revision number is answered with two manuscripts and no response is  *)
(* imported twice, whatever dies and whichever two files are lost.         *)
RevisionsOnce ==
    losses <= 2 => \A a, b \in answers : a.rev.num = b.rev.num \/ a.resp = b.resp => a.rev = b.rev

(* A section stands in a manuscript only with an input of the composition  *)
(* version the manuscript is pinned to, an input that asked for it.        *)
SectionsFit ==
    \A r \in disk.revs : \A s \in DOMAIN r.rows :
        /\ r.rows[s].origin.comp = r.input.comp
        /\ s \in Secs(r.rows[s].origin)

(* What dies or fails to be written never makes the manuscripts unreadable.*)
AlwaysReconcilable ==
    losses = 0 => Reconcilable /\ \A a \in answers : Inspects(a.rev)
=============================================================================
