----------------------------- MODULE SurveyIntake -----------------------------
(***************************************************************************)
(* The survey registries of a workspace: Designs and Instruments           *)
(* (local_survey_store.py), responses and the datasets that refer to them  *)
(* (local_survey_response_store.py), analysis specifications and results   *)
(* (local_survey_analysis_store.py), and the intake of a file of REAL      *)
(* responses that goes through all of them (survey_real_intake.py).  Each  *)
(* registry is written in one transaction per call; an intake is four.     *)
(***************************************************************************)
EXTENDS Naturals, Sequences, FiniteSets, TLC

CONSTANTS
    Callers,
    Versions,   \* the versions of the Instrument
    Files,      \* [locator, rows], a row being [key, content, who]
    Runs,       \* completed virtual Runs
    RunRows,    \* the responses each of them produced
    Legacy,     \* identities that may be held from an older intake
    Items,      \* what an analysis can ask for, with "default" among them
    None,
    MaxMoves,   \* bound on the moves of the Research State
    MaxManual   \* bound on the datasets captured one by one

VARIABLES
    head,        \* the Research State the registries are written against
    designs,     \* the States a Design was captured against
    instruments, \* the State each Instrument version was captured against, or None
    responses,   \* the record held under a response identity
    datasets,    \* the dataset held under an identity
    specs,       \* analysis specifications
    results,     \* aggregate results
    job          \* the intake each caller is in

registry == <<designs, instruments, responses, datasets, specs, results>>
vars == <<head, registry, job>>

MoveState ==
    /\ head < MaxMoves
    /\ head' = head + 1
    /\ UNCHANGED <<registry, job>>

CaptureDesign ==
    /\ designs' = designs \cup {head}
    /\ UNCHANGED <<head, instruments, responses, datasets, specs, results, job>>

(* An Instrument follows a Design of the current State.                    *)
DesignCurrent == head \in designs

(* A version is never replaced, and the State is part of it.               *)
NewRevision(v) == instruments[v] = None

CaptureInstrument ==
    \E v \in Versions :
        /\ DesignCurrent
        /\ NewRevision(v)
        /\ instruments' = [instruments EXCEPT ![v] = head]
        /\ UNCHANGED <<head, designs, responses, datasets, specs, results, job>>

-----------------------------------------------------------------------------
(* Rows.  A malformed row has no canonical response; an invalid one has,   *)
(* and is rejected.                                                        *)

Normalized(row, v, source) ==
    [content |-> row.content, who |-> row.who, instrument |-> v, source |-> source,
     legacy |-> FALSE,
     status |-> IF row.content = "invalid" THEN "rejected" ELSE "accepted"]

First(rows, i) == \A j \in 1..(i - 1) : rows[j].key # rows[i].key

Malformed(rows, i) == rows[i].content = "malformed"

(* The rows that become canonical responses: only the first of an identity *)
(* counts, whatever it is.                                                 *)
Canonical(rows) == {i \in 1..Len(rows) : First(rows, i) /\ ~Malformed(rows, i)}

(* An older intake wrote its file into the record; apart from that a       *)
(* repeated answer must be the one held.                                   *)
SameAnswer(old, new) == [old EXCEPT !.legacy = FALSE] = new

(* What each identity of the file refers to, the record held where there   *)
(* is one.                                                                 *)
Prepared(rows, v, held) ==
    [k \in {rows[i].key : i \in Canonical(rows)} |->
        IF k \in DOMAIN held THEN held[k]
        ELSE Normalized(rows[CHOOSE i \in Canonical(rows) : rows[i].key = k], v, "intake")]

(* An answer that is held may be repeated, not changed and not lost.       *)
Repeats(rows, v, held) ==
    \A i \in 1..Len(rows) :
        First(rows, i) /\ rows[i].key \in DOMAIN held =>
            /\ ~Malformed(rows, i)
            /\ SameAnswer(held[rows[i].key], Normalized(rows[i], v, "intake"))

(* A producer that asks each participant once: a second response of a      *)
(* participant is rejected.                                                *)
OncePerParticipant(rows, v, run) ==
    [k \in {rows[i].key : i \in Canonical(rows)} |->
        LET i == CHOOSE n \in Canonical(rows) : rows[n].key = k
            again == \E j \in Canonical(rows) : j < i /\ rows[j].who = rows[i].who
        IN IF again THEN [Normalized(rows[i], v, run) EXCEPT !.status = "rejected"]
           ELSE Normalized(rows[i], v, run)]

Unreferenced(rows) == {i \in 1..Len(rows) : i \notin Canonical(rows)}

Dataset(rows, v, origin, refs) ==
    [instrument |-> v, origin |-> origin, refs |-> refs,
     rejected |-> [i \in Unreferenced(rows) |-> rows[i]], count |-> Len(rows)]

-----------------------------------------------------------------------------
(* The transaction that stores a dataset and the responses it refers to.   *)

(* Seeded fault: a record held under the identity is good enough.          *)
AnyRecord(d) == TRUE

(* Every response is new or held exactly so.                               *)
SameRecords(d) ==
    \A k \in DOMAIN d.refs : k \in DOMAIN responses => responses[k] = d.refs[k]

(* An intake may not pass over an answer that is held by now.              *)
NothingPassedOver(d) ==
    d.origin = "intake" =>
        \A i \in DOMAIN d.rejected :
            /\ d.rejected[i].content = "malformed"
            /\ d.rejected[i].key \notin DOMAIN d.refs
            => d.rejected[i].key \notin DOMAIN responses

Storable(id, d) == id \notin DOMAIN datasets /\ NothingPassedOver(d) /\ SameRecords(d)

Store(id, d) ==
    /\ responses' = responses @@ d.refs
    /\ datasets' = datasets @@ (id :> d)

CaptureDataset ==
    \E f \in Files, v \in Versions :
        LET rows == f.rows
            id == <<"manual", Cardinality({i \in DOMAIN datasets : i[1] = "manual"}) + 1>>
            refs == [k \in {rows[i].key : i \in Canonical(rows)} |->
                        Normalized(rows[CHOOSE i \in Canonical(rows) : rows[i].key = k], v, "manual")]
            d == Dataset(rows, v, "manual", refs)
        IN /\ id[2] <= MaxManual
           /\ instruments[v] # None
           /\ Storable(id, d)
           /\ Store(id, d)
           /\ UNCHANGED <<head, designs, instruments, specs, results, job>>

(* The dataset of a Run is named after it; a repeated call verifies it.    *)
CaptureRunDataset ==
    \E run \in Runs, v \in Versions :
        LET d == Dataset(RunRows[run], v, "synthetic", OncePerParticipant(RunRows[run], v, run))
        IN /\ instruments[v] # None
           /\ Storable(<<"run", run>>, d)
           /\ Store(<<"run", run>>, d)
           /\ UNCHANGED <<head, designs, instruments, specs, results, job>>

-----------------------------------------------------------------------------
(* The intake of a file.                                                   *)

IntakeId(f, v) == <<"intake", f, v>>

(* A stored batch is the one of this file when its records are all held as *)
(* it refers to them, and they and its rejected rows are those of the      *)
(* file.                                                                   *)
Verified(f, v) ==
    LET d == datasets[IntakeId(f, v)]
    IN /\ d.count = Len(f.rows)
       /\ \A k \in DOMAIN d.refs : k \in DOMAIN responses /\ responses[k] = d.refs[k]
       /\ \A k \in DOMAIN d.refs : \E i \in Canonical(f.rows) :
             f.rows[i].key = k /\ SameAnswer(responses[k], Normalized(f.rows[i], v, "intake"))
       /\ d.rejected = [i \in Unreferenced(f.rows) |-> f.rows[i]]

Analysis(f, v) == [phase |-> "spec", file |-> f, instrument |-> v]

StartIntake(c) ==
    \E f \in Files, v \in Versions :
        /\ job[c] = None
        /\ instruments[v] # None
        /\ IF IntakeId(f, v) \in DOMAIN datasets
           THEN Verified(f, v) /\ job' = [job EXCEPT ![c] = Analysis(f, v)]
           ELSE /\ Repeats(f.rows, v, responses)
                /\ job' = [job EXCEPT ![c] =
                      [phase |-> "write", file |-> f, instrument |-> v, state |-> head,
                       refs |-> Prepared(f.rows, v, responses)]]
        /\ UNCHANGED <<head, registry>>

WriteDataset(c) ==
    /\ job[c] # None /\ job[c].phase = "write"
    /\ LET f == job[c].file
           v == job[c].instrument
           id == IntakeId(f, v)
           d == Dataset(f.rows, v, "intake", job[c].refs)
       IN \/ /\ job[c].state = head
             /\ Storable(id, d)
             /\ Store(id, d)
             /\ job' = [job EXCEPT ![c] = Analysis(f, v)]
          \/ /\ job[c].state = head
             /\ id \in DOMAIN datasets    \* a rival stored the batch meanwhile
             /\ Verified(f, v)
             /\ job' = [job EXCEPT ![c] = Analysis(f, v)]
             /\ UNCHANGED <<responses, datasets>>
          \/ /\ job[c].state # head \/ ~Storable(id, d)
             /\ job' = [job EXCEPT ![c] = None]
             /\ UNCHANGED <<responses, datasets>>
    /\ UNCHANGED <<head, designs, instruments, specs, results>>

(* Specifications and results are named by the digest of what they hold.   *)
StoreSpec(spec) == specs' = specs \cup {spec}

StoreResult(result) == results' = results \cup {result}

CaptureSpec(c) ==
    /\ job[c] # None /\ job[c].phase = "spec"
    /\ \E items \in Items :
          LET spec == [dataset |-> IntakeId(job[c].file, job[c].instrument), items |-> items]
          IN /\ StoreSpec(spec)
             /\ job' = [job EXCEPT ![c] = [phase |-> "aggregate", spec |-> spec]]
    /\ UNCHANGED <<head, designs, instruments, responses, datasets, results>>

Population(d, status) == {k \in DOMAIN d.refs : responses[k].status = status}

(* The population is read back and must be the one the dataset refers to.  *)
Resolves(d) ==
    \A k \in DOMAIN d.refs : k \in DOMAIN responses /\ responses[k] = d.refs[k]

(* A frequency knows the ordinary options only: an accepted answer that    *)
(* names the option for a missing value cannot be counted.                 *)
Countable(d, items) ==
    items = "default" =>
        \A k \in Population(d, "accepted") : responses[k].content # "special"

Aggregate(spec) ==
    LET d == datasets[spec.dataset]
    IN [spec |-> spec, accepted |-> Population(d, "accepted"),
        excluded |-> d.count - Cardinality(Population(d, "accepted"))]

RunAggregation(c) ==
    /\ job[c] # None /\ job[c].phase = "aggregate"
    /\ LET spec == job[c].spec
           d == datasets[spec.dataset]
       IN IF Resolves(d) /\ Countable(d, spec.items)
          THEN StoreResult(Aggregate(spec)) ELSE UNCHANGED results
    /\ job' = [job EXCEPT ![c] = None]
    /\ UNCHANGED <<head, designs, instruments, responses, datasets, specs>>

(* The process dies or a call is refused between two transactions.         *)
Interrupt(c) ==
    /\ job[c] # None
    /\ job' = [job EXCEPT ![c] = None]
    /\ UNCHANGED <<head, registry>>

Init ==
    /\ head = 0
    /\ designs = {} /\ specs = {} /\ results = {}
    /\ datasets = <<>>
    /\ job = [c \in Callers |-> None]
    /\ \E held \in SUBSET Legacy, v \in Versions :
          /\ instruments = [w \in Versions |-> IF held # {} /\ w = v THEN 0 ELSE None]
          /\ responses = [k \in held |->
                [Normalized([content |-> "yes", who |-> "p"], v, "intake") EXCEPT !.legacy = TRUE]]

Next ==
    \/ MoveState \/ CaptureDesign \/ CaptureInstrument
    \/ CaptureDataset \/ CaptureRunDataset
    \/ \E c \in Callers : \/ StartIntake(c) \/ WriteDataset(c) \/ CaptureSpec(c)
                          \/ RunAggregation(c) \/ Interrupt(c)

Spec == Init /\ [][Next]_vars

-----------------------------------------------------------------------------
(* Properties                                                              *)

(* A batch that was committed can be taken up again from its file: its     *)
(* records are held exactly as it refers to them, whatever other batches   *)
(* of the same answers did meanwhile (_verified_real_dataset_reuse, real-  *)
(* response-intake.md "Recovery and concurrency").                         *)
BatchesResume ==
    \A id \in DOMAIN datasets :
        /\ Resolves(datasets[id])
        /\ id[1] = "intake" => Verified(id[2], id[3])

(* A result counts every row of its batch once, accepted or excluded.      *)
ResultsCountAll ==
    \A r \in results :
        LET d == datasets[r.spec.dataset]
        IN /\ r.spec \in specs
           /\ r.accepted = {k \in DOMAIN d.refs : d.refs[k].status = "accepted"}
           /\ r.excluded + Cardinality(r.accepted) = d.count

(* A batch that names an identity whose answer is held refers to that      *)
(* answer: a malformed copy never removes a respondent from the analysis   *)
(* (capture_dataset, under the write lock).                                *)
NoAnswerPassedOver ==
    \A id \in DOMAIN datasets' \ DOMAIN datasets :
        id[1] = "intake" =>
            \A i \in 1..Len(id[2].rows) :
                LET k == id[2].rows[i].key
                IN k \in DOMAIN responses => k \in DOMAIN datasets'[id].refs
                                            /\ datasets'[id].refs[k] = responses[k]
=============================================================================
