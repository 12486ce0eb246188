---------------------------- MODULE VirtualRunner ----------------------------
(***************************************************************************)
(* The virtual Survey runner (survey_virtual_runner and the                *)
(* virtual_runner application service): a Run answers an approved          *)
(* Instrument with synthetic respondents, made up by a generator           *)
(* ("structural") or asked of a language model one profile at a time       *)
(* ("llm"), validates the answers, registers defects and assesses whether  *)
(* a real survey may be considered.  The call that made the Run goes on to *)
(* capture its responses and, for an llm Run, their analysis, each in a    *)
(* transaction of its own, while others may register responses for the Run *)
(* and analyse what is registered.  The Run's own lifecycle is             *)
(* ExecutionRun's.                                                         *)
(***************************************************************************)
EXTENDS Naturals, Sequences, FiniteSets

CONSTANTS
    Callers,
    Profiles,   \* the synthetic respondents of an llm Run, as a sequence
    Codes,      \* validation issues
    Faults,     \* those the STRESS generator injects
    Policies,   \* readiness policies [require, blocks]
    Items,      \* what an analysis can be asked for, a number each
    Minimum,    \* valid responses an llm Run needs, at least 1
    Retries,    \* transport retries of one request, 0 or 1
    Repairs,    \* repairs of one profile's output, 0 or 1
    None,
    MaxVersions,    \* bound on the versions of the Instrument
    MaxMoves,   \* bound on the moves of the Research State
    MaxRuns,    \* bound on the Runs
    MaxModelRuns,   \* bound on the llm Runs
    MaxOthers   \* bound on the captures of others, and on the analyses they add to

VARIABLES
    head,       \* the current Snapshot
    captured,   \* the versions of the Instrument in the order they were captured,
                \* each the Snapshot it was captured against
    runs,       \* the Runs in the order they were started
    datasets,   \* the responses registered for a Run, by the Run
    results,    \* the analyses of them: <<Run, items>>
    replies,    \* what its caller was told
    job         \* what each caller is doing

vars == <<head, captured, runs, datasets, results, replies, job>>

Idle == [at |-> "idle"]

(* What is kept of Runs, and of one more.                                  *)
With(kept, n, of) == [m \in DOMAIN kept \cup {n} |-> IF m = n THEN of ELSE kept[m]]

Scenarios == {"STANDARD", "STRESS"}

MoveState ==
    /\ head < MaxMoves
    /\ head' = head + 1
    /\ UNCHANGED <<captured, runs, datasets, results, replies, job>>

CaptureInstrument ==
    /\ Len(captured) < MaxVersions
    /\ captured' = Append(captured, head)
    /\ UNCHANGED <<head, runs, datasets, results, replies, job>>

-----------------------------------------------------------------------------
(* Starting a Run.  Its inputs are pinned to the current Snapshot.         *)

(* The approved Instrument, its Design, the method, the protocol and the   *)
(* profile set all belong to the Snapshot the Run pins.                    *)
Resolves(v) == captured[v] = head

(* The model answers only STANDARD requests.                               *)
Accepts(scenario, backend) == backend = "llm" => scenario = "STANDARD"

(* What a Run is pinned to; the backend is part of the runner's digest.    *)
RunnerDigest(backend) == backend

Pins(v, snapshot, backend) ==
    [version |-> v, snapshot |-> snapshot, instrumentOf |-> captured[v],
     runner |-> RunnerDigest(backend)]

NewRun(q) ==
    [pins |-> q.pins, backend |-> q.backend, scenario |-> q.scenario, policy |-> q.policy,
     prior |-> q.prior, status |-> "running", attempts |-> <<>>, records |-> <<>>,
     open |-> FALSE, ready |-> FALSE, ended |-> None]

Request(c) ==
    \E v \in DOMAIN captured, scenario \in Scenarios, backend \in {"structural", "llm"},
       policy \in Policies, prior \in {{}} \cup {{n} : n \in DOMAIN runs}, items \in Items :
        /\ job[c] = Idle
        /\ Len(runs) < MaxRuns
        /\ backend = "llm"
           => Cardinality({n \in DOMAIN runs : runs[n].backend = "llm"}) < MaxModelRuns
        /\ Resolves(v)
        /\ Accepts(scenario, backend)
        /\ job' = [job EXCEPT ![c] =
                [at |-> "resolved", pins |-> Pins(v, head, backend), backend |-> backend,
                 scenario |-> scenario, policy |-> policy, prior |-> prior, items |-> items]]
        /\ UNCHANGED <<head, captured, runs, datasets, results, replies>>

(* The runtime checks the pins once more.                                  *)
ContextValid(q) == q.pins.snapshot = head

Start(c) ==
    /\ job[c].at = "resolved"
    /\ ContextValid(job[c])
    /\ runs' = Append(runs, NewRun(job[c]))
    /\ job' = [job EXCEPT ![c] =
            [at |-> IF job[c].backend = "llm" THEN "ask" ELSE "generate",
             run |-> Len(runs) + 1, items |-> job[c].items, before |-> head, repair |-> 0,
             transport |-> 0, posts |-> 0]]
    /\ UNCHANGED <<head, captured, datasets, results, replies>>

RefuseContext(c) ==
    /\ job[c].at = "resolved"
    /\ ~ContextValid(job[c])
    /\ job' = [job EXCEPT ![c] = Idle]
    /\ UNCHANGED <<head, captured, runs, datasets, results, replies>>

-----------------------------------------------------------------------------
(* Readiness.                                                              *)

(* What two Runs must share for one to count for the other.                *)
FreezeSignature(r) == r.pins

(* A prior Run named for readiness.                                        *)
Counts(n, r) ==
    /\ runs[n].status = "completed"
    /\ FreezeSignature(runs[n]) = FreezeSignature(r)

(* The model's adapter ignores the prior Runs it is given.                 *)
PriorScenarios(r) ==
    IF r.backend = "llm" THEN {} ELSE {runs[n].scenario : n \in r.prior}

Required(r) == r.policy.require

(* Only the Run's own defects are looked at.                               *)
Ready(r, open) ==
    /\ Required(r) \subseteq PriorScenarios(r) \cup {r.scenario}
    /\ r.policy.blocks => ~open

(* An issue a fault was injected for is expected, wherever it was found.   *)
Expected(r) == IF r.scenario = "STRESS" THEN Faults ELSE {}

OpenDefects(r, issues) == issues \ Expected(r) # {}

Complete(c, records, attempts, issues) ==
    LET n == job[c].run
        r == [runs[n] EXCEPT !.records = records, !.attempts = attempts]
        open == OpenDefects(r, issues)
    IN runs' = [runs EXCEPT ![n] =
                    [r EXCEPT !.status = "completed", !.open = open, !.ready = Ready(r, open),
                              !.ended = head]]

(* The structural generator makes its records in one go.                   *)
Generate(c) ==
    /\ job[c].at = "generate"
    /\ LET r == runs[job[c].run]
       IN /\ \A n \in r.prior : Counts(n, r)
          /\ \E issues \in SUBSET Codes :
                /\ Complete(c, <<[profile |-> None, attempt |-> None,
                                  quality |-> IF issues = {} THEN "valid" ELSE "invalid"]>>,
                            <<>>, issues)
                /\ job' = [job EXCEPT ![c].at = "completed"]
    /\ UNCHANGED <<head, captured, datasets, results, replies>>

(* A prior Run that does not count fails the Run.                          *)
RefusePrior(c) ==
    /\ job[c].at = "generate"
    /\ LET r == runs[job[c].run]
       IN \E n \in r.prior : ~Counts(n, r)
    /\ runs' = [runs EXCEPT ![job[c].run].status = "failed"]
    /\ job' = [job EXCEPT ![c] = Idle]
    /\ UNCHANGED <<head, captured, datasets, results, replies>>

-----------------------------------------------------------------------------
(* Asking the model.  A profile is asked again after a transport failure,  *)
(* and asked to repair output that cannot be read, both within bounds.     *)

Attempts(c) == runs[job[c].run].attempts
Records(c) == runs[job[c].run].records
Asked(c) == Len(Attempts(c)) + 1

RetryLeft(c) == job[c].transport < Retries
RepairLeft(c) == job[c].repair < Repairs

Asking(c, transport, repair, posts) ==
    job' = [job EXCEPT ![c] = [at |-> "ask", run |-> @.run, items |-> @.items,
                               before |-> @.before, repair |-> repair, transport |-> transport,
                               posts |-> posts]]

(* A timeout, a lost connection or an error of the server.                 *)
TransportFailure(c) ==
    /\ job[c].at = "ask" /\ Asked(c) <= Len(Profiles)
    /\ RetryLeft(c)
    /\ Asking(c, job[c].transport + 1, job[c].repair, job[c].posts + 1)
    /\ UNCHANGED <<head, captured, runs, datasets, results, replies>>

Unreadable(c) ==
    /\ job[c].at = "ask" /\ Asked(c) <= Len(Profiles)
    /\ RepairLeft(c)
    /\ Asking(c, 0, job[c].repair + 1, job[c].posts + 1)
    /\ UNCHANGED <<head, captured, runs, datasets, results, replies>>

NextProfile(c) == Asking(c, 0, 0, 0)

Attempt(c, status, response) ==
    [number |-> Asked(c), profile |-> Profiles[Asked(c)], status |-> status,
     response |-> response]

(* A failure leaves a diagnostic and no record: a bound is reached, or the *)
(* provider's answer cannot be asked for again.                            *)
AttemptFails(c) ==
    /\ job[c].at = "ask" /\ Asked(c) <= Len(Profiles)
    /\ runs' = [runs EXCEPT ![job[c].run].attempts = Append(@, Attempt(c, "failed", None))]
    /\ NextProfile(c)
    /\ UNCHANGED <<head, captured, datasets, results, replies>>

(* Records are numbered by themselves.                                     *)
RecordNumber(c) == Len(Records(c)) + 1

Record(c, quality) ==
    [profile |-> Profiles[Asked(c)], attempt |-> Asked(c), quality |-> quality]

AttemptAnswers(c) ==
    \E quality \in {"valid", "invalid", "malformed"} :
        /\ job[c].at = "ask" /\ Asked(c) <= Len(Profiles)
        /\ runs' = [runs EXCEPT
                ![job[c].run].attempts = Append(@, Attempt(c, "generated", RecordNumber(c))),
                ![job[c].run].records = Append(@, Record(c, quality))]
        /\ NextProfile(c)
        /\ UNCHANGED <<head, captured, datasets, results, replies>>

AllAsked(c) ==
    /\ job[c].at = "ask" /\ Asked(c) > Len(Profiles)
    /\ \E issues \in SUBSET Codes :
          /\ issues = {} <=> \A i \in DOMAIN Records(c) : Records(c)[i].quality = "valid"
          /\ Complete(c, Records(c), Attempts(c), issues)
    /\ job' = [job EXCEPT ![c].at = "completed"]
    /\ UNCHANGED <<head, captured, datasets, results, replies>>

-----------------------------------------------------------------------------
(* After the Run: the State must not have moved while it was executing.    *)
(* The capture of its responses and their analysis load the State, write   *)
(* only while that is current, and look once more when they have written.  *)

NextAfter ==
    [completed |-> "checked", captured |-> "settled", analysed |-> "answered"]


Held(c) == head = job[c].before

StateHeld(c) ==
    /\ job[c].at \in DOMAIN NextAfter /\ Held(c)
    /\ job' = [job EXCEPT ![c].at = NextAfter[@]]
    /\ UNCHANGED <<head, captured, runs, datasets, results, replies>>

(* The call is given up with what it has written.                          *)
StateMoved(c) ==
    /\ job[c].at \in DOMAIN NextAfter \cup {"capturing", "analysing"} /\ ~Held(c)
    /\ job' = [job EXCEPT ![c] = Idle]
    /\ UNCHANGED <<head, captured, runs, datasets, results, replies>>

EnoughValid(n) ==
    runs[n].backend = "llm" => Cardinality(datasets[n].accepted) >= Minimum

ToAnalyse(n) == runs[n].backend = "llm" /\ EnoughValid(n)

LoadState(c) ==
    /\ job[c].at = "checked" \/ (job[c].at = "settled" /\ ToAnalyse(job[c].run))
    /\ job' = [job EXCEPT ![c].at = IF @ = "checked" THEN "capturing" ELSE "analysing",
                          ![c].before = head]
    /\ UNCHANGED <<head, captured, runs, datasets, results, replies>>

OfQuality(records, quality) == {i \in DOMAIN records : records[i].quality = quality}

(* The responses of a Run, by their numbers.                               *)
Dataset(r) ==
    [own |-> TRUE, accepted |-> OfQuality(r.records, "valid"),
     rejected |-> OfQuality(r.records, "invalid"),
     unreferenced |-> OfQuality(r.records, "malformed")]

CaptureDataset(c) ==
    /\ job[c].at = "capturing" /\ Held(c)
    /\ job[c].run \notin DOMAIN datasets
    /\ datasets' = With(datasets, job[c].run, Dataset(runs[job[c].run]))
    /\ job' = [job EXCEPT ![c].at = "captured"]
    /\ UNCHANGED <<head, captured, runs, results, replies>>

(* What is registered for the Run is its own, response by response.        *)
SameResponses(n) == datasets[n].own

(* The responses registered for the Run are used if they are its own, and  *)
(* the call ends with an error if not.                                     *)
ReuseDataset(c) ==
    LET n == job[c].run
    IN /\ job[c].at = "capturing" /\ n \in DOMAIN datasets
       /\ job' = [job EXCEPT ![c] = IF SameResponses(n) THEN [@ EXCEPT !.at = "settled"] ELSE Idle]
       /\ UNCHANGED <<head, captured, runs, datasets, results, replies>>

Analyse(c) ==
    /\ job[c].at = "analysing" /\ Held(c)
    /\ results' = results \cup {<<job[c].run, job[c].items>>}
    /\ job' = [job EXCEPT ![c].at = "analysed"]
    /\ UNCHANGED <<head, captured, runs, datasets, replies>>

Reply(c) ==
    LET n == job[c].run
    IN /\ \/ job[c].at = "answered"
          \/ job[c].at = "settled" /\ ~ToAnalyse(n)
       /\ replies' = With(replies, n, [status |-> IF EnoughValid(n) THEN "SUCCEEDED" ELSE "ERROR",
                                        items |-> job[c].items])
       /\ job' = [job EXCEPT ![c] = Idle]
       /\ UNCHANGED <<head, captured, runs, datasets, results>>

-----------------------------------------------------------------------------
(* What others may do beside the calls.                                    *)

(* What others registered; nothing that goes on looks at which they are.   *)
Strangers == [own |-> FALSE, accepted |-> {}, rejected |-> {}, unreferenced |-> {}]

(* Synthetic responses may be registered for any completed Run, by its     *)
(* identity alone; these take the place of the Run's own.                  *)
RegisterOthers(n) ==
    /\ n \in DOMAIN runs \ DOMAIN datasets
    /\ Cardinality({m \in DOMAIN datasets : ~datasets[m].own}) < MaxOthers
    /\ runs[n].status = "completed"
    /\ datasets' = With(datasets, n, Strangers)
    /\ UNCHANGED <<head, captured, runs, results, replies, job>>

(* Whatever responses are stored can be analysed, however few are valid.   *)
AnalyseStored(n, items) ==
    /\ n \in DOMAIN datasets
    /\ Cardinality(results) < MaxOthers
    /\ results' = results \cup {<<n, items>>}
    /\ UNCHANGED <<head, captured, runs, datasets, replies, job>>

(* The process dies; a Run in progress stays as it is.                     *)
Crash(c) ==
    /\ job[c].at \notin {"idle", "resolved"}
    /\ job' = [job EXCEPT ![c] = Idle]
    /\ UNCHANGED <<head, captured, runs, datasets, results, replies>>

-----------------------------------------------------------------------------
(* Inspecting a completed llm Run.                                         *)

Generated(r) == {a \in DOMAIN r.attempts : r.attempts[a].status = "generated"}

(* Every profile of the plan has exactly one attempt.                      *)
AttemptsJoin(r) ==
    /\ Len(r.attempts) = Len(Profiles)
    /\ \A a \in DOMAIN r.attempts : r.attempts[a].profile = Profiles[a]

(* Every response is the one its profile's attempt refers to.              *)
ResponsesJoin(r, kept) ==
    \A i \in kept :
        \E a \in Generated(r) :
            /\ r.attempts[a].profile = r.records[i].profile
            /\ r.attempts[a].number = r.records[i].attempt
            /\ r.attempts[a].response = i

(* And every generated profile has one.                                    *)
ProfilesJoin(r, kept) ==
    \A a \in Generated(r) :
        Cardinality({i \in kept : r.records[i].profile = r.attempts[a].profile}) = 1

Shown(n) ==
    LET r == runs[n]
    IN [requested |-> Len(Profiles), generated |-> Cardinality(Generated(r)),
        valid |-> Cardinality(datasets[n].accepted),
        rejected |-> Cardinality(datasets[n].rejected \cup datasets[n].unreferenced),
        failed |-> Cardinality(DOMAIN r.attempts \ Generated(r))]

-----------------------------------------------------------------------------
Init ==
    /\ head = 0
    /\ captured = <<>>
    /\ runs = <<>>
    /\ datasets = <<>> /\ results = {} /\ replies = <<>>
    /\ job = [c \in Callers |-> Idle]

Next ==
    \/ MoveState
    \/ CaptureInstrument
    \/ \E n \in DOMAIN runs :
          RegisterOthers(n) \/ \E items \in Items : AnalyseStored(n, items)
    \/ \E c \in Callers :
          \/ Request(c) \/ Start(c) \/ RefuseContext(c) \/ Generate(c) \/ RefusePrior(c)
          \/ TransportFailure(c) \/ Unreadable(c) \/ AttemptFails(c) \/ AttemptAnswers(c)
          \/ AllAsked(c)
          \/ StateHeld(c) \/ StateMoved(c) \/ LoadState(c)
          \/ CaptureDataset(c) \/ ReuseDataset(c) \/ Analyse(c)
          \/ Reply(c) \/ Crash(c)

Spec == Init /\ [][Next]_vars

-----------------------------------------------------------------------------
Completed == {n \in DOMAIN runs : runs[n].status = "completed"}

(* A Run that reports readiness rests on completed Runs of every scenario  *)
(* its policy requires, all made with the Instrument of one Snapshot.      *)
ReadyUnderOneFreeze ==
    \A n \in Completed :
        runs[n].ready =>
            \A s \in runs[n].policy.require :
                \E m \in runs[n].prior \cup {n} :
                    /\ m \in Completed /\ runs[m].scenario = s
                    /\ runs[m].pins.snapshot = runs[n].pins.snapshot
                    /\ runs[m].pins.instrumentOf = runs[m].pins.snapshot
                    /\ runs[m].pins.version = runs[n].pins.version

(* The responses captured of an llm Run join with its attempts and its     *)
(* profiles, and the numbers shown add up.  An inspection of them is       *)
(* refused only when the State moves meanwhile or when there are several   *)
(* analyses and it names none; one of responses that others registered may *)
(* be refused for these not being of its attempts.                         *)
Inspectable ==
    \A n \in {m \in DOMAIN datasets : datasets[m].own} :
        LET r == runs[n]
            kept == datasets[n].accepted \cup datasets[n].rejected \cup datasets[n].unreferenced
            shown == Shown(n)
        IN r.backend = "llm" =>
             /\ AttemptsJoin(r) /\ ResponsesJoin(r, kept) /\ ProfilesJoin(r, kept)
             /\ shown.requested = shown.generated + shown.failed
             /\ shown.generated = shown.valid + shown.rejected

(* A profile costs a bounded number of requests, the next one included.    *)
RequestsBounded ==
    \A c \in Callers :
        job[c].at = "ask" => job[c].posts + 1 <= (Retries + 1) * (Repairs + 1)

(* A Run reported as a success has the responses it made, not what others  *)
(* registered for it, an llm Run enough valid ones and the analysis it was *)
(* asked for; and an error is reported of an llm Run only that has too few *)
(* (an analysis of those may have been asked for by somebody else).        *)
SuccessIsAnalysed ==
    \A n \in DOMAIN replies :
        /\ n \in DOMAIN datasets /\ datasets[n] = Dataset(runs[n])
        /\ runs[n].backend = "llm" =>
              IF replies[n].status = "SUCCEEDED"
              THEN /\ Cardinality(OfQuality(runs[n].records, "valid")) >= Minimum
                   /\ <<n, replies[n].items>> \in results
              ELSE Cardinality(OfQuality(runs[n].records, "valid")) < Minimum
        /\ runs[n].backend # "llm" => replies[n].status = "SUCCEEDED"

(* Whatever else is said of a Run, the State it was pinned to was current  *)
(* from its start to its end: one that executed while the State moved has  *)
(* its call end with an error (VR-EPISTEMIC-FIREWALL-001).                 *)
StateStoodStill ==
    \A n \in DOMAIN replies : runs[n].ended = runs[n].pins.snapshot
=============================================================================
