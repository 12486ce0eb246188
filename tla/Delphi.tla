-------------------------------- MODULE Delphi --------------------------------
(***************************************************************************)
(* A two-round Delphi study in the local registry of one panel             *)
(* (plugins/local_delphi_store.py, survey/delphi_facade.py,                *)
(* survey/delphi_instrument_approval.py).  Every document is immutable and *)
(* is written in one transaction; what a call read before its transaction  *)
(* may have been overtaken by another call or by the Research State.       *)
(***************************************************************************)
EXTENDS Naturals, Sequences, FiniteSets

CONSTANTS
    Actors,        \* the callers: operators and their agents
    Participants,  \* the panel
    Answers,       \* what a participant can answer to the whole Instrument
    Answered,      \* who may have answered in a result of an earlier build
    Versions,      \* the versions of an Instrument identity
    None,
    MaxMoves,      \* bound on the moves of the Research State
    MaxRequests,   \* bound on the approval requests
    MaxRevisions   \* bound on the revisions of Round 1 and of Round 2

VARIABLES
    head,        \* the Research State the registry may be written against
    design,      \* the Snapshot the Delphi Design was captured against, or None
    requests,    \* approval requests, by the id of the decision they reserve
    receipts,    \* the choice of each decided request
    instruments, \* the Instrument stored under a round and a version
    rounds,      \* the revisions of the result of Round 1 and of Round 2
    feedback,    \* the Round 1 revisions with a feedback artifact
    inherited,   \* those whose feedback an earlier build had left (history variable)
    candidates,  \* the Round 2 revisions with a stopping candidate
    job          \* the decision each caller is about to record, or None

registry ==
    <<design, requests, receipts, instruments, rounds, feedback, inherited, candidates>>
vars == <<head, registry, job>>

Keys == {1, 2} \X Versions
Moves == 0..MaxMoves
Derivations == [revision: 1..MaxRevisions[1], feedback: 1..MaxRevisions[1]]
Instruments == [key: Keys, material: BOOLEAN, derived: Derivations \cup {None},
                approval: Nat \cup {None}, against: Moves]

(* An Instrument approved by the id of a decision alone, before receipts   *)
(* were introduced, and the Round 1 result analysed before the modes and   *)
(* scales were told apart, which may have its feedback.                    *)
LegacyInstrument(version) ==
    [key |-> <<1, version>>, material |-> FALSE, derived |-> None, approval |-> 0, against |-> 0]

Legacy(i) == i.approval = 0

Responses == UNION {[present -> Answers] : present \in SUBSET Participants}

Revision(i, expected, responses, source, current) ==
    [instrument |-> i, expected |-> expected, responses |-> responses,
     source |-> source, current |-> current]

Init ==
    /\ head = 0
    /\ requests = <<>> /\ receipts = <<>>
    /\ candidates = {}
    /\ job = [a \in Actors |-> None]
    /\ \/ /\ design = None
          /\ instruments = [k \in Keys |-> None]
          /\ rounds = <<<<>>, <<>>>>
          /\ feedback = {}
       \/ \E version \in Versions, responses \in Responses :
             /\ DOMAIN responses \in Answered
             /\ design = 0
             /\ instruments = [[k \in Keys |-> None] EXCEPT
                                 ![<<1, version>>] = LegacyInstrument(version)]
             /\ rounds = <<<<Revision(LegacyInstrument(version), Participants, responses,
                                      0, FALSE)>>, <<>>>>
             /\ feedback \in {{}, {1}}
    /\ inherited = feedback

MoveState ==
    /\ head < MaxMoves
    /\ head' = head + 1
    /\ UNCHANGED <<registry, job>>

-----------------------------------------------------------------------------
(* A call reads, builds a document and writes it in one transaction.  What *)
(* it read is immutable, and most are guarded against a moved Research     *)
(* State (survey_facade._capture), so it is one step here; a decision      *)
(* reads whether it was already taken, so it has a step for that.          *)

(* The Snapshot is part of what a recapture must repeat.                   *)
CaptureDesign(a) ==
    /\ job[a] = None
    /\ design = None
    /\ design' = head
    /\ UNCHANGED <<head, requests, receipts, instruments, rounds, feedback, inherited,
                   candidates, job>>

(* Seeded fault: any stored feedback will do.                              *)
AnyFeedback(i) ==
    IF i.key[1] = 1 THEN i.derived = None
    ELSE /\ i.derived # None
         /\ i.derived.revision \in 1..Len(rounds[1])
         /\ i.derived.feedback \in feedback

(* Round 2 names an exact Round 1 revision and the feedback built on it.   *)
DerivationHolds(i) ==
    IF i.key[1] = 1 THEN i.derived = None
    ELSE /\ i.derived # None
         /\ i.derived.revision \in 1..Len(rounds[1])
         /\ i.derived.feedback \in feedback
         /\ i.derived.feedback = i.derived.revision

Drafts ==
    {i \in [key: Keys, material: BOOLEAN, derived: Derivations \cup {None},
            approval: {None}, against: {head}] : design # None /\ DerivationHolds(i)}

(* What a request is about: the Instrument without the decision it waits   *)
(* for, against the Snapshot it was read under.                            *)
Basis(i) == [i EXCEPT !.approval = None]

(* One request per basis: a repeated call is answered with the stored one. *)
KnownBasis(i) == \E q \in DOMAIN requests : Basis(requests[q]) = Basis(i)

RequestApproval(a) ==
    /\ job[a] = None
    /\ Len(requests) < MaxRequests
    /\ \E i \in Drafts :
          /\ ~KnownBasis(i)
          /\ requests' = Append(requests, [i EXCEPT !.approval = Len(requests) + 1])
    /\ receipts' = Append(receipts, None)
    /\ UNCHANGED <<head, design, instruments, rounds, feedback, inherited, candidates, job>>

(* Seeded fault: the Snapshot of the request is not looked at.             *)
ResolvableLater(q, choice) ==
    receipts[q] # None \/ choice = "decline" \/ DerivationHolds(requests[q])

(* A new approval is checked against the State and the dependencies before *)
(* anything is written; a decided request is only replayed.                *)
ResolvableNow(q, choice) ==
    \/ receipts[q] # None
    \/ choice = "decline"
    \/ requests[q].against = head /\ DerivationHolds(requests[q])

ResolveApproval(a) ==
    /\ job[a] = None
    /\ \E q \in DOMAIN requests, choice \in {"approve_exact", "decline"} :
          /\ ResolvableNow(q, choice)
          /\ job' = [job EXCEPT ![a] = [request |-> q, choice |-> choice, state |-> head]]
    /\ UNCHANGED <<head, registry>>

Free(i) == instruments[i.key] \in {None, i}

(* The receipt and the exact Instrument are one transaction: a conflict    *)
(* over the Instrument leaves no receipt either.                           *)
Decidable(q, choice) ==
    /\ receipts[q] = None
    /\ choice = "approve_exact" => Free(requests[q])

Decide(q, choice) ==
    /\ receipts' = [receipts EXCEPT ![q] = choice]
    /\ instruments' = IF choice = "approve_exact"
                      THEN [instruments EXCEPT ![requests[q].key] = requests[q]]
                      ELSE instruments

WriteReceipt(a) ==
    /\ job[a] # None
    /\ job' = [job EXCEPT ![a] = None]
    /\ IF job[a].state = head /\ Decidable(job[a].request, job[a].choice)
       THEN Decide(job[a].request, job[a].choice)
       ELSE UNCHANGED <<receipts, instruments>>
    /\ UNCHANGED <<head, design, requests, rounds, feedback, inherited, candidates>>

(* The receipt of an approved Instrument decides this very document.       *)
VerifyApproval(i) ==
    /\ i.approval \in DOMAIN receipts
    /\ receipts[i.approval] = "approve_exact"
    /\ [i EXCEPT !.against = 0] = [requests[i.approval] EXCEPT !.against = 0]

(* A draft is captured as it is, an approved Instrument (whatever decision *)
(* it names) only as the request held it, a material revision only so.     *)
Capturable(i) ==
    \/ i \in Drafts /\ ~i.material
    \/ \E draft \in Drafts : VerifyApproval([draft EXCEPT !.approval = i.approval])
                            /\ i = requests[i.approval]

CaptureInstrument(a) ==
    /\ job[a] = None
    /\ \E i \in Drafts \cup {requests[q] : q \in DOMAIN requests} :
          /\ Capturable(i)
          /\ Free(i)
          /\ instruments' = [instruments EXCEPT ![i.key] = i]
    /\ UNCHANGED <<head, design, requests, receipts, rounds, feedback, inherited, candidates, job>>

-----------------------------------------------------------------------------
(* Round results.                                                          *)

Expected(responses) == {e \in SUBSET Participants : e # {} /\ DOMAIN responses \subseteq e}

(* The latest revision of the same Instrument that holds answers of its    *)
(* own, or 0.                                                              *)
Previous(s, i) ==
    LET own == {v \in 1..Len(rounds[s]) : rounds[s][v].instrument = i /\ rounds[s][v].source = 0}
    IN IF own = {} THEN 0 ELSE CHOOSE v \in own : \A w \in own : w <= v

Extends(new, old) ==
    /\ new.expected = old.expected
    /\ \A p \in DOMAIN old.responses :
          p \in DOMAIN new.responses /\ new.responses[p] = old.responses[p]

(* A recalculation repeats its source; a late revision of a Round keeps    *)
(* the answers and the participants of the one before it.                  *)
Acceptable(s, r) ==
    IF r.source # 0
    THEN /\ r.instrument = rounds[s][r.source].instrument
         /\ r.expected = rounds[s][r.source].expected
         /\ r.responses = rounds[s][r.source].responses
    ELSE LET v == Previous(s, r.instrument)
         IN v # 0 => Extends(r, rounds[s][v])

Stored(s, r) == \E v \in 1..Len(rounds[s]) : rounds[s][v] = r

StoreRound(r) ==
    LET s == r.instrument.key[1]
    IN /\ Len(rounds[s]) < MaxRevisions[s]
       /\ ~Stored(s, r)
       /\ Acceptable(s, r)
       /\ rounds' = [rounds EXCEPT ![s] = Append(@, r)]
       /\ UNCHANGED <<head, design, requests, receipts, instruments, feedback, inherited,
                      candidates, job>>

(* Answers are accepted under an approved Instrument only, from expected   *)
(* participants.                                                           *)
CaptureRound(a) ==
    /\ job[a] = None
    /\ \E k \in Keys, responses \in Responses :
          /\ instruments[k] # None
          /\ VerifyApproval(instruments[k])
          /\ \E expected \in Expected(responses) :
                StoreRound(Revision(instruments[k], expected, responses, 0, TRUE))

(* A legacy result is analysed anew, from the answers it holds.            *)
RecalculateRound(a) ==
    /\ job[a] = None
    /\ \E s \in {1, 2} : \E v \in 1..Len(rounds[s]) :
          LET source == rounds[s][v]
          IN /\ ~source.current
             /\ StoreRound(Revision(source.instrument, source.expected,
                                     source.responses, v, TRUE))

(* Feedback and stopping candidates are named by the digest of what they   *)
(* hold, so a repeated build finds the stored one.                         *)
BuildFeedback(a) ==
    \E v \in 1..Len(rounds[1]) :
        /\ job[a] = None
        /\ rounds[1][v].current
        /\ feedback' = feedback \cup {v}
        /\ UNCHANGED <<head, design, requests, receipts, instruments, rounds, inherited,
                       candidates, job>>

BuildStoppingCandidate(a) ==
    \E v \in 1..Len(rounds[2]) :
        /\ job[a] = None
        /\ rounds[2][v].current
        /\ instruments[rounds[2][v].instrument.key] = rounds[2][v].instrument
        /\ candidates' = candidates \cup {v}
        /\ UNCHANGED <<head, design, requests, receipts, instruments, rounds, feedback,
                       inherited, job>>

Next ==
    \/ MoveState
    \/ \E a \in Actors :
          \/ CaptureDesign(a) \/ RequestApproval(a) \/ CaptureInstrument(a)
          \/ ResolveApproval(a) \/ WriteReceipt(a)
          \/ CaptureRound(a) \/ RecalculateRound(a)
          \/ BuildFeedback(a) \/ BuildStoppingCandidate(a)

Spec == Init /\ [][Next]_vars

-----------------------------------------------------------------------------
(* Properties                                                              *)

(* An Instrument is stored as approved exactly when a human approved this  *)
(* very document: not without the receipt, not another content, and never  *)
(* a receipt without its Instrument (delphi_instrument_approval.py:3,      *)
(* resolve_approval).  Answers are held under such Instruments only.       *)
ApprovedExactly ==
    /\ \A k \in Keys : LET i == instruments[k]
                       IN i = None \/ i.approval = None \/ Legacy(i) \/
                          /\ i.approval \in DOMAIN requests /\ requests[i.approval] = i
                          /\ receipts[i.approval] = "approve_exact"
    /\ \A q \in DOMAIN receipts :
          receipts[q] = "approve_exact" => instruments[requests[q].key] = requests[q]
    /\ \A s \in {1, 2} : \A v \in 1..Len(rounds[s]) :
          rounds[s][v].instrument.approval # None

(* Whatever order callers report late answers in, no revision of a Round   *)
(* loses or changes an answer an earlier one holds under that Instrument,  *)
(* and a new analysis of old answers holds those answers                   *)
(* (capture_round_revision).                                               *)
AnswersKept ==
    \A s \in {1, 2} : \A v, w \in 1..Len(rounds[s]) :
        LET old == rounds[s][v]
            new == rounds[s][w]
        IN /\ v < w /\ old.source = 0 /\ new.source = 0 /\ old.instrument = new.instrument
              => Extends(new, old)
           /\ new.source = v => Extends(new, old) /\ Extends(old, new)

(* A feedback says what a current analysis found, or is one that an        *)
(* earlier build left: those stay usable, whatever analysis they are of.   *)
Sound(v) == v \in feedback /\ (rounds[1][v].current \/ v \in inherited)

(* Whatever is asked, approved, captured and recalculated in between, and  *)
(* by whom, Round 2 goes back to one Round 1 revision with its own         *)
(* feedback, when it is asked about and when it is stored; and no feedback *)
(* and no stopping candidate is built from an analysis that is not current *)
(* (_delphi_instrument_document, require_current_analysis).                *)
RoundTwoRests ==
    /\ \A i \in {instruments[k] : k \in Keys} \cup {requests[q] : q \in DOMAIN requests} :
          i # None /\ i.key[1] = 2 =>
              i.derived.revision = i.derived.feedback /\ Sound(i.derived.feedback)
    /\ \A v \in feedback : Sound(v)
    /\ \A v \in candidates : rounds[2][v].current

(* An approval is recorded only while the Research State is the one the    *)
(* human was shown (resolve, survey_facade._capture).                      *)
ApprovedInTime ==
    \A q \in DOMAIN receipts :
        receipts[q] = None /\ receipts'[q] = "approve_exact" => requests[q].against = head

(* Nothing is asked twice: a basis has one request (capture_approval_      *)
(* request).                                                               *)
AskedOnce ==
    \A q, r \in DOMAIN requests : Basis(requests[q]) = Basis(requests[r]) => q = r
=============================================================================
