---------------------------- MODULE SurveyAnswers ----------------------------
(***************************************************************************)
(* What a response to a questionnaire comes to: which questions it was     *)
(* asked (survey_response/response_support.py), the canonical state of     *)
(* each answer and whether it is accepted (normalization.py,               *)
(* response_validation.py), and how accepted responses are counted         *)
(* (survey_analysis/aggregation.py).  A questionnaire is a sequence of     *)
(* questions [type, required, missing, rules]; `missing` tells that it     *)
(* declares an option "U" for an unknown answer.                           *)
(***************************************************************************)
EXTENDS Naturals, Sequences, FiniteSets, FiniteSetsExt

States == {"answered", "missing", "unknown", "not_asked"}

Answered(value) == [state |-> "answered", value |-> value]
Unanswered(state) == [state |-> state, value |-> state]

(* A choice question has the options "yes" and "no", and "U" where it      *)
(* declares one for an unknown answer.                                     *)
RegularOptions(question) == {"yes", "no"}

StableValues(question) ==
    RegularOptions(question) \cup (IF question.missing THEN {"U"} ELSE {})

(* The label of an option stands for its value.                            *)
ChoiceValue(question, value) ==
    IF question.type = "single_choice" /\ value = "Yes label" THEN "yes" ELSE value

NormalizedAnswer(question, answer) ==
    IF answer.state = "answered" THEN Answered(ChoiceValue(question, answer.value))
    ELSE answer

-----------------------------------------------------------------------------
(* Branching.  A rule reads one question and shows or skips another, or    *)
(* ends the questionnaire.                                                 *)

Rules(questionnaire) == UNION {questionnaire[i].rules : i \in DOMAIN questionnaire}

Matches(rule, answers) ==
    IF rule.condition \notin DOMAIN answers THEN rule.operator = "missing"
    ELSE LET answer == answers[rule.condition]
         IN \/ rule.operator = "missing" /\ answer.state = "missing"
            \/ rule.operator = "answered" /\ answer.state = "answered"
            \/ rule.operator = "equals" /\ answer = Answered("yes")

Reachable(questionnaire, answers) ==
    LET matched == {r \in Rules(questionnaire) : Matches(r, answers)}
        ends == {r.condition : r \in {m \in matched : m.action = "end"}}
        shows(i) == {r \in Rules(questionnaire) : r.action = "show" /\ r.target = i}
        skipped(i) == \E r \in matched : r.action = "skip" /\ r.target = i
    IN {i \in DOMAIN questionnaire :
            /\ \A e \in ends : i <= e
            /\ shows(i) # {} => shows(i) \cap matched # {}
            /\ ~skipped(i)}

Asked(answers) == {i \in DOMAIN answers : answers[i].state # "not_asked"}

Given(answers) == [i \in Asked(answers) |-> answers[i]]

-----------------------------------------------------------------------------
(* Normalization and validation.                                           *)

(* Every question gets a state; one without an answer is missing when it   *)
(* was asked.                                                              *)
Canonical(questionnaire, raw) ==
    LET provided == [i \in DOMAIN raw |-> NormalizedAnswer(questionnaire[i], raw[i])]
        reachable == Reachable(questionnaire, Given(provided))
    IN [i \in DOMAIN questionnaire |->
            IF i \in DOMAIN provided THEN provided[i]
            ELSE IF i \in reachable THEN Unanswered("missing") ELSE Unanswered("not_asked")]

(* Seeded fault: an explicit not_asked is taken at its word.               *)
NeverPassedOver(questionnaire, raw) == FALSE

(* A question that was asked cannot be passed over as not asked.           *)
PassedOver(questionnaire, raw) ==
    \E i \in Reachable(questionnaire, Given(raw)) \cap DOMAIN raw :
        raw[i].state = "not_asked"

ValidValue(question, answer) ==
    CASE answer.state = "answered" ->
            question.type = "single_choice" => answer.value \in StableValues(question)
      [] answer.state = "unknown" -> question.missing
      [] OTHER -> TRUE

Valid(questionnaire, answers) ==
    LET reachable == Reachable(questionnaire, answers)
    IN /\ DOMAIN answers \subseteq reachable
       /\ \A i \in reachable :
             /\ questionnaire[i].required =>
                   i \in DOMAIN answers /\ answers[i].state # "missing"
             /\ i \in DOMAIN answers => ValidValue(questionnaire[i], answers[i])

Accepted(questionnaire, raw) ==
    /\ ~PassedOver(questionnaire, [i \in DOMAIN raw |->
                                      NormalizedAnswer(questionnaire[i], raw[i])])
    /\ Valid(questionnaire, Given(Canonical(questionnaire, raw)))

-----------------------------------------------------------------------------
(* Counting a sequence of canonical responses that were accepted.          *)

Having(responses, i, state) ==
    Cardinality({n \in DOMAIN responses : responses[n][i].state = state})

Missingness(responses, i) == [state \in States |-> Having(responses, i, state)]

DenominatorCounts(responses, i) ==
    LET missingness == Missingness(responses, i)
        total == MapThenSumSet(LAMBDA state : missingness[state], States)
    IN [all_responses |-> total,
        asked_responses |-> total - missingness["not_asked"],
        valid_responses |-> missingness["answered"]]

Choosing(responses, i, value) ==
    {n \in DOMAIN responses : responses[n][i] = Answered(value)}

(* An accepted answer must be an ordinary option for a frequency.          *)
Countable(questionnaire, responses, i) ==
    \A n \in DOMAIN responses :
        responses[n][i].state = "answered" =>
            responses[n][i].value \in RegularOptions(questionnaire[i])

Frequency(questionnaire, responses, i) ==
    [v \in RegularOptions(questionnaire[i]) |-> Cardinality(Choosing(responses, i, v))]

CrossTab(questionnaire, responses, i, j) ==
    [cell \in RegularOptions(questionnaire[i]) \X RegularOptions(questionnaire[j]) |->
        Cardinality(Choosing(responses, i, cell[1]) \cap Choosing(responses, j, cell[2]))]

(* One page of the texts given to a question, and where the next begins,   *)
(* or 0.                                                                   *)
FreeTextListing(responses, i, offset, maxRows) ==
    LET given == {n \in DOMAIN responses : responses[n][i].state = "answered"}
        rank(n) == Cardinality({m \in given : m < n})
        rows == {n \in given : offset <= rank(n) /\ rank(n) < offset + maxRows}
    IN [rows |-> rows,
        next |-> IF Cardinality(given) > offset + Cardinality(rows)
                 THEN offset + Cardinality(rows) ELSE 0]

-----------------------------------------------------------------------------
(* What an accepted response comes to.                                     *)

(* The answers of a canonical response are exactly to the questions its    *)
(* own answers lead to: what the respondent left open, and what follows    *)
(* from leaving it open, is settled in one pass.                           *)
AskedExactly(questionnaire, raw) ==
    Accepted(questionnaire, raw) =>
        LET answers == Canonical(questionnaire, raw)
        IN Asked(answers) = Reachable(questionnaire, Given(answers))

(* The frequencies of a choice question add up to its valid responses, and *)
(* a question's denominator is the responses it was reachable in.          *)
CountsAgree(questionnaire, raws) ==
    LET accepted == SelectSeq(raws, LAMBDA raw : Accepted(questionnaire, raw))
        responses == [n \in DOMAIN accepted |-> Canonical(questionnaire, accepted[n])]
    IN \A i \in DOMAIN questionnaire :
        LET counts == DenominatorCounts(responses, i)
            frequency == Frequency(questionnaire, responses, i)
        IN /\ counts.asked_responses =
                Cardinality({n \in DOMAIN responses :
                                i \in Reachable(questionnaire, Given(responses[n]))})
           /\ questionnaire[i].type = "single_choice" /\ Countable(questionnaire, responses, i) =>
                frequency["yes"] + frequency["no"] = counts.valid_responses
=============================================================================
