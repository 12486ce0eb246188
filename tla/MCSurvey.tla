------------------------------- MODULE MCSurvey -------------------------------
(***************************************************************************)
(* The registries of the survey work, each checked by itself: a behaviour  *)
(* picks one of them and the others stand still.  They share the Research  *)
(* State they are written against.                                         *)
(***************************************************************************)
EXTENDS Naturals, Sequences, FiniteSets, FiniteSetsExt, Functions, TLC

CONSTANTS Actors, Participants, None

VARIABLES
    registry, head, questionnaire, respondents,
    design, requests, receipts, instruments, rounds, feedback, inherited, candidates, delphiJob,
    designs, surveyInstruments, responses, surveyDatasets, specs, surveyResults, surveyJob

Panel == INSTANCE Delphi WITH
    Answers <- {"f"}, Answered <- {{p} : p \in Participants}, Versions <- {1},
    MaxMoves <- 1, MaxRequests <- 2, MaxRevisions <- <<2, 1>>, job <- delphiJob

Row(key, content, who) == [key |-> key, content |-> content, who |-> who]

(* A file with an answer that is a special option of its question, one     *)
(* with a repeated and malformed row, one with nothing to accept, and one  *)
(* that answers differently.                                               *)
Files == {
    [locator |-> 1, rows |-> <<Row("k1", "yes", "p"), Row("k2", "special", "q")>>],
    [locator |-> 2, rows |-> <<Row("k1", "yes", "p"), Row("k1", "malformed", "p")>>],
    [locator |-> 3, rows |-> <<Row("k1", "malformed", "p"), Row("k2", "invalid", "q")>>],
    [locator |-> 4, rows |-> <<Row("k1", "no", "p")>>]}

Survey == INSTANCE SurveyIntake WITH
    Callers <- Actors, Versions <- {1, 2}, Files <- Files, Runs <- {"r1"},
    RunRows <- [r1 |-> <<Row("s1", "yes", "p"), Row("s2", "no", "p")>>],
    Legacy <- {"k1"}, Items <- {"default"}, MaxMoves <- 1, MaxManual <- 1,
    instruments <- surveyInstruments, datasets <- surveyDatasets,
    results <- surveyResults, job <- surveyJob

(* Questionnaires of two choice questions and a text, the second of which  *)
(* may be required, with two rules after the first one; and what one and   *)
(* another respondent write.                                               *)
Replies == INSTANCE SurveyAnswers

RulesOfOne ==
    [condition : {1, 2}, operator : {"equals", "missing"}, action : {"show", "skip"},
     target : {2, 3}]
    \cup [condition : {1, 2}, operator : {"answered"}, action : {"end"}, target : {0}]

Questionnaires ==
    {<<[type |-> "single_choice", required |-> FALSE, missing |-> TRUE, rules |-> rules],
       [type |-> "single_choice", required |-> required, missing |-> FALSE, rules |-> {}],
       [type |-> "free_text", required |-> FALSE, missing |-> FALSE, rules |-> {}]>> :
        rules \in kSubset(2, RulesOfOne), required \in BOOLEAN}

RawAnswers ==
    LET left == {Replies!Unanswered(s) : s \in {"missing", "unknown", "not_asked"}}
    IN <<left \cup {Replies!Answered(v) : v \in {"yes", "U"}},
         left \cup {Replies!Answered(v) : v \in {"Yes label", "no"}},
         left \cup {Replies!Answered("text")}>>

Raws ==
    UNION {{f \in [given -> UNION Range(RawAnswers)] : \A i \in given : f[i] \in RawAnswers[i]} :
            given \in SUBSET DOMAIN RawAnswers}

Others == {<<>>, <<Replies!Answered("yes")>>}

(* Two Instruments with one item each, which may change its scale, lose it *)
(* or change its meaning, and what a panel of two answers in their Rounds. *)
Analysis == INSTANCE PanelAnalysis

Scale(top) == [minimum |-> 1, maximum |-> top]

PanelItems ==
    {[modes |-> {"rating", "ranking"}, scales |-> scales, meaning |-> meaning] :
        scales \in {<<>>, "rating" :> Scale(1), "rating" :> Scale(2), "rating" :> Scale(3)},
        meaning \in {"same", "other"}}

Instruments ==
    {pair \in {[before |-> [item |-> old], now |-> [item |-> new]] : old, new \in PanelItems} :
        Analysis!ValidScales(pair.before) /\ Analysis!ValidScales(pair.now)}

PanelAnswers(item) ==
    {answer \in
        {[state |-> "missing", given |-> <<>>]} \cup
        {[state |-> "answered", given |-> given] :
            given \in {<<>>} \cup [{"rating"} -> 1..3] \cup
                     {[ranking |-> "ab"], [rating |-> 2, ranking |-> "ba"]}} :
        Analysis!ValidNumbers(answer, item)}

Rounds(item) ==
    UNION {[panel -> [{"item"} -> PanelAnswers(item)]] : panel \in SUBSET {"p", "q"}}

Assess ==
    /\ respondents = None
    /\ \E before \in Rounds(questionnaire.before.item), now \in Rounds(questionnaire.now.item) :
            respondents' = [before |-> before, now |-> now]

Respond ==
    /\ respondents = None
    /\ \E first \in Raws, second \in Others : respondents' = <<first, second>>

panelVars ==
    <<design, requests, receipts, instruments, rounds, feedback, inherited, candidates, delphiJob>>
surveyVars == <<designs, surveyInstruments, responses, surveyDatasets, specs, surveyResults,
                surveyJob>>

replyVars == <<questionnaire, respondents>>

Init ==
    /\ registry \in {"delphi", "survey", "answers", "analysis"}
    /\ Panel!Init /\ Survey!Init
    /\ registry # "delphi" => design = None
    /\ registry # "survey" => responses = <<>>
    /\ respondents = None
    /\ questionnaire \in CASE registry = "answers" -> Questionnaires
                             [] registry = "analysis" -> Instruments
                             [] OTHER -> {None}

Next ==
    /\ UNCHANGED registry
    /\ \/ registry = "delphi" /\ Panel!Next /\ UNCHANGED <<surveyVars, replyVars>>
       \/ registry = "survey" /\ Survey!Next /\ UNCHANGED <<panelVars, replyVars>>
       \/ /\ \/ registry = "answers" /\ Respond
             \/ registry = "analysis" /\ Assess
          /\ UNCHANGED <<head, panelVars, surveyVars, questionnaire>>

Spec == Init /\ [][Next]_<<registry, head, panelVars, surveyVars, replyVars>>

Symmetry == Permutations(Actors) \cup Permutations(Participants)

(* An Instrument is approved exactly as a human approved it, no revision   *)
(* of a Round loses an answer, and Round 2 rests on one analysed revision  *)
(* of Round 1.                                                             *)
RoundTwoRests ==
    Panel!ApprovedExactly /\ Panel!AnswersKept /\ Panel!RoundTwoRests

(* A committed batch can be taken up again from its file, and a result     *)
(* counts every row of its batch once.                                     *)
BatchesResume == Survey!BatchesResume /\ Survey!ResultsCountAll

(* What a registration rests on still holds when it commits: an approval   *)
(* is recorded while what the human was shown is current, and a malformed  *)
(* copy never passes over an answer that is held by then.                  *)
HoldsWhenStored ==
    [][Panel!ApprovedInTime /\ Survey!NoAnswerPassedOver]_<<head, panelVars, surveyVars>>

(* A response is asked exactly what its answers lead to, what is counted   *)
(* of accepted responses adds up, and the analysis of a Delphi Round tells *)
(* disagreement and change of opinion wherever there is one.               *)
AskedAndCounted ==
    respondents # None =>
        IF registry = "answers"
        THEN /\ Replies!AskedExactly(questionnaire, respondents[1])
             /\ Replies!CountsAgree(questionnaire, respondents)
        ELSE LET before == [instrument |-> questionnaire.before, round |-> respondents.before]
             IN /\ Analysis!SummariesAgree(questionnaire.now, respondents.now)
                /\ Analysis!StableMeansSame(before, questionnaire.now, respondents.now,
                                            {"p", "q"})
=============================================================================
