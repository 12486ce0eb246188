----------------------------- MODULE PanelAnalysis -----------------------------
(***************************************************************************)
(* What the answers of a Delphi Round come to (local_application/survey/   *)
(* delphi_analysis.py): a summary of each mode of response to each item,   *)
(* the opinions that can be compared with those of the Round before, and   *)
(* the feedback the panel is shown.  An Instrument gives each item its     *)
(* [modes, scales, meaning]; a Round gives each participant who responded  *)
(* an answer [state, given] to each item.                                  *)
(***************************************************************************)
EXTENDS Integers, FiniteSets, Functions

NumericModes == {"rating", "probability", "confidence"}

MissingStates == {"missing", "not_applicable", "prefer_not_to_answer"}

(* A scale is declared for a numeric mode of the item and increases.       *)
ValidScales(instrument) ==
    \A i \in DOMAIN instrument :
        LET scales == instrument[i].scales
        IN /\ DOMAIN scales \subseteq instrument[i].modes \cap NumericModes
           /\ \A m \in DOMAIN scales : scales[m].minimum < scales[m].maximum

(* A number lies on its scale, where one is declared.                      *)
ValidNumbers(answer, item) ==
    \A m \in DOMAIN answer.given \cap DOMAIN item.scales :
        /\ item.scales[m].minimum <= answer.given[m]
        /\ answer.given[m] <= item.scales[m].maximum

-----------------------------------------------------------------------------
(* One mode of one item                                                     *)

Answering(round, i) == {p \in DOMAIN round : round[p][i].state = "answered"}

Positions(round, i, m) ==
    [p \in {q \in Answering(round, i) : m \in DOMAIN round[q][i].given} |->
        round[p][i].given[m]]

(* The k-th smallest value, counted from 0.                                *)
Ranked(values, k) ==
    CHOOSE v \in Range(values) :
        /\ Cardinality({p \in DOMAIN values : values[p] < v}) <= k
        /\ Cardinality({p \in DOMAIN values : values[p] <= v}) > k

(* Twice the median.                                                       *)
TwiceMedian(values) ==
    LET count == Cardinality(DOMAIN values)
        middle == count \div 2
    IN IF count % 2 = 1 THEN 2 * Ranked(values, middle)
       ELSE Ranked(values, middle - 1) + Ranked(values, middle)

Status(item, m, values) ==
    CASE values = <<>> -> "no_answers"
      [] values # <<>> /\ m \in NumericModes \ DOMAIN item.scales -> "scale_not_declared"
      [] OTHER -> "summarized"

(* The rankings that were given most often.                                *)
Common(values) ==
    LET given(v) == Cardinality({p \in DOMAIN values : values[p] = v})
    IN {v \in Range(values) : \A w \in Range(values) : given(w) <= given(v)}

(* A number is of the minority when it is not the median, a ranking when   *)
(* there is a most common one and it is another.                           *)
Minority(item, m, values) ==
    IF Status(item, m, values) # "summarized" THEN {}
    ELSE IF m \in NumericModes
         THEN {p \in DOMAIN values : 2 * values[p] # TwiceMedian(values)}
         ELSE {p \in DOMAIN values :
                  Cardinality(Common(values)) = 1 /\ values[p] \notin Common(values)}

Disagreement(item, m, values) ==
    Status(item, m, values) = "summarized" /\ Cardinality(Range(values)) > 1

ItemAnalysis(instrument, round, i) ==
    LET item == instrument[i]
        values(m) == Positions(round, i, m)
        observed == {m \in item.modes : values(m) # <<>>}
    IN [answered |-> Cardinality(Answering(round, i)),
        missing |-> [s \in MissingStates |->
                        Cardinality({p \in DOMAIN round : round[p][i].state = s})],
        disagreement |-> \E m \in item.modes : Disagreement(item, m, values(m)),
        assessed |-> observed # {} /\
            \A m \in observed : Status(item, m, values(m)) = "summarized"]

(* What the panel is shown of a mode: how often each position was taken,   *)
(* by whoever it was, and which positions are of the minority.             *)
Feedback(instrument, round, i, m) ==
    LET values == Positions(round, i, m)
    IN [positions |-> [v \in Range(values) |->
                          Cardinality({p \in DOMAIN values : values[p] = v})],
        minority |-> {values[p] : p \in Minority(instrument[i], m, values)}]

-----------------------------------------------------------------------------
(* Two Rounds                                                               *)

(* The modes of an answer to look at, given the answer before.             *)
ModesUsed(old, new) == (DOMAIN old.given \cup DOMAIN new.given) \cap NumericModes

(* The opinions of who answered an item in both Rounds.                    *)
Opinions(before, round) ==
    LET returning == DOMAIN before.round \cap DOMAIN round
        items == DOMAIN before.instrument
    IN {<<p, i, m>> \in returning \X items \X NumericModes :
            /\ i \in DOMAIN round[p]
            /\ before.round[p][i].state = "answered" /\ round[p][i].state = "answered"
            /\ m \in ModesUsed(before.round[p][i], round[p][i])}

(* Why an opinion cannot be compared, or "comparable".                     *)
Comparison(before, instrument, round, opinion) ==
    LET p == opinion[1]  i == opinion[2]  m == opinion[3]
        old == before.instrument[i]  new == instrument[i]
    IN CASE m \notin DOMAIN before.round[p][i].given \cap DOMAIN round[p][i].given ->
                "response_mode_not_shared"
         [] OTHER ->
                IF m \notin DOMAIN old.scales \cap DOMAIN new.scales
                THEN "scale_not_declared"
                ELSE IF old.scales[m] # new.scales[m] THEN "scale_changed"
                ELSE IF old.meaning # new.meaning THEN "item_meaning_changed"
                ELSE "comparable"

Analysis(before, instrument, round, expected) ==
    LET opinions == Opinions(before, round)
        comparable == {o \in opinions :
                          Comparison(before, instrument, round, o) = "comparable"}
    IN [missing |-> expected \ DOMAIN round,
        attrited |-> DOMAIN before.round \ DOMAIN round,
        late |-> DOMAIN round \ DOMAIN before.round,
        incomparable |-> opinions \ comparable,
        comparable |-> comparable,
        changed |-> {o \in comparable : before.round[o[1]][o[2]].given[o[3]]
                                          # round[o[1]][o[2]].given[o[3]]}]

-----------------------------------------------------------------------------
(* What the analysis promises.                                              *)

(* A summary is the same whichever end of a scale is called low, numbers   *)
(* that differ and only they leave a minority to be shown, and an item     *)
(* that was assessed without disagreement has one answer in each mode.     *)
SummariesAgree(instrument, round) ==
    \A i \in DOMAIN instrument :
        LET item == instrument[i]
            analysis == ItemAnalysis(instrument, round, i)
        IN /\ analysis.assessed /\ ~analysis.disagreement =>
                \A m \in item.modes :
                    Cardinality(DOMAIN Feedback(instrument, round, i, m).positions) <= 1
           /\ \A m \in DOMAIN item.scales :
                LET values == Positions(round, i, m)
                    ends == item.scales[m].minimum + item.scales[m].maximum
                    turned == [p \in DOMAIN values |-> ends - values[p]]
                    shown == Feedback(instrument, round, i, m)
                IN /\ values # <<>> => TwiceMedian(turned) = 2 * ends - TwiceMedian(values)
                   /\ shown.minority # {} <=> Cardinality(DOMAIN shown.positions) > 1

(* A Round that reports the same panel and neither a changed opinion nor   *)
(* one that cannot be compared, and in which nobody fell silent, has the   *)
(* numbers of the Round before.                                            *)
StableMeansSame(before, instrument, round, expected) ==
    LET analysis == Analysis(before, instrument, round, expected)
    IN /\ Cardinality(DOMAIN round) = Cardinality(DOMAIN before.round)
             - Cardinality(analysis.attrited) + Cardinality(analysis.late)
       /\ /\ analysis.attrited = {} /\ analysis.late = {}
          /\ analysis.incomparable = {} /\ analysis.changed = {}
          /\ \A i \in DOMAIN instrument : Answering(round, i) = Answering(before.round, i)
          => \A i \in DOMAIN instrument, m \in NumericModes :
                Positions(round, i, m) = Positions(before.round, i, m)
===============================================================================
