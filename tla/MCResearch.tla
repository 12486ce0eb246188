------------------------------ MODULE MCResearch ------------------------------
(***************************************************************************)
(* Values for the registries of ResearchRegistries.                        *)
(***************************************************************************)
EXTENDS ResearchRegistries, TLC

MCCallers == {"caller"}
MCProfiles == <<"p1", "p2">>
MCCodes == {"branch", "shape"}
MCFaults == {"branch"}

(* A policy that asks for both scenarios and lets defects block.           *)
MCPolicies == {[require |-> {"STANDARD", "STRESS"}, blocks |-> TRUE]}

(* An original, what was cropped from it, and an artifact of another Run;  *)
(* sources that name them rightly, of one Run and of several.              *)
MCArtifacts ==
    [original |-> [run |-> "r1", original |-> TRUE, parents |-> {}],
     crop     |-> [run |-> "r1", original |-> FALSE, parents |-> {"original"}],
     other    |-> [run |-> "r2", original |-> FALSE, parents |-> {"original"}]]

Source(of, artifacts, target, crop) ==
    [runs |-> of, artifacts |-> artifacts, target |-> target, crop |-> crop]

MCSources ==
    {Source({"r1"}, {"original", "crop"}, "original", "crop"),
     Source({"r1"}, {"other"}, None, None),
     Source({"r1", "r2"}, {"original", "other"}, "original", "other")}

MCRecordQuestions == {"q", "r"}
MCApprovedIn == [s \in 0..1 |-> IF s = 0 THEN {"q"} ELSE {"r"}]

MCReaders == {"reader"}

(* A Config that sets out with an issue and one that does not: the Profile *)
(* may be advanced from the one to the other and back.                     *)
MCConfigs == {"c1", "c2"}
MCBaseline == [c1 |-> {0}, c2 |-> {}]
MCQuestions == {"q"}

Symmetry == Permutations(Actors)
=============================================================================
