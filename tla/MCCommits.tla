------------------------------- MODULE MCCommits -------------------------------
(***************************************************************************)
(* The Research State with two families of callers: those that race for    *)
(* the same Decisions while the Profile is advanced, and those that fork,  *)
(* edit and switch lineages.  A behaviour has callers of one family.       *)
(***************************************************************************)
EXTENDS MCResearchState

VARIABLE family

AllProposals == RacingProposals \cup LineageProposals

(* Each family of callers writes down its own requests; only racing        *)
(* callers meet an advancement of the Profile.                             *)
Allowed ==
    IF family = "racing" THEN \A r \in requests' : r.p \in RacingProposals
    ELSE config' = FirstPin /\ \A r \in requests' : r.p \in LineageProposals

MCInit == family \in {"racing", "lineages"} /\ Init

MCNext == Next /\ Allowed /\ UNCHANGED family

MCSpec == MCInit /\ [][MCNext]_<<family, vars>>
=============================================================================
