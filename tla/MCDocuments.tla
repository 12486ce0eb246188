----------------------------- MODULE MCDocuments -----------------------------
(***************************************************************************)
(* Values for the manuscripts of a series and the releases of a            *)
(* publication.                                                            *)
(***************************************************************************)
EXTENDS Documents, TLC

(* Two versions of a composition, the second without a section.            *)
MCOutlines == <<{"s1", "s2"}, {"s1"}>>

ASSUME Press!SoundAreManuscripts

Symmetry == Permutations(Procs)
=============================================================================
