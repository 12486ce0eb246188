------------------------------ MODULE MCMaterial ------------------------------
(***************************************************************************)
(* Values for the services of MaterialServices: a source and its text,     *)
(* two Runs to reacquire, a real Run and a virtual one for the Packages,   *)
(* and a Run with replays for the recovery of findings.                    *)
(***************************************************************************)
EXTENDS MaterialServices, TLC

(* Of an original and the rendition that derives from it.                  *)
MCTargets == {"original", "rendition"}
MCAddress == [original |-> "bytes", rendition |-> "text"]
MCOrigin == [original |-> None, rendition |-> "original"]

(* A request for one reacquired Run and one for both.                      *)
MCReacquired == {1, 2}
MCRequests == {{1}, {1, 2}}

(* A real Run with the material of a source, and a virtual one.            *)
MCReaders == {"reader"}
MCRefs == [q |-> {}, evidence |-> {"source"}, source |-> {}]
MCPackageRuns ==
    [real |-> [mode |-> "real", captures |-> {"page"}],
     virtual |-> [mode |-> "virtual", captures |-> {}]]
MCSourceOf == [page |-> [id |-> "source", revision |-> 1]]
MCFigures == {{"evidence"}}

(* A Run, its replay, and another that claims to be one and whose          *)
(* documents were changed.                                                 *)
MCFindingRuns == {"run", "replay", "other"}
MCParentOf == [run |-> None, replay |-> "run", other |-> "run"]
Made(run, marks) == [kind : {"original"}, run : {run}, mark : marks, at : {0}]
MCCandidates ==
    Made("run", {"fit", "misbound"}) \cup Made("other", {"fit"}) \cup Made("replay", {"fit"})
MCMisbound == {"misbound"}
MCUnrelated == {"other"}

(* What the other services would find is the same while one goes on.       *)
MCInit ==
    /\ Init
    /\ service # "findings" => completed = {"run"} /\ proposals = {}
    /\ payload["bytes"] = Recovery!Missing /\ payload["text"] = Recovery!Verified

MCSpec == MCInit /\ [][Next]_vars

Symmetry == Permutations(Procs) \cup Permutations(Attempts) \cup Permutations(Captures)
=============================================================================
