------------------------------ MODULE MCOldStore ------------------------------
(* A store that holds an exhibit from before there was a metadata table,   *)
(* while the first capture after the upgrade is made.                      *)
EXTENDS ProjectRecords

ApprovedAtFirst == [s \in 0..1 |-> IF s = 0 THEN {"q"} ELSE {"r"}]

NoArtifacts == [a \in {} |-> None]

BareSource == {[runs |-> {"r1"}, artifacts |-> {}, target |-> None, crop |-> None]}
=============================================================================
