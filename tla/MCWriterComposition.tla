-------------------------- MODULE MCWriterComposition --------------------------
(***************************************************************************)
(* Two processes that capture versions of one series of Writer             *)
(* compositions, die in the middle, fail to write and lose files.          *)
(***************************************************************************)
EXTENDS WriterComposition

ASSUME BoundsAreNat /\ NoneIsApart
=============================================================================
