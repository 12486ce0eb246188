--------------------------- MODULE MCResearchClaims ---------------------------
(* What the repository's documents say of the authoritative state and its  *)
(* code does not keep.                                                     *)
EXTENDS MCResearchState

(* Approved on the root lineage; revised without any Decision on a fork    *)
(* whose own member is still a candidate.                                  *)
LeakProposals ==
    {PlainFork,
     EditOf("k1", "s2", "L0", {E1("q", "approved", 0, {"dApp"})}, {Approval}),
     EditOf("k2", "s3", "L1", {E1("q", "approved", 0, {})}, {})}

MemberRow(id, o) == {x \in objects : x.obj = o /\ <<o, x.rev>> \in MembersOf(id)}

(* Revisions "do not become effective merely because they exist in         *)
(* storage" (research-state-runtime.md): a question a commit makes         *)
(* approved on its lineage was approved there before, or the commit        *)
(* consumed a Decision about it.  required_decisions_for_action compares   *)
(* with the newest revision of the whole project instead.                  *)
ApprovalPerLineage ==
    \A k \in commits : \A x \in NewRows(k.req) :
        k.req.p.kind = "edit" /\ x.obj \in Questions /\ x.status = "approved" =>
            \/ \E y \in MemberRow(k.prior, x.obj) : y.status = "approved"
            \/ \E d \in decisions : d.id \in k.consumed /\ x.obj \in d.subjects
=============================================================================
