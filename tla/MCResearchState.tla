--------------------------- MODULE MCResearchState ---------------------------
(* Small instances of ResearchState: one question and one evidence object, *)
(* two lineages, and the hand-picked proposals of each run.                *)
EXTENDS ResearchState, TLC

Decision(id, choice, subjects, human) ==
    [id |-> id, choice |-> choice, subjects |-> subjects, human |-> human]

EditOf(key, snap, line, edits, records) ==
    [key |-> key, snap |-> snap, kind |-> "edit", line |-> line, edits |-> edits,
     keep |-> {}, drop |-> {}, target |-> line, records |-> records, refs |-> {}]

ForkOf(key, snap, keep, drop, edits, records, refs) ==
    [key |-> key, snap |-> snap, kind |-> "fork", line |-> "L0", edits |-> edits,
     keep |-> keep, drop |-> drop, target |-> "L1", records |-> records, refs |-> refs]

SwitchTo(key, line, target, records, refs) ==
    [key |-> key, snap |-> "s0", kind |-> "switch", line |-> line, edits |-> {},
     keep |-> {}, drop |-> {}, target |-> target, records |-> records, refs |-> refs]

E1(obj, status, body, refs) == [obj |-> obj, status |-> status, body |-> body, refs |-> refs]

MCSeedRows == {[obj |-> "q", rev |-> 0, status |-> "candidate", body |-> 0, decs |-> {}],
               [obj |-> "e", rev |-> 0, status |-> "unverified", body |-> 0, decs |-> {}]}

ForkDecision == Decision("dFork", "apply", {"L1"}, TRUE)
Approval     == Decision("dApp", "approve", {"q", "e"}, TRUE)
Reconfirm    == Decision("dRec", "reconfirm", {"e"}, TRUE)
Verdict      == Decision("dVer", "verify", {"e"}, TRUE)
Selection    == Decision("dSel", "switch", {"L1"}, TRUE)
Advice       == Decision("dBot", "approve", {"q"}, FALSE)

PlainFork == ForkOf("kf", "s1", {"q", "e"}, {}, {}, {ForkDecision}, {"dFork"})

(* One approval offered on both lineages and cited where none is needed,   *)
(* and the same Evidence revision written differently on each.             *)
RacingProposals ==
    {PlainFork,
     EditOf("k1", "s2", "L0", {E1("q", "approved", 0, {"dApp"})}, {Approval}),
     EditOf("k2", "s3", "L1", {E1("q", "approved", 0, {"dApp"}),
                               E1("e", "disputed", 0, {})}, {Approval}),
     EditOf("k3", "s4", "L0", {E1("e", "unverified", 0, {"dApp"})}, {Approval})}

(* A fork that reconfirms Evidence and drops the question, the same        *)
(* Evidence revision written identically on both lineages under one        *)
(* Snapshot id, a verification under a key already offered, a switch and a *)
(* Decision no human made.                                                 *)
LineageProposals ==
    {ForkOf("kf", "s1", {}, {"q"}, {E1("e", "unverified", 0, {"dRec"})},
            {ForkDecision, Reconfirm}, {"dFork", "dRec"}),
     EditOf("k1", "s2", "L0", {E1("e", "disputed", 0, {})}, {}),
     EditOf("k2", "s2", "L1", {E1("e", "disputed", 0, {})}, {}),
     EditOf("k1", "s3", "L1", {E1("e", "verified", 0, {"dVer"})}, {Verdict}),
     EditOf("k4", "s4", "L0", {E1("q", "approved", 0, {"dBot"})}, {Advice}),
     SwitchTo("ks", "L0", "L1", {Selection}, {"dSel"})}

Symmetric == Permutations(Clients)
=============================================================================
