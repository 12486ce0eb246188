---------------------------- MODULE MCWorkspace ----------------------------
EXTENDS Workspace

MCConfig == [rest |-> "project", requests |-> "base", metadata |-> "none",
             version |-> 0, derived |-> {}, notes |-> {}]

Set(req, pins, strong, fields) ==
    [requested |-> req, pins |-> pins, strengthened |-> strong, required |-> fields]
Pin(i, d) == [id |-> i, digest |-> d]

MCFirstProfile == Set("base", {Pin("strict-1", "d1")}, {"trace"}, {"locator"})

(* A stronger set for the same requests; for new requests one that fits,   *)
(* one that asks for another field, one that swaps a manifest and one that *)
(* drops a strengthening.                                                  *)
MCProfilesFor ==
    [base |-> {MCFirstProfile,
               Set("base", {Pin("strict-2", "d2")}, {"trace", "scope"}, {"locator", "digest"})},
     next |-> {Set("next", {Pin("strict-1", "d1")}, {"trace"}, {"locator"}),
               Set("next", {Pin("strict-1", "d9")}, {"trace"}, {"locator"}),
               Set("next", {Pin("strict-3", "d3")}, {}, {"locator"})}]
=============================================================================
