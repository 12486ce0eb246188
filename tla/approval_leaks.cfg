SPECIFICATION Spec
CONSTANTS
  Questions = {"q"}
  Evidence = {"e"}
  LineageIds = {"L0", "L1"}
  RootLineage = "L0"
  SnapIds = {"s0", "s1", "s2", "s3", "s4"}
  Genesis = "s0"
  NoSnap = "none"
  Pins = {"p0"}
  FirstPin = "p0"
  Clients = {c1, c2}
  Proposals <- LeakProposals
  SeedRows <- MCSeedRows
INVARIANT ApprovalPerLineage
SYMMETRY Symmetric
