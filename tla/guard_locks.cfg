CONSTANTS
  OtherLocks = {"shared", "reserved", "exclusive"}
  MaxFaults = 1
  Writes = {w1, w2, w3}
  MaxGuards = 3
SPECIFICATION Spec
SYMMETRY Symmetry
INVARIANTS TypeOK DepthMatchesGuards NoPartialCommit OrphanOnlyAfterRefusedCommit
PROPERTIES WedgedNeverCommits
