\* Two sessions of one worker, more receipts than are kept, and a status command.
\* Deadlock is not checked: sessions and edits are bounded.
CONSTANTS
  p1 = p1
  p2 = p2
  q1 = q1
  Procs = {p1, p2}
  Launchers = {}
  Readers = {q1}
  Version <- SameVersion
  Worker <- SameWorker
  Manifests <- TwoContracts
  Retention = 1
  MaxAge = 1
  MaxTime = 2
  MaxRuns = 3
  MaxEdits = 1
  NoManifest = NoManifest
  Free = Free
  None = None
SYMMETRY Sessions
SPECIFICATION Spec
INVARIANT RetentionBound
INVARIANT StatusMissesNoProof
CHECK_DEADLOCK FALSE
