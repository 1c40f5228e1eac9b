\* A launch and a preflight by another version, while the manifest is edited.
\* Deadlock is not checked: sessions and edits are bounded.
CONSTANTS
  p1 = p1
  p2 = p2
  q1 = q1
  Procs = {p1, p2}
  Launchers = {p1}
  Readers = {}
  Version <- Upgrade
  Worker <- SameWorker
  Manifests <- Contracts
  Retention = 1
  MaxAge = 1
  MaxTime = 0
  MaxRuns = 3
  MaxEdits = 1
  NoManifest = NoManifest
  Free = Free
  None = None
SPECIFICATION FairSpec
INVARIANT LaunchHonest
INVARIANT ReceiptsProveTheContract
PROPERTY RunsEnd
CHECK_DEADLOCK FALSE
