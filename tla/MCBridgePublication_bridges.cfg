\* Two first runs at the same time, over harnesses that share a file; an init, an
\* activation by a newer version and a deactivation, among files of users; and two
\* programs that reach their files call by call while people move them about.
\* Deadlock is not checked: fresh store ids are bounded.
CONSTANTS
  p1 = p1
  p2 = p2
  p3 = p3
  Absent = Absent
  Free = Free
  None = None
  Altered = Altered
  Broken = Broken
  Writes <- Plans
  Bindings = {"binding"}
  Settings <- BothSettings
  f1 = f1
  f2 = f2
  home = home
  other = other
  foreign = foreign
  s1 = s1
  s2 = s2
  s3 = s3
  Nothing = Nothing
  Programs = {f1, f2}
  Tasks <- TheTasks
  Home = home
  Other = other
  Foreign = foreign
  Spare = {s2, s3}
  Theirs = {s1}
  Trees <- TheTrees
  UserEntries <- TheEntries
  MaxMoves = 2
SPECIFICATION ScaleSpec
INVARIANT InitsAgree
INVARIANT ReadyMeansRecorded
INVARIANT CallsAreSafe
PROPERTY UsersKeepTheirFiles
CHECK_DEADLOCK FALSE
