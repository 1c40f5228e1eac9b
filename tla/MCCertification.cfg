\* Two recall runs and a harness run publish beside the script and the console.
\* Deadlock is not checked: the runs are bounded.
CONSTANTS
  r1 = r1
  r2 = r2
  c1 = c1
  h1 = h1
  h2 = h2
  Unnamed = Unnamed
  Producers = {r1, r2, c1}
  Kind <- TheKinds
  Harnesses = {h1}
  Cases <- TheCases
  Recalls <- TheRecalls
  Sights <- TheSights
  Indexes <- TheIndexes
  Plans <- ThePlans
  Missing = Missing
  Damaged = Damaged
  Free = Free
  None = None
  Blank = Blank
  Unparsable = Unparsable
  Nothing = Nothing
  Empty = Empty
  Foreign = Foreign
  NotAScenario = NotAScenario
SPECIFICATION Spec
INVARIANT PassesAreEarned
INVARIANT ProofsObserved
PROPERTY EvidencePublished
CHECK_DEADLOCK FALSE
