\* Three memories and one person; a stream of three lines with one rotation.
\* Deadlock is not checked: a console that was quit stops.
CONSTANTS
  MaxLineBytes = 2
  MaxBatchBytes = 3
  Newline = Newline
  Lengths = {1, 2, 7}
  MaxLines = 3
  MaxRotations = 1
  MaxId = 3
  MaxResults = 2
  MaxLive = 2
  Absent = Absent
  Situations <- AllSituations
SPECIFICATION FairConsoleSpec
INVARIANT FramesHonest
PROPERTY ActsOnWhatWasShown
PROPERTY StreamTold
CHECK_DEADLOCK FALSE
