\* One command run again and again by two processes that may die at any step; two
\* different commands under one operation namespace.
\* Deadlock is not checked: commands end, and the ids are bounded.
CONSTANTS
  m1 = m1
  m2 = m2
  m3 = m3
  w1 = w1
  w2 = w2
  o1 = o1
  o2 = o2
  p = p
  q = q
  Ids = {m1, m2, m3}
  Ops = {o1}
  Agents = {}
  Texts = {p, q}
  Rings = {"cambium", "heartwood"}
  NoId = NoId
  NoOp = NoOp
  Shared = Shared
  Redacted = Redacted
  Missing = Missing
  Workers = {w1, w2}
  Settings <- BothSettings
  MaxAttempts = 2
  Replacements = {m3}
  Free = Free
  None = None
SPECIFICATION FairSpec
INVARIANT AtMostOnce
INVARIANT AnswersAreTrue
INVARIANT RefusalsExplained
PROPERTY CommandsEnd
CHECK_DEADLOCK FALSE
