\* One command run again after an operator promoted its memory.
\* Deadlock is not checked: commands end, and the ids are bounded.
CONSTANTS
  m1 = m1
  m2 = m2
  m3 = m3
  w1 = w1
  w2 = w2
  o1 = o1
  o2 = o2
  p = p
  q = q
  Ids = {m1, m2, m3}
  Ops = {o1}
  Agents = {}
  Texts = {p, q}
  Rings = {"cambium", "heartwood"}
  NoId = NoId
  NoOp = NoOp
  Shared = Shared
  Redacted = Redacted
  Missing = Missing
  Workers = {w1, w2}
  Settings <- OneCommand
  MaxAttempts = 2
  Replacements = {m3}
  Free = Free
  None = None
SPECIFICATION Spec
INVARIANT ExactReplayReturnsMemory
CHECK_DEADLOCK FALSE
