\* Two memories, one agent, two capabilities: every interleaving of writes,
\* batches and policy changes by contexts that hold any capability ever printed.
CONSTANTS
  m1 = m1
  m2 = m2
  a1 = a1
  a2 = a2
  o1 = o1
  o2 = o2
  p = p
  c1 = c1
  c2 = c2
  Ids = {m1, m2}
  Ops = {}
  Agents = {a1}
  Texts = {p}
  Rings = {"cambium", "heartwood"}
  NoId = NoId
  NoOp = NoOp
  Shared = Shared
  Redacted = Redacted
  Missing = Missing
  Caps = {c1, c2}
  NoCap = NoCap
  NoTxn = NoTxn
  Events <- PolicyEvents
  Batches <- PolicyBatches
SPECIFICATION Spec
SYMMETRY CapSymmetry
PROPERTY CoordinatorOnly
