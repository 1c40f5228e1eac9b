\* Two memories, two namespaces, Open mode: every history of single writes,
\* replacements, redactions, ring changes, deletions and maintenance, and between them
\* batches and imports of up to two events, each rolled back at any point.
CONSTANTS
  m1 = m1
  m2 = m2
  a1 = a1
  a2 = a2
  o1 = o1
  o2 = o2
  p = p
  c1 = c1
  c2 = c2
  Ids = {m1, m2}
  Ops = {o1, o2}
  Agents = {}
  Texts = {p}
  Rings = {"cambium", "heartwood"}
  NoId = NoId
  NoOp = NoOp
  Shared = Shared
  Redacted = Redacted
  Missing = Missing
  Caps = {}
  NoCap = NoCap
  NoTxn = NoTxn
  Events <- TableEvents
  Batches <- StoreBatches
SPECIFICATION Spec
INVARIANT TypeOK
INVARIANT TombstonesSealed
INVARIANT OperationOwnedOnce
INVARIANT SearchMatchesRows
INVARIANT RingChangeAccepted
PROPERTY ImportWhole
PROPERTY Promises
