\* Consolidations over notes and source memories that clients change meanwhile,
\* exports, and imports of files from this store and from others.
\* Deadlock is not checked: runs, ids, exports and edits are bounded.
CONSTANTS
  n1 = n1
  n2 = n2
  n3 = n3
  a1 = a1
  a2 = a2
  pA = pA
  pB = pB
  None = None
  Before <- TheBefore
  Submissions <- TheSubmissions
  Requests <- TheRequests
  Budgets <- TheBudgets
  Roots = {pA, pB}
  Trees <- TheTrees
  LocalRoot = pA
  MaxFiles = 2
  MaxSections = 2
SPECIFICATION Spec
INVARIANT LossesReported
PROPERTY PrivateStaysApart
PROPERTY SummariesHonest
PROPERTY SyncsHonest
PROPERTY NothingComesBack
CHECK_DEADLOCK FALSE
