\* Old, current and newer programs over one file, recalls with a deadline,
\* projects with their init runs, updates, the sessions of two agents,
\* recalls from small tables and briefs of small shelves.
\* Deadlock is not checked: openings, edits, updates and sessions are bounded.
CONSTANTS
  i1 = i1
  i2 = i2
  old = old
  cur1 = cur1
  cur2 = cur2
  new = new
  reader = reader
  NoRow = NoRow
  Procs = {old, cur1, cur2, new, reader}
  Build <- Builds
  ReadOnly = {reader}
  Ids = {i1, i2}
  OldFiles <- Files
  Budgets <- TheBudgets
  Queries = 2
  a = a
  b = b
  None = None
  Missing = Missing
  Current = Current
  Inits = {a, b}
  Setups <- TheSetups
  u1 = u1
  u2 = u2
  Updaters = {u1, u2}
  Versions = {1, 2}
  Uploads = 2
  Methods = {"direct", "homebrew"}
  lead = lead
  helper = helper
  outcome1 = outcome1
  secret = secret
  NoAgent = NoAgent
  Agents = {lead, helper}
  Parent <- Parents
  Project <- TheProject
  SafeProjects = {}
  Shelf <- TheShelf
  Texts = {outcome1, secret}
  Secrets = {secret}
  Slots = {1, 4}
  Limit = 4
  Lives = 2
  Tries = 2
  Tables <- TheTables
  Asked <- TheAsked
  CandidateLimit = 2
  Anything = Anything
  FailureTerms = {"bug"}
  HeartwoodTerms = {"rule"}
  SeedTerms = {"explore"}
  Filler = {"the"}
  Shelves <- TheShelves
  Requests <- TheRequests
  Fresh = Fresh
  BriefCandidates = 4
  MaxResults = 3
  Room = 4
  NoBrief = NoBrief
SPECIFICATION Spec
INVARIANT InitHonest
INVARIANT UpdatesHonest
INVARIANT RecallAnswers
INVARIANT BriefHonest
PROPERTY VersionsCoexist
PROPERTY DeadlineKept
PROPERTY ReportsChangeNothing
PROPERTY SessionsServed
CHECK_DEADLOCK FALSE
