SPECIFICATION Spec
CONSTANTS
  Humans = {}
  Bots = {bot}
  bot = bot
  Nobody = nobody
  Packages = {p1, p2}
  Base <- MCBase
  Trunk = trunk
  Readers = {}
  Reviews <- MCReviews
  Capacity = 3
  RequireHuman = FALSE
  MaxJobs = 2
  MaxFaults = 1
  MaxRestarts = 1
INVARIANTS PublishedAsReviewed TestedOnHead
PROPERTY FinishIsNotHeldUp
CHECK_DEADLOCK FALSE
SYMMETRY SamePackages
