SPECIFICATION Spec
CONSTANTS
  Humans = {}
  Bots = {bot}
  bot = bot
  Nobody = nobody
  Packages = {p1}
  Base <- MCBase
  Trunk = trunk
  Readers = {r1}
  Reviews <- MCApprovals
  Capacity = 2
  RequireHuman = FALSE
  MaxJobs = 2
  MaxFaults = 1
  MaxRestarts = 2
INVARIANTS TypeOK RunnerKeepsFiles ReaderKeepsFiles CleanupIsNotLost
CHECK_DEADLOCK FALSE
