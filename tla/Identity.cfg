SPECIFICATION FairSpec
CONSTANTS
  p1 = p1
  p2 = p2
  s1 = s1
  s2 = s2
  w1 = w1
  w2 = w2
  e1 = e1
  e2 = e2
  Processes = {p1, p2}
  Reservations = {r1, r2}
  Sessions = {s1, s2}
  Worktrees = {w1, w2}
  Runs = {e1, e2}
  SessionOf <- MCSession
  WorktreesOf <- MCTrees
  EnvironmentOf <- MCEnvironment
  Commands <- MCCommands
  ArgumentsOf <- MCArguments
  Inodes = {1, 2, 3}
  Found <- MCFound
  ReusesInodes = FALSE
  MaxAttempts = 1
  MaxFaults = 1
  None = None
  Malformed = Malformed
  Unreadable = Unreadable
INVARIANTS
    SessionsActive
    MarkerKept
    PresentedAlone
PROPERTIES
    OthersKept
    StaleMarkersSwept
