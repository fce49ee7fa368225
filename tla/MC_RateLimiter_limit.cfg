\* Two users, limit 2 per interval of 2 ticks, over 5 ticks: enough for a
\* window to fill, expire and refill.
CONSTANTS
  u1 = u1
  u2 = u2
  Users = {u1, u2}
  RequestLimit = 2
  Interval = 2
  MaxTime = 4
  MaxChecks = 6
  NoEntry = NoEntry
SPECIFICATION Spec
SYMMETRY MCSymmetry
INVARIANT
  AcceptedAtMostLimitPerWindow
