\* Two users, limit 2 per interval of 2 ticks, over 4 ticks and 6 checks:
\* enough for a window to fill, expire and refill.  The limiter acts only
\* on requests; once the model's requests and ticks are spent it stops.
CONSTANTS
  u1 = u1
  u2 = u2
  Users = {u1, u2}
  RequestLimit = 2
  Interval = 2
  MaxTime = 4
  MaxChecks = 6
  NoEntry = NoEntry
SPECIFICATION Spec
SYMMETRY MCSymmetry
INVARIANTS
  RefusedOnlyAtLimit
CHECK_DEADLOCK FALSE
