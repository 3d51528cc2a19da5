\* Two dispatchers, two slots, four requests; the two slow ones may
\* never finish and so hold both slots for ever.
CONSTANTS
  Request = {r1, r2, s1, s2}
  Slow = {s1, s2}
  Dispatcher = {d1, d2}
  MaxInFlight = 2
SPECIFICATION FairSpec
INVARIANT SlotsAccounted
PROPERTIES ImplementsAdmission OthersAnswered
