\* Three timers, so that a callback can change the middle of the list.
SPECIFICATION Spec
CONSTANTS
  t1 = t1
  t2 = t2
  t3 = t3
  Timers <- MCTimers
  Starts <- MCStarts
  Nil = Nil
  MaxCalls = 1
INVARIANTS TypeOK FiresOnTime NoneOverdue MembersListed AllNotified
PROPERTY TickNearsEnd
