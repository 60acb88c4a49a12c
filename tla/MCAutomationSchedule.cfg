SPECIFICATION LiveSpec
CONSTANTS
  t1 = t1
  t2 = t2
  m1 = m1
  Scheduler = {s1, s2}
  Caller = {}
  Trigger = {t2}
  Member = {m1}
  Version = {v1}
  Run <- MCRun
  Creator <- MCCreator
  Occurs <- MCOccurs
  SkipMissed <- MCSkipMissed
  RateLimit = 3
  MaxTime = 3
  Skew = 1
  MaxFault = 1
  MaxChange = 1
  NoTrigger = NoTrigger
  NoMember = NoMember
  NoVersion = NoVersion
INVARIANTS OncePerOccurrence
PROPERTIES CatchesUpOnce OccurrenceResolved
