SPECIFICATION Spec
CONSTANTS
  t1 = t1
  t2 = t2
  m1 = m1
  Scheduler = {s1}
  Caller = {c1}
  Trigger = {t1}
  Member = {m1}
  Version = {v1, v2}
  Run <- MCRun
  Creator <- MCCreator
  Occurs <- MCOccurs
  SkipMissed <- MCSkipMissed
  RateLimit = 2
  MaxTime = 2
  Skew = 0
  MaxFault = 1
  MaxChange = 4
  NoTrigger = NoTrigger
  NoMember = NoMember
  NoVersion = NoVersion
INVARIANTS TypeOK RemovedMemberStopped
PROPERTIES StartedWithAuthority
