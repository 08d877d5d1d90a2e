SPECIFICATION JournalsSpec
CONSTANTS
  Requests = {q1, q2}
  Limit = 2
  MaxWrites = 4
  s1 = s1
  s2 = s2
  Sessions = {s1, s2}
  AgentLines <- SomeLines
  LinesOf <- FirstWritesThree
  PipeSize = 1
  WritesFail = TRUE
CHECK_DEADLOCK FALSE
INVARIANTS
  AuditTypeOK
  NothingLostSilently
  ShownIsCurrent
  SessionTypeOK
  JournalTellsAll
  LifecycleIsWitnessed
PROPERTIES
  DamageIsFinal
  KeepsItsPromise
  ObserversEndUnlessJammed
