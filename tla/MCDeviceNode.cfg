SPECIFICATION Spec

CONSTANTS
  t1 = t1
  t2 = t2
  NoId = NoId
  NoVersion = NoVersion
  Threads = {t1, t2}
  Calls <- MCCalls
  Ids = {0, 1}
  Versions <- MCVersions
  CompatMajor = 1
  CompatMinor = 1
  MaxChanges = 2

INVARIANTS
  TypeOK
  LogsFirst
  ListFaithful
  GetFaithful
  OpenExplains

PROPERTY CallsReturn
