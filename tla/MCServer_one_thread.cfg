SPECIFICATION FairSpec
CONSTANTS
  ann = ann
  bob = bob
  t1 = t1
  t2 = t2
  good = good
  bad = bad
  silent = silent
  default = default
  NoPipe = NoPipe
  Client = {ann, bob}
  Thread = {t1}
  Pipe = {good, bad, silent, default}
  FailingPipe = {bad}
  EmptyRuns <- Silent
  initialPipe = default
  Forms <- MCForms
  MaxRequests = 2
  MaxRestarts = 1
INVARIANTS
  TypeOK
  OwnAnswer
  PageConsistent
PROPERTIES
  Answered
CHECK_DEADLOCK FALSE
