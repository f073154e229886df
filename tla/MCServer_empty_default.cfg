SPECIFICATION Spec
CONSTANTS
  ann = ann
  bob = bob
  t1 = t1
  t2 = t2
  good = good
  bad = bad
  silent = silent
  default = default
  NoPipe = NoPipe
  Client = {ann, bob}
  Thread = {t1}
  Pipe = {good, bad, silent, default}
  FailingPipe = {bad}
  EmptyRuns <- SilentDefault
  initialPipe = default
  Forms <- ViewedForms
  MaxRequests = 3
  MaxRestarts = 1
INVARIANTS
  OwnData
CHECK_DEADLOCK FALSE
