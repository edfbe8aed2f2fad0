SPECIFICATION FairSpec
CONSTANTS
  w1 = w1
  w2 = w2
  webhook = webhook
  sync = sync
  gone = gone
  JobIds = {1, 2}
  Kinds = {sync}
  Handled = {sync}
  Keys = {webhook}
  NoKey = NoKey
  Workers = {w1, w2}
  NoWorker = NoWorker
  NoJob = NoJob
  MaxAttempts = 1
  Lease = 1
  BackoffBase = 1
  BackoffCap = 1
  Delays = {0}
  Horizon = 1
  MaxOverdue = 1
  MaxCrashes = 2
PROPERTIES NoStrandedJob
