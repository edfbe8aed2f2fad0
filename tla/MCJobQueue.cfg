SPECIFICATION Spec
CONSTANTS
  w1 = w1
  w2 = w2
  webhook = webhook
  sync = sync
  gone = gone
  JobIds = {1, 2}
  Kinds = {sync, gone}
  Handled = {sync}
  Keys = {webhook}
  NoKey = NoKey
  Workers = {w1, w2}
  NoWorker = NoWorker
  NoJob = NoJob
  MaxAttempts = 2
  Lease = 1
  BackoffBase = 1
  BackoffCap = 1
  Delays = {0, 1}
  Horizon = 1
  MaxOverdue = 1
  MaxCrashes = 1
SYMMETRY Symmetry
INVARIANTS DoubledOnlyByOverrun OverspentOnlyByReclaim
PROPERTIES GivesUpOnlySpent  KeepsPromise
