SPECIFICATION FairSpec
CONSTANTS
  Msgs = {mail}
  NoMsg = NoMsg
  Props = {1}
  NoProp = NoProp
  Kinds = {receipt, lease, note}
  NoKind = NoKind
  Extractable = {receipt, lease}
  Receipt = receipt
  Places = {home}
  NoPlace = NoPlace
  Workers = {w1, w2}
  AutoApply = TRUE
  Corrected = {1}
  Slow = {}
  MaxCrashes = 1
  w1 = w1
  w2 = w2
  mail = mail
  receipt = receipt
  lease = lease
  note = note
  home = home
INVARIANTS RewrittenOnlyByCrossing
PROPERTIES HandWrittenStays 
