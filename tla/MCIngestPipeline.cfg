SPECIFICATION Spec
CONSTANTS
  Msgs = {mail}
  NoMsg = NoMsg
  Props = {1, 2}
  NoProp = NoProp
  Kinds = {receipt}
  NoKind = NoKind
  Extractable = {receipt}
  Receipt = receipt
  Places = {home}
  NoPlace = NoPlace
  Workers = {w1, w2}
  AutoApply = TRUE
  Corrected = {}
  Slow = {w1, w2}
  MaxCrashes = 1
  w1 = w1
  w2 = w2
  mail = mail
  receipt = receipt
  lease = lease
  note = note
  home = home
SYMMETRY Symmetry
INVARIANTS StandingHasVerdict DoubledOnlyByOverlap 
PROPERTIES KeepsGate
