\* Two tabs, of one browser or of two; three refresh tokens, one password change.
SPECIFICATION Spec
CONSTANTS
  d1 = d1
  d2 = d2
  t1 = t1
  t2 = t2
  Devices = {d1, d2}
  Tabs = {t1, t2}
  Openings <- Spread
  MaxTokens = 3
  MaxEra = 1
CHECK_DEADLOCK FALSE
INVARIANTS
  TypeOK
  OldSessionsNeedARace
  OneSessionPerDevice
  StoredTokenIsUsable
