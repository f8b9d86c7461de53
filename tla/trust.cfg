SPECIFICATION Spec
CONSTANTS
  k1 = k1
  k2 = k2
  Identities <- TwoKeys
  Routes = {1, 2}
  Destinations = {home, usb}
  Fallback = home
  Removable = {usb}
  Legacy <- LegacyRecord
  Tasks = {t1}
  Ui = ui
  NoKey = NoKey
  Nothing = Nothing
  MaxPeers = 4
  MaxRoutes = 1
  MaxClock = 0
  MaxOverlap = 2
  MaxStarts = 5
INVARIANTS TrustOnlyByUser WithdrawnStaysWithdrawn DecisionsLast
SYMMETRY EitherKey
CHECK_DEADLOCK FALSE
