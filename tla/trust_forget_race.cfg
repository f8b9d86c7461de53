SPECIFICATION Spec
CONSTANTS
  k1 = k1
  k2 = k2
  Identities <- TwoKeys
  Routes = {1}
  Destinations = {home}
  Fallback = home
  Removable = {}
  Legacy <- NoRecord
  Tasks = {t1, t2}
  Ui = ui
  NoKey = NoKey
  Nothing = Nothing
  MaxPeers = 4
  MaxRoutes = 1
  MaxClock = 0
  MaxOverlap = 2
  MaxStarts = 4
INVARIANT ForgottenStaysForgotten
CHECK_DEADLOCK FALSE
