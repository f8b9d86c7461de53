SPECIFICATION Spec
CONSTANTS
  k1 = k1
  k2 = k2
  Identities <- TwoKeys
  Routes = {1}
  Destinations = {home, usb}
  Fallback = home
  Removable = {usb}
  Legacy <- NoRecord
  Tasks = {t1}
  Ui = ui
  NoKey = NoKey
  Nothing = Nothing
  MaxPeers = 4
  MaxRoutes = 1
  MaxClock = 0
  MaxOverlap = 1
  MaxStarts = 3
INVARIANT SavedFolderIsKept
CHECK_DEADLOCK FALSE
