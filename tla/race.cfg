SPECIFICATION Spec
CONSTANTS
  r1 = r1
  r2 = r2
  r3 = r3
  Routes = {r1, r2, r3}
  Order <- ByName
  Limit = 2
  Stagger = 1
  StageTimeout = 1
  Deadline = 5
  MaxRaces = 2
  Reports = {"unknown"}
INVARIANTS RaceFindsThePeer WorkingRouteIsNotBlamed PersistenceFindsTheRoute
