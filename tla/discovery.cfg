SPECIFICATION DiscoverySpec
CONSTANTS
  d1 = d1
  a1 = a1
  k1 = k1
  fallback = fallback
  Ids = {d1, d2}
  Keys = {k1}
  NoKey = NoKey
  Nobody = Nobody
  Anyone = Anyone
  Addrs = {a1}
  Workers = {fallback}
  Candidates <- Polled
  Advertised <- OneAdvertises
  KeyOf <- OneKey
  Sources <- AllSources
  RankOf <- Ranks
  DiscoveryOf <- Discoveries
  Probed <- ProbedSources
  MaxAge = 0
  MaxClock = 1
INVARIANTS ListedIffVouched ReachableHasEvidence OnlyWhoAnswered ShownIsCurrent
PROPERTY SilentSourceIsGivenUp
CHECK_DEADLOCK FALSE
