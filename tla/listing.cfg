CONSTANTS
  Listings = {l1, l2}
  Nodes = {n1, n2, n3}
  Detailed = {n1, n2}
  Workers = {w1}
  ListerConcurrency = 1
  MaxOpens = 1
SPECIFICATION FairSpec
INVARIANTS TypeOK NoSendAfterClose NoResultLost MissesOnlyReleased ListingInvariant
PROPERTIES ListingEnds
