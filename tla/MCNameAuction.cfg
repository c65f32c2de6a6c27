SPECIFICATION FairSpec
CONSTANTS
  alice = alice
  bob = bob
  com = com
  net = net
  x_com = x_com
  Bidders <- MCBidders
  System = eosio
  NamesAccount = eosio_names
  RexAccount = eosio_rex
  TopNames <- MCTopNames
  SubNames <- MCSubNames
  Suffix <- MCSuffix
  Rank <- MCRank
  NoRow = NoRow
  InitTokens <- MCTokens
  BidAmounts <- MCBids
  Day = 0
  LaunchDelay = 0
  LastBid = 2
  MaxTime = 4
INVARIANTS
  EveryTokenPlaced
PROPERTIES
  SoldStaysSold
  OutbidRefunded
  AuctionsClose
