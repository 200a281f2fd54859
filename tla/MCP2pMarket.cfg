CONSTANTS
  ann = ann
  bob = bob
  Agents = {ann, bob}
  HomeBus <- MCHomeBus
  Offers <- MCOffers
  GreenPremium = 2
  MaxBids = 4
SPECIFICATION Spec
INVARIANTS
  TypeOK
  RoundFillsWithinBid
  StatusAgreesWithTrades
  
  WithinLimits
  AuctionIsEfficient
  LocalFirst
  NearestFirst
PROPERTIES
  MatchedIsFinal
