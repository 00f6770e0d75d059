\* Two cycles and polls of their own while the orders move between any two
\* calls, with positions on both sides and readings that may be missing.
CONSTANTS
  MaxCalls = 2
  Faults = {"unavailable"}
  Symbols = {1, 2}
  Mode = "PAPER"
  Held <- MCHeld
  Entry = 100
  MarketReads <- MCMarketReads
  Marks <- MCMarks
  AccountReadings <- MCAccountReadings
  Discoveries <- MCDiscoveries
  Candidates <- MCCandidates
  DefaultIds <- MCDefaultIds
  Sizes <- MCSizes
SPECIFICATION Spec
INVARIANTS
  TypeOK
  NothingCountedTwice
  ChoiceIgnoresOrder
  ProposalsFitThePosition
  ReviewsIgnoreTheOwnOrder
