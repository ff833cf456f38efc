\* A sequence of one or two segments; exact decks of three cards.
CONSTANTS
  Card <- MCCard
  Tower <- MCTower
  BaseOf <- MCBaseOf
  Catalogue <- MCCatalogue
  Decks <- MCDecks
  Asked <- MCAsked
  Payloads <- MCPayloads
  SegmentWidth = 8
  DeckSize = 3
  MaxSubqueries = 4
  MaxRank = 30
SPECIFICATION FairSpec
INVARIANTS
  RetrieverDemanded
  ConfidentParseKept
  PartsRouted
PROPERTIES
  RequestEnds
CHECK_DEADLOCK FALSE
