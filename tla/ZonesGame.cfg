SPECIFICATION FairSeen
CONSTANTS
  N = 2
  Cards <- TwoDecks
  Tokens <- TwoTokens
  Owner <- TwoOwner
  HandSize = 1
  MaxHandSize = 1
  MaxMulligans = 1
  Destinations <- MovesTo
  Fuel = 2
INVARIANTS
  EveryObjectInOnePlace
  ViewsShowOnlyWhatWasShown
  SightIsRemembered
PROPERTIES
  GameStarts
