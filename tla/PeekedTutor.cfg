SPECIFICATION OnlookerSpec
CONSTANTS
  N = 2
  Cards <- FourCards
  Tokens = {}
  Owner <- FourOwner
  HandSize = 1
  MaxHandSize = 1
  MaxMulligans = 0
  Destinations = {"Battlefield", "Library"}
  Fuel = 3
INVARIANT ViewsAreHonest
