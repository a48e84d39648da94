CONSTANTS
    Players <- TwoPlayers
    Cards <- SevenCards
    sprite = sprite
    drifter = drifter
    tax = tax
    doom = doom
    recall = recall
    denial = denial
    raise = raise
    Owner <- CardOwner
    Text <- CardTexts
    None = None
    Capacity = 3
    Mortal = {drifter}
    MaxTurn = 3
    Fuel = 4
SPECIFICATION SeenSpec
INVARIANT CardsMatchEntries
INVARIANT SubscriptionsAreExact
INVARIANT TriggersKnowTheirPlayer
INVARIANT ReaderMissesNothing
PROPERTY OnlyLegalTargetsAreAffected
