CONSTANTS
  first = first
  second = second
  PartySize = 2
  BoxSize = 2
  NumBoxes = 1
  Species = {"treecko", "torchic", "mudkip"}
  Marks = {"old", "new"}
  Names = {"BOX", "MINE"}
  Files <- TwoFiles
  NoFile = NoFile
  FirstFile = first
  Games = {"FRLG", "GCN"}
  FailingDisks = {"FRLG"}
  Offered <- OfferedMons
  GameMade <- GameMadeMons
  MaxCalls = 4
SPECIFICATION Spec
INVARIANTS CountsAreExact FilesHoldWhatWasShown SavedPokemonAreRegistered
PROPERTY VariablesKeepTheirPokemon
CHECK_DEADLOCK FALSE
