CONSTANTS
  first = first
  second = second
  PartySize = 2
  BoxSize = 2
  NumBoxes = 1
  Species = {"treecko", "torchic", "mudkip"}
  Marks = {"old", "new"}
  Names = {"BOX", "MINE"}
  Files <- TwoFiles
  NoFile = NoFile
  FirstFile = first
  Games = {"RSE", "FRLG", "GCN"}
  FailingDisks = {"GCN"}
  Offered <- OfferedMons
  GameMade <- GameMadeMons
  MaxCalls = 4
SPECIFICATION Spec
INVARIANT FilesHoldWhatWasShown
CHECK_DEADLOCK FALSE
