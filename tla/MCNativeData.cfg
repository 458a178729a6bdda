CONSTANTS
  potion = potion
  repel = repel
  ether = ether
  bicycle = bicycle
  t1 = t1
  NoItem = NoItem
  Items <- FourItems
  PocketItems <- PocketOfThree
  Capacity = 3
  MaxAmount = 2
  IsPC = FALSE
  NativeHasCount = TRUE
  Threads <- OneThread
  CarefulCallers = TRUE
  GamesOf <- SevenGames
  GameIndex <- Indices
  Names = {"empty", "ASH", "SPECIES", "LONGER", "TOOLONG"}
  LengthOf <- Lengths
  DefaultName = "SPECIES"
  DefaultTrainer = "SPECIES"
  DefaultID <- UsualID
  TrainerIDs <- SomeIDs
  LevelsMade = {5, 70}
  BaseFriendship = 70
  CatchRate = 45
  ItemAt <- TwoItems
  PlaceIndex <- Places
  RangeStarts <- Beginnings
  Inputs <- Values
  Amounts <- SomeAmounts
  Lookalikes <- SomeLookalikes
  FileNames <- SomeFiles
  CardInputs <- CardValues
  TimesPlayed <- SomeTimes
  RibbonInputs <- SomeRibbons
  MarkInputs <- SomeMarks
  ContestInputs <- SomeContestStats
SPECIFICATION EitherSpec
INVARIANTS ListIsWellFormed NativeMirrors
PROPERTIES ImplementsInventory OriginsAreKept CardsAreKept AwardsAreKept
