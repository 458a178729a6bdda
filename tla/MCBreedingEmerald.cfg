CONSTANTS
  Species <- AllSpecies
  NoSpecies = "NONE"
  EvolvesFrom <- From
  Since <- Introduced
  Genders <- OneOrTwo
  EggGroups <- Groups
  IncenseLines <- Lines
  Games <- SevenGames
  Generation <- Generations
  EggMoves <- Eggs
  MachineMoves <- Machines
  TutorMoves <- Tutored
  LevelMoves <- Levels
  MoveLists <- FourEach
  IVLists <- IVChoices
  Rank <- StatOrder
  Offered <- TwoOffered
  LevelsGiven = {9}
  NamesGiven = {"NICK"}
  SpeciesName = "SPECIES"
SPECIFICATION MCSpec
INVARIANT EmeraldIVsAreBest
CHECK_DEADLOCK FALSE
