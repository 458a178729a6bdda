CONSTANTS
  bicycle = bicycle
  bottle = bottle
  potion = potion
  t0 = t0
  NoItem = NoItem
  Items <- AllItems
  PocketItems <- TwoKeyItems
  Capacity = 2
  MaxAmount = 1
  IsPC = FALSE
  NativeHasCount = TRUE
  Threads <- OneThread
  CarefulCallers = TRUE
  NumMachines = 2
  MaxMachines = 1
  items = items
  balls = balls
  t1 = t1
  t2 = t2
  PocketOrder <- TwoPockets
  Callers <- TwoCallers
  NoOne = NoOne
  MaxVersion = 2
  CarefulSharing = TRUE
  NumPokemon = 3
SPECIFICATION EitherSpec
INVARIANTS PocketsAreWellFormed WholePockets CleanVectorsAreExact
PROPERTIES KeysImplementInventory CopiesAreCurrent BagIsReleased NoNewContradiction ImplementsRegister
