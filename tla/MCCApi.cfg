CONSTANTS
  one = one
  other = other
  Threads <- TwoThreads
  Handles = {1, 2}
  NoOne = NoOne
  Shapes <- AllShapes
  Repertoire <- Repertoires
  Thrown = {"out_of_range"}
  Sizes = {0, 1, 3}
  BufferLength = 2
  CarefulCallers = TRUE
SPECIFICATION Spec
PROPERTY MutexesComeBack
INVARIANTS ErrorsFitTheCalls AnswersAreWholeOrAbsent

