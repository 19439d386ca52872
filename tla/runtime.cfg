CONSTANTS
  Tags = {t1, t2}
  MaxData = 2
  Paths <- MCPaths
  Trees <- MCTrees
  Operations <- MCOperations
  Requests <- MCRequests
  Budgets <- MCBudgets
  Values <- MCValues
  BufferLength = 16384
  MaxEncodes = 2
  o1 = o1
  Objects = {o1}
  Strings = {"str"}
  MaxRefs = 3
  MaxDepth = 3
  MaxMoves = 1
  MaxTimers = 1
  Programs <- MCPrograms
  MaxSteps = 300
SPECIFICATION RuntimeSpec
SYMMETRY TagSymmetry
CHECK_DEADLOCK FALSE
INVARIANT AnswerIsMine
INVARIANT GuestGoesOn
INVARIANT ListingHolds
INVARIANT NothingEmptied
INVARIANT PositionsAgree
INVARIANT CallsComeBack
INVARIANT StaleFdFails
INVARIANT ValuesArrive
INVARIANT RefsName
INVARIANT MeaningKept
