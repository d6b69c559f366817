SPECIFICATION RTSpec
CONSTANTS
  UserQueries = {"all", "some"}
  Matches <- MCMatches
  InitialRuns = {1, 2}
  MaxRun = 3
  PAGE = 1
  Selectable = {2}
  MaxEdits = 1
  MaxAsked = 3
INVARIANTS PagesFit SelectionIsShown LoadingHasRequest
PROPERTIES OnlyLiveUpdateMixesQueries EditsAreKept
CHECK_DEADLOCK FALSE
