SPECIFICATION ISSpec
CONSTANTS
  Holders = {"search"}
  Queries = {"q", "r"}
  Metrics = {}
  Groups = {"chart"}
  Grouped0 = {}
  Aggregates = FALSE
  None = None
  MaxEdits = 4
  MaxRepo = 1
INVARIANTS PlacesAgree SwitchIsTrue LiveUpdateResumes
CHECK_DEADLOCK FALSE
