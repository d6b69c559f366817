SPECIFICATION MESpec
CONSTANTS
  Holders = {"search", "align1", "align2"}
  Alignments = {"align1", "align2"}
  Queries = {"q"}
  Metrics = {"m"}
  Groups = {"chart", "color"}
  Grouped0 = {"chart"}
  Aggregates = TRUE
  None = None
  MaxEdits = 4
  MaxRepo = 1
INVARIANTS UrlShowsConfig ViewShowsConfig StoredTableIsConfig AggregationFollows AlignedBySelectedMetric
CHECK_DEADLOCK FALSE
