--------------------------- MODULE MetricsExplorer ---------------------------
(***************************************************************************)
(* The metrics explorer (services/models/explorer/metricsModelMethods.ts): *)
(* the search, the alignment by another metric, the point density, the     *)
(* live update and the page's life, around the configuration of            *)
(* ExplorerConfig.  The answers of the server come in any order, and the   *)
(* user goes on working while the page waits for them.                     *)
(***************************************************************************)
EXTENDS ExplorerConfig

CONSTANTS
  Alignments, \* the holders that are alignment requests
  MaxRepo     \* bound: changes of the repository

Search == "search"
ASSUME MetricsHolders == Holders = Alignments \cup {Search} /\ Search \notin Alignments

VARIABLES
  repo,     \* version of the repository: which runs a search finds
  request,  \* the search under way, with the alignment at its start, or None
  aligning, \* for each alignment request its metric and the rows it sent, or None
  status,   \* requestStatus
  service,  \* the live update: what localStorage has, and liveUpdateInstance
  polls,    \* parameters of searches a live update may still send results of
  stale     \* ghost: the rows are not those the configuration asks for

meVars == <<repo, request, aligning, status, service, polls, stale>>
allVars == <<configVars, meVars>>

Parameters == [q : Selects, p : Looks, x : Metrics \cup {None}]
Rows == [q : Selects, p : Looks, x : Metrics \cup {None}, repo : 0..MaxRepo, own : BOOLEAN,
         lacking : {"none", "search", "alignment"}]
Searches == [params : Parameters, align : Alignment, toUrl : BOOLEAN,
             phase : {"fetching", "streaming"}]
Asked == [metric : Metrics, rows : Rows \cup {None}]
ASSUME NoneIsNotAsked == None \notin Searches \cup Asked /\ MaxRepo \in Nat

\* Rows: what was searched, with which density, aligned by which metric; whether
\* the values of the alignment belong to the rows they are attached to, and whether
\* some rows lack them: so the search or the alignment request has sent them.  The
\* server has no values for a run without the metric.
LackingAfterSearch(x) == IF x = None THEN {"none"} ELSE {"none", "search"}
RowsOf(s) == [q : {s.q}, p : {s.p}, x : {s.x}, repo : {repo}, own : {TRUE},
              lacking : LackingAfterSearch(s.x)]
Metric(c) == c.chart.align.metric
\* Mutant: the search does not tell the metric of the alignment.
Params_NoAlignment(c) == [q |-> c.select, p |-> c.chart.density, x |-> None]

Params(c) == [q |-> c.select, p |-> c.chart.density, x |-> Metric(c)]

\* The chart is aligned by a metric its rows were not asked with, by values of other
\* rows, or by values an alignment request was denied for some of them.
Misaligned(c, rows) ==
  /\ c.chart.align.type = "custom" /\ rows # None
  /\ ~(rows.x = Metric(c) /\ rows.own /\ rows.lacking # "alignment")

-----------------------------------------------------------------------------
(* Setting the model's data *)

\* setModelData(rows, c), c being the model's config or one a request held.
SetModelData(rows, c) ==
  /\ rawData' = rows
  /\ view' = ViewOf(rows, c)

\* resetModelState of a config c: no rows, and the table in its default size.
Emptied(c) == [c EXCEPT !.table.size = 0]

\* updateData, for an answer and for the live update: the model's own config.
UpdateData(rows) ==
  LET new == setAggregationEnabled(config)
  IN SetModelData(rows, new)

\* liveUpdateInstance?.start
LiveStart(params) == polls' = IF service.on THEN polls \cup {params} ELSE polls

\* While the progress bar shows, the search form, the popovers of the grouping
\* and the bar on top of the page are disabled; the chart and the table are not.
ControlsEnabled == status # "Pending"

-----------------------------------------------------------------------------
(* getMetricsData *)

\* Up to the first await, on the config c; the former request is aborted.  An
\* empty search empties the page and asks nothing, whatever the live update does.
GetMetricsData(c, replaced, toUrl) ==
  IF c.select = None
  THEN /\ request' = None
       /\ WriteAndRelease(Search, Emptied(c), replaced \cup {"config"})
       /\ SetModelData(None, config')
       /\ UNCHANGED <<status, overtaken>> /\ stale' = FALSE
  ELSE /\ request' = [params |-> Params(c), align |-> c.chart.align, toUrl |-> toUrl,
                      phase |-> "fetching"]
       /\ WriteAndHold(Search, c, replaced)
       /\ status' = "Pending"
       /\ UNCHANGED <<rawData, view, stale, overtaken>>

\* The aborted request: its reader fails and its live update starts, unless it
\* still waited for the response; then its promise never settles.
AbortedStarts ==
  IF request # None /\ request.phase = "streaming"
  THEN LiveStart(request.params) ELSE UNCHANGED polls

\* The search button (SelectForm.tsx) puts the string of the input, if there is
\* one, into the select object of the model.
SearchClick ==
  /\ User /\ ControlsEnabled
  /\ \E q \in Selects :
       GetMetricsData([config EXCEPT !.select = q], {"config", "select"}, TRUE)
  /\ AbortedStarts
  /\ KeepURL /\ UNCHANGED <<storedTable, repo, aligning, service>>

\* onDensityTypeChange
onDensityTypeChange ==
  /\ User
  /\ \E p \in Looks :
       GetMetricsData([config EXCEPT !.chart.density = p], {"config", "chart"}, TRUE)
  /\ AbortedStarts
  /\ KeepURL /\ UNCHANGED <<storedTable, repo, aligning, service>>

\* archiveRuns and deleteRuns: their answer makes the page search again.
RunsRemoved ==
  /\ User
  /\ repo < MaxRepo /\ repo' = repo + 1
  /\ GetMetricsData(config, {}, FALSE)
  /\ AbortedStarts
  /\ KeepURL /\ UNCHANGED <<storedTable, aligning, service>>

ResponseBegins ==
  /\ request # None /\ request.phase = "fetching"
  /\ request' = [request EXCEPT !.phase = "streaming"]
  /\ UNCHANGED <<configVars, repo, aligning, status, service, polls, stale>>

\* The rows have come: the URL shows the config the request held, which is no
\* more the model's if a handler has put a copy in its place meanwhile.
RequestCompletes ==
  /\ request # None /\ request.phase = "streaming"
  /\ request' = None
  /\ LET hd == held[Search] IN
     /\ IF request.toUrl THEN updateURL(hd.cfg) ELSE KeepURL
     /\ overtaken' = (overtaken \/ (request.toUrl /\ hd.same["config"] # 0))
     /\ WriteAndRelease(Search, setAggregationEnabled(config), {})
  /\ \E rows \in RowsOf(request.params) : UpdateData(rows)
  /\ stale' = (request.align # config.chart.align)
  /\ status' = "Ok"
  /\ LiveStart(request.params)
  /\ UNCHANGED <<storedTable, edits, repo, aligning, service>>

\* The reader fails: nothing is set, the indicator stays, the live update starts.
StreamBreaks ==
  /\ request # None /\ request.phase = "streaming"
  /\ request' = None /\ Release(Search)
  /\ LiveStart(request.params)
  /\ UNCHANGED <<config, url, previous, storedTable, rawData, view, edits, overtaken,
                 repo, aligning, status, service, stale>>

\* No connection, or a status of 400 or more, whose body is read twice (api.ts): both
\* are thrown.  exceptionHandler makes the config the request held the model's again,
\* and the live update starts.
RequestFails ==
  /\ request # None /\ request.phase = "fetching"
  /\ request' = None
  /\ Return(Search, Emptied(held[Search].cfg), {"config"})
  /\ SetModelData(None, config')
  /\ overtaken' = (overtaken \/ held[Search].same["config"] # 0)
  /\ status' = "BadRequest" /\ stale' = FALSE
  /\ LiveStart(request.params)
  /\ KeepURL /\ UNCHANGED <<storedTable, edits, repo, aligning, service>>

\* The cancel button: abortRequest.  An alignment request is not aborted.
abortRequest ==
  /\ User /\ status = "Pending"
  /\ request' = None /\ Release(Search)
  /\ status' = "Ok"
  /\ AbortedStarts
  /\ UNCHANGED <<config, url, previous, storedTable, rawData, view, overtaken,
                 repo, aligning, service, stale>>

-----------------------------------------------------------------------------
(* onAlignmentMetricChange *)

\* Up to the await: in place, the URL, and the rows' traces go to the server.
\* Before the first rows have come there is nothing to ask.
onAlignmentMetricChange ==
  /\ User
  /\ \E m \in Metrics :
       LET new == [config EXCEPT !.chart.align = [type |-> "custom", metric |-> m],
                                 !.chart.extent = FALSE, !.chart.zoomed = FALSE]
       IN /\ updateURL(new)
          /\ \/ /\ rawData = None
                /\ Write(new, {"chart"})
                /\ UNCHANGED <<aligning, status>>
             \/ \E a \in Alignments :
                  /\ held[a] = None
                  /\ WriteAndHold(a, new, {"chart"})
                  /\ aligning' = [aligning EXCEPT ![a] = [metric |-> m, rows |-> rawData]]
                  /\ status' = "Pending"
  /\ UNCHANGED <<storedTable, rawData, view, overtaken, repo, request, service, polls, stale>>

\* An answer later than a copy of the config overwrites the copy.
HeldIsModel(a) == held[a].same["config"] = 0
Overtakes(a) == overtaken' = (overtaken \/ ~HeldIsModel(a))

\* The request a ends with new as the config it holds: the data are computed
\* from the model's config, which becomes new only afterwards.
SetHeldData(a, rows, new, replaced) ==
  LET model == IF HeldIsModel(a) THEN new ELSE config
      agg == setAggregationEnabled(model).chart.agg
  IN /\ Return(a, IF held[a].same["agg"] = 0 THEN [new EXCEPT !.chart.agg = agg] ELSE new,
               replaced)
     /\ SetModelData(rows, model)
     /\ Overtakes(a)

\* Values are attached by position to the rows of now.
Attached(a, complete) ==
  LET asked == aligning[a].rows
  IN IF rawData = None THEN None
     ELSE [rawData EXCEPT !.x = aligning[a].metric,
                          !.own = asked = None \/ (rawData.q = asked.q /\ rawData.repo = asked.repo),
                          !.lacking = IF complete THEN "none" ELSE "alignment"]

\* Mutant: an incomplete answer leaves the alignment as it is.
Realigned_Kept(c, complete) == c

\* The answer has a value for every trace, or it has not: then by step again.
Realigned(c, complete) ==
  IF complete THEN c ELSE [c EXCEPT !.chart.align = [type |-> "step", metric |-> None]]

AlignmentAnswered(a) ==
  /\ aligning[a] # None
  /\ aligning' = [aligning EXCEPT ![a] = None]
  /\ \E complete \in BOOLEAN :
       LET rows == Attached(a, complete)
       IN /\ SetHeldData(a, rows, Realigned(held[a].cfg, complete),
                         IF complete THEN {} ELSE {"chart"})
          /\ stale' = (stale \/ (rows # None /\ ~rows.own)
                             \/ Metric(held[a].cfg) # aligning[a].metric)
  /\ status' = "Ok"
  /\ KeepURL
  /\ UNCHANGED <<storedTable, edits, repo, request, service, polls>>

\* The connection fails, or there are more rows now than values: by step again.
AlignmentFails(a) ==
  /\ aligning[a] # None
  /\ aligning' = [aligning EXCEPT ![a] = None]
  /\ LET new == [held[a].cfg EXCEPT !.chart.align = [type |-> "step",
                                                     metric |-> aligning[a].metric]]
     IN /\ Return(a, new, {"chart"})
        /\ SetModelData(rawData, IF HeldIsModel(a) THEN new ELSE config)
        /\ Overtakes(a) /\ updateURL(new)
  /\ status' = "BadRequest"
  /\ UNCHANGED <<storedTable, edits, repo, request, service, polls, stale>>

-----------------------------------------------------------------------------
(* Live update, the repository, the page *)

\* A result may come long after its polling was stopped.
LiveUpdateArrives ==
  /\ \E s \in polls : \E rows \in RowsOf(s) :
       rows # rawData /\ UpdateData(rows) /\ stale' = Misaligned(config, rows)
  /\ Write(setAggregationEnabled(config), {})
  /\ status' = "Ok"
  /\ KeepURL
  /\ UNCHANGED <<storedTable, edits, overtaken, repo, request, aligning, service, polls>>

\* changeLiveUpdateConfig.  The service started polls at once.
changeLiveUpdateConfig ==
  /\ User /\ ControlsEnabled
  /\ Write([config EXCEPT !.live = ~@], {"config"})
  /\ LET on == ~config.live /\ config.select # None
     IN /\ service' = [stored |-> ~config.live, on |-> on]
        /\ polls' = IF on THEN polls \cup {Params(config)} ELSE polls
  /\ KeepURL
  /\ UNCHANGED <<storedTable, rawData, view, overtaken, repo, request, aligning, status, stale>>

OthersChangeRepository ==
  /\ repo < MaxRepo /\ repo' = repo + 1
  /\ UNCHANGED <<configVars, request, aligning, status, service, polls, stale>>

\* destroy and, when the page is opened again from the side bar, initialize,
\* setDefaultAppConfigData and the first search.  Alignment requests go on.  What
\* an answer has overwritten stays so: the address holds it.
Reinitialize ==
  /\ User
  /\ LET new == setDefaultAppConfigData([getConfig EXCEPT !.live = service.stored], url)
     IN IF new.select = None
        THEN /\ WriteAndRelease(Search, Emptied(new), Levels) /\ request' = None
             /\ status' = "NotRequested"
        ELSE /\ WriteAndHold(Search, new, Levels)
             /\ request' = [params |-> Params(new), align |-> new.chart.align, toUrl |-> FALSE,
                            phase |-> "fetching"]
             /\ status' = "Pending"
  /\ SetModelData(None, config')
  /\ service' = [service EXCEPT !.on = service.stored]
  /\ stale' = FALSE
  /\ KeepURL
  /\ UNCHANGED <<storedTable, overtaken, repo, aligning, polls>>

-----------------------------------------------------------------------------
MEInit ==
  /\ ConfigInit
  /\ repo = 0 /\ request = None /\ status = "NotRequested" /\ polls = {} /\ stale = FALSE
  /\ service = [stored |-> FALSE, on |-> FALSE]
  /\ aligning = [a \in Alignments |-> None]

GroupingHandlers ==
  \/ \E g \in Groups : \/ onGroupingModeChange(g) \/ onGroupingReset(g)
                       \/ onGroupingApplyChange(g)
  \/ onGroupingPaletteChange \/ onGroupingPersistenceChange \/ onShuffleChange

ChartHandlers ==
  \/ onAggregationConfigChange
  \/ onSmoothingChange \/ onIgnoreOutliersChange \/ onLegendsChange
  \/ onAxesScaleTypeChange \/ onAxesScaleRangeChange \/ onZoomChange
  \/ onHighlightModeChange \/ onChangeTooltip \/ onActivePointChange

\* The columns of the table can be grouped by, too.
TableHandlers ==
  \/ \E g \in Groups : onGroupingSelectChange(g)
  \/ onColumnsOrderChange \/ onColumnsVisibilityChange({"fresh"}) \/ onTableDiffShow({"fresh"})
  \/ onMetricVisibilityChange \/ onRowVisibilityChange \/ onRowsVisibilityChange
  \/ updateColumnsWidths \/ updateSortFields
  \/ onRowHeightChange \/ onTableResizeEnd \/ onTableResizeModeChange

SelectHandlers ==
  \/ onSelectRunQueryChange \/ onSelectAdvancedQueryChange
  \/ onSelectOptionsChange \/ toggleSelectAdvancedMode

Handlers ==
  /\ \/ ControlsEnabled /\ (GroupingHandlers \/ SelectHandlers \/ onResetConfigData)
     \/ ChartHandlers \/ TableHandlers \/ onAlignmentTypeChange \/ onRunsTagsChange
  /\ UNCHANGED meVars

\* The address one step back may align by a metric; the rows do not follow.
BrowserBack ==
  /\ Back(service.stored)
  /\ stale' = (stale \/ Misaligned(config', rawData))
  /\ UNCHANGED <<repo, request, aligning, status, service, polls>>

MENext ==
  \/ Handlers \/ BrowserBack
  \/ SearchClick \/ onDensityTypeChange \/ RunsRemoved
  \/ ResponseBegins \/ RequestCompletes \/ StreamBreaks \/ RequestFails \/ abortRequest
  \/ onAlignmentMetricChange
  \/ \E a \in Alignments : AlignmentAnswered(a) \/ AlignmentFails(a)
  \/ LiveUpdateArrives \/ changeLiveUpdateConfig
  \/ OthersChangeRepository
  \/ Reinitialize

MESpec == MEInit /\ [][MENext]_allVars

-----------------------------------------------------------------------------
METypeOK ==
  /\ ConfigTypeOK
  /\ repo \in 0..MaxRepo /\ stale \in BOOLEAN
  /\ request \in Searches \cup {None} /\ rawData \in Rows \cup {None}
  /\ polls \subseteq Parameters
  /\ service \in [stored : BOOLEAN, on : BOOLEAN]
  /\ status \in {"NotRequested", "Pending", "Ok", "BadRequest"}
  /\ \A a \in Alignments : /\ aligning[a] \in Asked \cup {None}
                           /\ aligning[a] = None <=> held[a] = None
  /\ request = None <=> held[Search] = None

\* When the page is at rest, the rows of a chart aligned by a metric were asked with
\* that metric, for themselves, and no alignment request was denied values for them:
\* after searches, density changes, failed and incomplete alignments.  The rows of a
\* search may lack values all the same: the page only says so.  Not so after an answer
\* that came for other rows or another metric, or after a step back in the history.
AlignedBySelectedMetric ==
  ~stale /\ ~overtaken /\ (\A h \in Holders : held[h] = None) =>
    ~Misaligned(config, rawData)

\* The aggregation follows the grouping, whatever ends late, the default excepted.
AggregationFollows == METypeOK /\ AggregationNeedsGrouping
=============================================================================
