---------------------------- MODULE ParamsExplorer ----------------------------
(***************************************************************************)
(* The params explorer (services/models/explorer/paramsModelMethods.ts):   *)
(* its search, live update and life around the configuration of            *)
(* ExplorerConfig.  Unlike the search of the metrics explorer, this one    *)
(* works on a shallow copy of the config object.                           *)
(***************************************************************************)
EXTENDS ExplorerConfig

CONSTANT MaxRepo \* bound: changes of the repository

Search == "search"
ASSUME OneSearch == Holders = {Search} /\ None # Search

VARIABLES
  repo,    \* version of the repository: which runs a search finds
  request, \* the search under way, or None
  status,  \* requestStatus
  service, \* the live update: what localStorage has, and liveUpdateInstance
  polling, \* what the service polls now, or "stopped"
  polls,   \* queries a live update may still send results of
  silent   \* ghost: a search ended without starting the live update: cancelled before
           \* the response (of the scatters: or failed), or the page was opened
           \* without one; and nothing started it since

liveVars == <<polling, polls, silent>>
pageVars == <<repo, request, status, service, liveVars>>
peVars == <<configVars, pageVars>>

\* What a search asks, and the operations of the user up to its start.
Requests == [q : Selects, toUrl : BOOLEAN, phase : {"fetching", "reading"}, edits : Nat]
ASSUME NoneIsNoRequest == None \notin Requests /\ "stopped" \notin Selects /\ MaxRepo \in Nat

\* select is the options and the query together, None while there is no option:
\* only then nothing is searched, whatever the query is.
RowsOf(q) == [q |-> q, repo |-> repo]

\* liveUpdateInstance?.start
liveUpdateStart(q) ==
  /\ IF service.on THEN polling' = q /\ polls' = polls \cup {q} ELSE UNCHANGED <<polling, polls>>
  /\ silent' = FALSE

-----------------------------------------------------------------------------
\* manageSystemMetricColumns, the effect of new rows in ParamsContainer.tsx: if
\* the rows have system metrics and nothing was ever hidden, they are hidden, in
\* a new config that is not saved.
manageSystemMetricColumns(c) ==
  {c} \cup (IF c.table.system = "fresh" THEN {[c EXCEPT !.table.system = "hidden"]} ELSE {})

\* setModelData: the data are computed from the model's config c.  Brushes of
\* options that are not selected are dropped, in a new config and chart object
\* that neither the address nor localStorage hears of.  The request o ends.
setModelData(rows, c, o) ==
  \E extent \in {c.chart.extent, FALSE} :
    \E new \in manageSystemMetricColumns([c EXCEPT !.chart.extent = extent]) :
      /\ rawData' = rows /\ view' = ViewOf(rows, new)
      /\ WriteAndRelease(o, new, (IF c.chart.extent THEN {"config", "chart"} ELSE {})
                                 \cup (IF new.table = c.table THEN {} ELSE {"config"}))

\* updateData, called with the rows of a search and by the live update.
updateData(rows, o) == setModelData(rows, config, o)

\* Mutant: the rows go, what is shown stays.
resetModelState_KeepsView(c) ==
  /\ Return(Search, [c EXCEPT !.table.size = 0], {"config"})
  /\ rawData' = None /\ UNCHANGED view

\* resetModelState: c becomes the model's config.
resetModelState(c) ==
  /\ Return(Search, [c EXCEPT !.table.size = 0], {"config"})
  /\ rawData' = None /\ view' = ViewOf(None, config')

\* c becomes the model's config; the search holds a copy, which has all the
\* objects below in common with it.
HoldCopy(c) ==
  /\ config' = c
  /\ held' = [held EXCEPT ![Search] =
                [cfg |-> c, same |-> [l \in Levels |-> IF l = "config" THEN 1 ELSE 0]]]

\* The part of getParamsData before the first await: the former request is
\* aborted, and the new one works on a copy of the config c.  Without options
\* the page is emptied, and what the live update polls is left alone.
getParamsData(c, replaced, toUrl) ==
  IF c.select = None
  THEN /\ request' = None
       /\ WriteAndRelease(Search, [c EXCEPT !.table.size = 0], replaced \cup {"config"})
       /\ rawData' = None /\ view' = ViewOf(None, config')
       /\ UNCHANGED status
  ELSE /\ request' = [q |-> c.select, toUrl |-> toUrl, phase |-> "fetching", edits |-> edits']
       /\ HoldCopy(c)
       /\ status' = "Pending"
       /\ UNCHANGED <<rawData, view>>

\* A request aborted while it reads: its live update starts behind the catch.
\* Aborted before the response its promise never settles.
AbortedReading == request # None /\ request.phase = "reading"

\* A search stops the live update, before the aborted one starts it again.  One
\* without options does not, but aborts.
SearchStops ==
  IF AbortedReading THEN liveUpdateStart(request.q)
  ELSE /\ polling' = IF request' = None THEN polling ELSE "stopped"
       /\ silent' = (request' = None /\ (silent \/ request # None))
       /\ UNCHANGED polls

\* While the progress bar shows, the search form, the popovers of the grouping
\* and the bar on top of the page are disabled; the chart and the table are not.
ControlsEnabled == status # "Pending"

\* The search button of SelectForm.tsx: onSelectRunQueryChange, then the search.
ParamsSearch ==
  /\ User /\ ControlsEnabled
  /\ \E q \in IF config.select = None THEN {None} ELSE Queries :
       getParamsData([config EXCEPT !.select = q], {"config", "select"}, TRUE)
  /\ SearchStops
  /\ KeepURL /\ UNCHANGED <<storedTable, overtaken, repo, service>>

\* archiveRuns and deleteRuns: the answer makes the page search again.
archiveRuns ==
  /\ User
  /\ repo < MaxRepo /\ repo' = repo + 1
  /\ getParamsData(config, {}, FALSE)
  /\ SearchStops
  /\ KeepURL /\ UNCHANGED <<storedTable, overtaken, service>>

ResponseBegins ==
  /\ request # None /\ request.phase = "fetching"
  /\ request' = [request EXCEPT !.phase = "reading"]
  /\ UNCHANGED <<configVars, repo, status, service, liveVars>>

\* The user has worked on while the request o was under way.
OvertakenBy(o) == o.edits # edits

\* Mutant: the live update is not started again.
ParamsArrive_NoStart ==
  /\ request # None /\ request.phase = "reading"
  /\ request' = None
  /\ updateData(RowsOf(request.q), Search)
  /\ IF request.toUrl THEN updateURL(held[Search].cfg) ELSE KeepURL
  /\ overtaken' = (overtaken \/ (request.toUrl /\ OvertakenBy(request)))
  /\ status' = "Ok" /\ silent' = FALSE
  /\ UNCHANGED <<storedTable, edits, repo, service, polling, polls>>

\* The rows have come.  The copy goes into the address.
ParamsArrive ==
  /\ request # None /\ request.phase = "reading"
  /\ request' = None
  /\ updateData(RowsOf(request.q), Search)
  /\ IF request.toUrl THEN updateURL(held[Search].cfg) ELSE KeepURL
  /\ overtaken' = (overtaken \/ (request.toUrl /\ OvertakenBy(request)))
  /\ status' = "Ok"
  /\ liveUpdateStart(request.q)
  /\ UNCHANGED <<storedTable, edits, repo, service>>

\* The reader fails: the indicator stays, the live update starts.
ParamsBreak ==
  /\ request # None /\ request.phase = "reading"
  /\ request' = None /\ Release(Search)
  /\ liveUpdateStart(request.q)
  /\ UNCHANGED <<config, url, previous, storedTable, rawData, view, edits, overtaken,
                 repo, status, service>>

\* No connection, or a status of 400 or more, whose body is read twice (api.ts): both
\* reject.  The copy becomes the model's config.
RequestRefused(o) ==
  /\ request # None /\ request.phase = "fetching"
  /\ request' = None
  /\ resetModelState(held[Search].cfg)
  /\ overtaken' = (overtaken \/ OvertakenBy(o))
  /\ status' = "BadRequest"
  /\ KeepURL /\ UNCHANGED <<storedTable, edits, repo, service>>

\* Mutant: the live update starts only when the rows have come.
ParamsRefused_Silent ==
  /\ RequestRefused(request)
  /\ UNCHANGED <<polling, polls, silent>>

\* Caught; the live update starts behind the catch.
ParamsRefused == RequestRefused(request) /\ liveUpdateStart(request.q)

\* The cancel button.
abortRequest ==
  /\ User /\ status = "Pending"
  /\ request' = None /\ Release(Search)
  /\ status' = "Ok"
  /\ IF AbortedReading THEN liveUpdateStart(request.q)
     ELSE silent' = TRUE /\ UNCHANGED <<polling, polls>>
  /\ UNCHANGED <<config, url, previous, storedTable, rawData, view, overtaken, repo, service>>

-----------------------------------------------------------------------------
(* Live update, the repository, the page *)

LiveUpdateArrives ==
  /\ \E q \in polls : RowsOf(q) # rawData /\ updateData(RowsOf(q), None)
  /\ status' = "Ok"
  /\ KeepURL
  /\ UNCHANGED <<storedTable, edits, overtaken, repo, request, service, liveVars>>

\* Mutant: localStorage keeps the state of the switch before.
changeLiveUpdateConfig_StoresOld ==
  /\ User /\ ControlsEnabled
  /\ Write([config EXCEPT !.live = ~@], {"config"})
  /\ service' = [stored |-> config.live, on |-> ~config.live]
  /\ IF config.live THEN polling' = "stopped" /\ UNCHANGED <<polls, silent>>
     ELSE polling' = config.select /\ polls' = polls \cup {config.select} /\ silent' = FALSE
  /\ KeepURL
  /\ UNCHANGED <<storedTable, rawData, view, overtaken, repo, request, status>>

\* The switch: a new service that polls at once, or the old one is cleared.
changeLiveUpdateConfig ==
  /\ User /\ ControlsEnabled
  /\ Write([config EXCEPT !.live = ~@], {"config"})
  /\ service' = [stored |-> ~config.live, on |-> ~config.live]
  /\ IF config.live THEN polling' = "stopped" /\ UNCHANGED <<polls, silent>>
     ELSE polling' = config.select /\ polls' = polls \cup {config.select} /\ silent' = FALSE
  /\ KeepURL
  /\ UNCHANGED <<storedTable, rawData, view, overtaken, repo, request, status>>

OthersChangeRepository ==
  /\ repo < MaxRepo /\ repo' = repo + 1
  /\ UNCHANGED <<configVars, request, status, service, liveVars>>

\* destroy and the abort of ParamsContainer.tsx; then, when the page is opened
\* again, initialize, setDefaultAppConfigData and the first search.
Reinitialize ==
  /\ User
  /\ LET new == setDefaultAppConfigData([getConfig EXCEPT !.live = service.stored], url)
     IN IF new.select = None
        THEN /\ WriteAndRelease(Search, [new EXCEPT !.table.size = 0], Levels)
             /\ request' = None /\ status' = "NotRequested"
        ELSE /\ HoldCopy(new)
             /\ request' = [q |-> new.select, toUrl |-> FALSE, phase |-> "fetching",
                            edits |-> edits']
             /\ status' = "Pending"
  /\ rawData' = None /\ view' = ViewOf(None, config')
  /\ service' = [service EXCEPT !.on = service.stored]
  /\ polling' = "stopped" /\ silent' = (request' = None)
  /\ KeepURL
  /\ UNCHANGED <<storedTable, overtaken, repo, polls>>

-----------------------------------------------------------------------------
PEInit ==
  /\ ConfigInit
  /\ repo = 0 /\ request = None /\ status = "NotRequested"
  /\ service = [stored |-> FALSE, on |-> FALSE]
  /\ polling = "stopped" /\ polls = {} /\ silent = FALSE

\* The grouping handlers of the params page call the shared ones, then put a copy
\* of the config with a chart without brushes into the model: nothing is computed
\* from it, and the address keeps the brush.
AssignAndDropBrush(new, replaced) ==
  LET bare == [new EXCEPT !.chart.extent = FALSE]
  IN /\ User
     /\ config' = bare
     /\ held' = [h \in Holders |->
                   IF held[h] = None THEN None
                   ELSE Follow(Follow(held[h], new, replaced), bare, {"config", "chart"})]
     /\ Recompute(new) /\ updateURL(new)
     /\ UNCHANGED <<storedTable, rawData, overtaken>>

paramsOnGroupingSelectChange(g) ==
  \E filled \in BOOLEAN :
    AssignAndDropBrush(
      resetChartZoom([config EXCEPT !.grouping.fields = IF filled THEN @ \cup {g}
                                                        ELSE @ \ {g}]),
      {"grouping", "chart"})

paramsOnGroupingModeChange(g) ==
  \E v \in Looks :
    LET new == [config EXCEPT !.grouping.look = v]
    IN IF g = "chart" THEN AssignAndDropBrush(resetChartZoom(new), {"chart"})
       ELSE AssignAndDropBrush(new, {})

paramsOnGroupingReset(g) ==
  AssignAndDropBrush([config EXCEPT !.grouping.fields = @ \ {g},
                                    !.grouping.applied = @ \cup {g},
                                    !.grouping.look = 0],
                     {"grouping"})

paramsOnGroupingApplyChange(g) ==
  AssignAndDropBrush([config EXCEPT !.grouping.applied =
                        IF g \in @ THEN @ \ {g} ELSE @ \cup {g}],
                     {"grouping"})

\* The handlers the params and the scatters explorer have in common.
ControlHandlers ==
  \/ onGroupingPaletteChange \/ onGroupingPersistenceChange \/ onShuffleChange
  \/ onResetConfigData \/ onSelectOptionsChange

SharedHandlers ==
  \/ ControlsEnabled /\ ControlHandlers
  \/ onChangeTooltip \/ onActivePointChange
  \/ onColumnsOrderChange
  \/ onColumnsVisibilityChange({"hidden", "shown"}) \/ onTableDiffShow({"hidden", "shown"})
  \/ onParamVisibilityChange \/ onRowVisibilityChange \/ onRowsVisibilityChange
  \/ updateColumnsWidths \/ updateSortFields
  \/ onSortFieldsChange
  \/ onRowHeightChange \/ onTableResizeEnd \/ onTableResizeModeChange
  \/ onRunsTagsChange

\* The columns of the table can be grouped by, too.
ParamsGrouping ==
  \E g \in Groups :
    \/ paramsOnGroupingSelectChange(g)
    \/ /\ ControlsEnabled
       /\ \/ paramsOnGroupingModeChange(g) \/ paramsOnGroupingReset(g)
          \/ paramsOnGroupingApplyChange(g)

ParamsHandlers ==
  /\ \/ SharedHandlers \/ ParamsGrouping
     \/ onColorIndicatorChange \/ onCurveInterpolationChange \/ onAxisBrushExtentChange
  /\ UNCHANGED pageVars

BrowserBack == Back(service.stored) /\ UNCHANGED pageVars

PageSteps ==
  \/ BrowserBack \/ ResponseBegins \/ LiveUpdateArrives \/ changeLiveUpdateConfig
  \/ OthersChangeRepository \/ Reinitialize

PENext ==
  \/ PageSteps \/ ParamsHandlers
  \/ ParamsSearch \/ archiveRuns
  \/ ParamsArrive \/ ParamsBreak \/ ParamsRefused \/ abortRequest

PESpec == PEInit /\ [][PENext]_peVars

-----------------------------------------------------------------------------
PETypeOK ==
  /\ ConfigTypeOK
  /\ repo \in 0..MaxRepo /\ polls \subseteq Selects
  /\ polling \in Selects \cup {"stopped"} /\ silent \in BOOLEAN
  /\ status \in {"NotRequested", "Pending", "Ok", "BadRequest"}
  /\ service \in [stored : BOOLEAN, on : BOOLEAN]
  /\ request = None <=> held[Search] = None

\* Once the user has switched the live update off, no live update service is
\* left that the end of a search could start again, and while the switch shows
\* it on there is one: across searches, failures, steps back and new visits.
\* Not after a failed search has put the config from before a switch back.
SwitchIsTrue == ~overtaken => service.on = config.live

\* The live update that a search stops goes on when the search is over, and the
\* rows of the page are kept up to date: on the params page after rows, failures and
\* refusals alike, on the scatters page after rows.  Not after a search that was
\* cancelled before its response, or a page opened without a search.
LiveUpdateResumes == service.on /\ request = None /\ ~silent => polling # "stopped"
=============================================================================
