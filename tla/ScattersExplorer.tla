--------------------------- MODULE ScattersExplorer ---------------------------
(***************************************************************************)
(* The scatters explorer (services/models/explorer/scattersModelMethods.ts)*)
(* beside the params explorer: which of the two pages it is, is chosen at  *)
(* the start.  The models are copies of each other that differ where a     *)
(* search ends: here the live update starts only with rows that have come, *)
(* and brushes do not exist.                                               *)
(***************************************************************************)
EXTENDS ParamsExplorer

VARIABLE page \* "params" or "scatters"

ssVars == <<peVars, page>>

\* setModelData of the scatters: the chart has nothing to drop.
scattersSetModelData(rows, c, o) ==
  \E new \in manageSystemMetricColumns(c) :
    /\ rawData' = rows /\ view' = ViewOf(rows, new)
    /\ WriteAndRelease(o, new, IF new.table = c.table THEN {} ELSE {"config"})

\* getScattersData: the string of the input is in the model's config already.
getScattersData(c, replaced, toUrl) == getParamsData(c, replaced, toUrl)

\* A search stops the live update; an aborted one does not start it again.
ScattersSearchStops ==
  /\ polling' = IF request' = None THEN polling ELSE "stopped"
  /\ silent' = (request' = None /\ (silent \/ request # None))
  /\ UNCHANGED polls

\* The search button.
ScattersSearch ==
  /\ User /\ ControlsEnabled
  /\ \E q \in IF config.select = None THEN {None} ELSE Queries :
       getScattersData([config EXCEPT !.select = q], {"config", "select"}, TRUE)
  /\ ScattersSearchStops
  /\ KeepURL /\ UNCHANGED <<storedTable, overtaken, repo, service>>

\* archiveRuns and deleteRuns of the scatters.
scattersArchiveRuns ==
  /\ User
  /\ repo < MaxRepo /\ repo' = repo + 1
  /\ getScattersData(config, {}, FALSE)
  /\ ScattersSearchStops
  /\ KeepURL /\ UNCHANGED <<storedTable, overtaken, service>>

\* The rows have come.
ScattersArrive ==
  /\ request # None /\ request.phase = "reading"
  /\ request' = None
  /\ scattersSetModelData(RowsOf(request.q), config, Search)
  /\ IF request.toUrl THEN updateURL(held[Search].cfg) ELSE KeepURL
  /\ overtaken' = (overtaken \/ (request.toUrl /\ OvertakenBy(request)))
  /\ status' = "Ok"
  /\ liveUpdateStart(request.q)
  /\ UNCHANGED <<storedTable, edits, repo, service>>

\* The reader fails, or the server refuses, or there is no connection: caught,
\* and the live update that was stopped for the search stays stopped.
ScattersBreak ==
  /\ request # None /\ request.phase = "reading"
  /\ request' = None /\ Release(Search)
  /\ silent' = TRUE
  /\ UNCHANGED <<config, url, previous, storedTable, rawData, view, edits, overtaken,
                 repo, status, service, polling, polls>>

ScattersRefused ==
  /\ RequestRefused(request)
  /\ silent' = TRUE
  /\ UNCHANGED <<polling, polls>>

\* The cancel button.
scattersAbortRequest ==
  /\ User /\ status = "Pending"
  /\ request' = None /\ Release(Search)
  /\ status' = "Ok" /\ silent' = TRUE
  /\ UNCHANGED <<config, url, previous, storedTable, rawData, view, overtaken, repo,
                 service, polling, polls>>

-----------------------------------------------------------------------------
\* The grouping handlers of the scatters are the shared ones.
ScattersGrouping ==
  \E g \in Groups :
    \/ onGroupingSelectChange(g)
    \/ /\ ControlsEnabled
       /\ onGroupingModeChange(g) \/ onGroupingReset(g) \/ onGroupingApplyChange(g)

\* The scatters have no color indicator, no curve and no brush, but trendlines.
ScattersHandlers ==
  /\ SharedHandlers \/ ScattersGrouping \/ onChangeTrendlineOptions
  /\ UNCHANGED pageVars

ScattersSteps ==
  \/ PageSteps \/ ScattersHandlers
  \/ ScattersSearch \/ scattersArchiveRuns
  \/ ScattersArrive \/ ScattersBreak \/ ScattersRefused \/ scattersAbortRequest

SSInit == PEInit /\ page \in {"params", "scatters"}

SSNext ==
  \/ page = "params" /\ PENext /\ UNCHANGED page
  \/ page = "scatters" /\ ScattersSteps /\ UNCHANGED page

SSSpec == SSInit /\ [][SSNext]_ssVars
=============================================================================
