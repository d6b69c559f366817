--------------------------- MODULE ExplorerConfig ---------------------------
(***************************************************************************)
(* The configuration of an explorer page and the handlers of its controls  *)
(* (utils/app/on*.ts), shared by the metrics, params and scatters explorers*)
(* of services/models/explorer; the images explorer has copies of its own. *)
(*                                                                         *)
(* The configuration is kept in five places: the model's config object,    *)
(* the URL (select, grouping, chart), localStorage (table), the data the   *)
(* page shows, which is computed from it, and the config objects that      *)
(* requests under way have taken hold of.  Some handlers assign to the     *)
(* fields of the config object, some put a changed copy in its place:      *)
(* whether a request sees a change depends on it.  So objects have         *)
(* identities here.                                                        *)
(***************************************************************************)
EXTENDS Naturals, FiniteSets

CONSTANTS
  Holders,    \* the requests that keep a config object while they wait
  Queries,    \* the non-empty search strings
  Metrics,    \* the metrics the x axis can be aligned by
  Groups,     \* the names of groupings: color, stroke, chart; row of the images
  Grouped0,   \* the groupings that have a field by default: chart of the metrics
  Aggregates, \* the explorer has aggregation (metrics only)
  None,
  MaxEdits    \* bound: operations of the user

ASSUME ConfigConstants == /\ Aggregates \in BOOLEAN /\ MaxEdits \in Nat
                          /\ IsFiniteSet(Holders) /\ Grouped0 \subseteq Groups
ASSUME NoneIsNothing == None \notin Queries \cup Metrics

VARIABLES
  config,      \* model.getState().config
  held,        \* for each request the config object it holds, or None
  url,         \* the page's address: its select, grouping and chart, or None
  previous,    \* the browser's history: the address one step back, if any
  storedTable, \* the table part in localStorage, or None
  rawData,     \* rawData
  view,        \* what data, lineChartData and tableData were computed from
  edits,       \* ghost: operations of the user so far
  overtaken    \* ghost: an answer met a config or rows newer than its own

configVars == <<config, held, url, previous, storedTable, rawData, view, edits, overtaken>>

-----------------------------------------------------------------------------
(* Objects *)

Levels == {"config", "select", "grouping", "chart", "agg"}
Looks == 0..1  \* the values of a setting whose meaning does not matter here

\* select: the search string.  grouping: the groupings with fields, those that
\* are applied, and the rest (palette, seed, persistence, reverse mode).
\* agg: aggregationConfig.  align: alignmentConfig.  look: the chart's settings
\* the shown data are computed with; deco: those that need no computation;
\* extent: a setting that has no value at first (an axis range, a brush).
\* stacking: the images of a group lie upon each other.
\* table: cols for columns, sorting and hidden rows, size for the widget itself,
\* system for hideSystemMetrics and the hidden columns: none hidden so far (where
\* that is so by default), all system metrics hidden, or shown by the user.
Selects == Queries \cup {None}
Groupings == [fields : SUBSET Groups, applied : SUBSET Groups, look : Looks]
Alignment == [type : {"step", "epoch", "custom"}, metric : Metrics \cup {None}]
Charts == [agg : [enabled : BOOLEAN, applied : BOOLEAN],
           align : Alignment,
           density : Looks, zoomed : BOOLEAN, extent : BOOLEAN, stacking : BOOLEAN,
           look : Looks, deco : Looks]
Tables == [cols : Looks, size : Looks, system : {"fresh", "hidden", "shown"}]
Configs == [select : Selects, grouping : Groupings, chart : Charts, table : Tables,
            live : BOOLEAN]
Urls == [select : Selects, grouping : Groupings, chart : Charts]

\* held[h].same[l] is 0 while the object of level l is still the model's own;
\* two requests with the same number share one the model has dropped.
Held == [cfg : Configs, same : [Levels -> 0..Cardinality(Holders)]]
ASSUME NoneIsNotHeld == None \notin Held

\* The default aggregation is disabled even where the default grouping is applied.
getConfig ==
  [select |-> None,
   grouping |-> [fields |-> Grouped0, applied |-> Groups, look |-> 0],
   chart |-> [agg |-> [enabled |-> FALSE, applied |-> FALSE],
              align |-> [type |-> "step", metric |-> None],
              density |-> 0, zoomed |-> FALSE, extent |-> FALSE, stacking |-> FALSE,
              look |-> 0, deco |-> 0],
   table |-> [cols |-> 0, size |-> 0, system |-> "fresh"],
   live |-> FALSE]

Waiting == {h \in Holders : held[h] # None}

\* A number for the model's present object of a level, once it is dropped.
Dropped(l) ==
  CHOOSE n \in 1..Cardinality(Holders) : \A h \in Waiting : held[h].same[l] # n

\* What a request holds after the model's config has become new, the objects of
\* the levels in replaced being new ones.
Follow(hd, new, replaced) ==
  IF hd.same["config"] = 0 /\ "config" \notin replaced
  THEN [hd EXCEPT !.cfg = new]
  ELSE LET same == [l \in Levels |-> IF hd.same[l] = 0 /\ l \in replaced
                                     THEN Dropped(l) ELSE hd.same[l]]
       IN [same |-> same,
           cfg |-> [hd.cfg EXCEPT
             !.select = IF same["select"] = 0 THEN new.select ELSE @,
             !.grouping = IF same["grouping"] = 0 THEN new.grouping ELSE @,
             !.chart = IF same["chart"] = 0 THEN new.chart
                       ELSE IF same["agg"] = 0 THEN [@ EXCEPT !.agg = new.chart.agg]
                       ELSE @]]

\* Assignments to the config object or below it, or a changed copy of it.
Write(new, replaced) ==
  /\ config' = new
  /\ held' = [h \in Holders |-> IF held[h] = None THEN None
                                ELSE Follow(held[h], new, replaced)]

\* What the others share once the object a request holds is the model's config:
\* what they shared with the request is the model's, and what was the model's is
\* dropped and takes the number.
Rebase(hd, base) ==
  [hd EXCEPT !.same = [l \in Levels |->
     IF @[l] = base.same[l] THEN 0 ELSE IF @[l] = 0 THEN base.same[l] ELSE @[l]]]

\* The request o ends and makes new, based on what it held, the model's config.
Return(o, new, replaced) ==
  /\ config' = new
  /\ held' = [h \in Holders |->
                IF h = o \/ held[h] = None THEN None
                ELSE Follow(Rebase(held[h], held[o]), new, replaced)]

\* The same, and the request o takes hold of the model's config.
WriteAndHold(o, new, replaced) ==
  /\ config' = new
  /\ held' = [h \in Holders |->
                IF h = o THEN [cfg |-> new, same |-> [l \in Levels |-> 0]]
                ELSE IF held[h] = None THEN None ELSE Follow(held[h], new, replaced)]

\* The same, and the request o lets go of what it held.
WriteAndRelease(o, new, replaced) ==
  /\ config' = new
  /\ held' = [h \in Holders |-> IF h = o \/ held[h] = None THEN None
                                ELSE Follow(held[h], new, replaced)]

Release(h) == held' = [held EXCEPT ![h] = None]

-----------------------------------------------------------------------------
(* Shared helpers *)

UrlOf(c) == [select |-> c.select, grouping |-> c.grouping, chart |-> c.chart]

\* updateURL and updateUrlParam: an address that does not change is not pushed.
updateURL(c) ==
  /\ url' = UrlOf(c)
  /\ previous' = IF url' = url THEN previous ELSE <<url>>
KeepURL == UNCHANGED <<url, previous>>

setItemTable(c) == storedTable' = c.table

isGroupingApplied(c) == c.grouping.fields \cap c.grouping.applied # {}

\* setAggregationEnabled, on the aggregation object the config holds.
setAggregationEnabled(c) ==
  IF ~Aggregates THEN c
  ELSE [c EXCEPT !.chart.agg = [enabled |-> isGroupingApplied(c),
                                applied |-> @.applied /\ isGroupingApplied(c)]]

resetChartZoom(c) == [c EXCEPT !.chart.zoomed = FALSE]

\* What the page shows depends on the config in four places: alignData on the
\* alignment, groupData on the grouping, processData, which calls them, on the
\* smoothing, the scale and the like, getDataAsTableRows on the columns.
alignData(c) == c.chart.align.type
groupData(c) == [grouping |-> c.grouping, align |-> alignData(c)]
processData(rows, c) == [rows |-> rows, look |-> c.chart.look, groups |-> groupData(c)]
getDataAsTableRows(c) == [cols |-> c.table.cols, system |-> c.table.system]

\* They read the model's own config: by then it is c.
ViewOf(rows, c) == [data |-> processData(rows, c), table |-> getDataAsTableRows(c)]

\* updateModelData
Recompute(c) == view' = ViewOf(rawData, c)

User == edits < MaxEdits /\ edits' = edits + 1

\* A handler that assigns in place: everything is computed again, the URL follows.
AssignAndRecompute(new, replaced) ==
  /\ User
  /\ Write(new, replaced) /\ Recompute(new) /\ updateURL(new)
  /\ UNCHANGED <<storedTable, rawData, overtaken>>

\* A handler that sets a changed copy and the URL, and computes nothing.
ReplaceAndShow(new) ==
  /\ User
  /\ Write(new, {"config", "chart"}) /\ updateURL(new)
  /\ UNCHANGED <<storedTable, rawData, view, overtaken>>

\* A handler of the table: a changed copy, saved in localStorage.
ReplaceTable(new) ==
  /\ User
  /\ Write(new, {"config"}) /\ setItemTable(new)
  /\ KeepURL /\ UNCHANGED <<rawData, overtaken>>

-----------------------------------------------------------------------------
(* Grouping.  Every one of them ends with setAggregationEnabled, the       *)
(* shuffle excepted.                                                       *)

Grouped(new, replaced) == AssignAndRecompute(setAggregationEnabled(new), replaced)

onGroupingSelectChange(g) ==
  \E filled \in BOOLEAN :
    LET fields == IF filled THEN config.grouping.fields \cup {g}
                  ELSE config.grouping.fields \ {g}
    IN Grouped(resetChartZoom([config EXCEPT !.grouping.fields = fields]),
               {"grouping", "chart"})

\* The grouping object itself stays; only grouping by chart resets the zoom.
onGroupingModeChange(g) ==
  \E v \in Looks :
    LET new == [config EXCEPT !.grouping.look = v]
    IN IF g = "chart" THEN Grouped(resetChartZoom(new), {"chart"}) ELSE Grouped(new, {})

onGroupingReset(g) ==
  Grouped([config EXCEPT !.grouping.fields = @ \ {g}, !.grouping.applied = @ \cup {g},
                         !.grouping.look = 0],
          {"grouping"})

\* Mutant: the aggregation does not follow.
onGroupingApplyChange_Plain(g) ==
  AssignAndRecompute([config EXCEPT !.grouping.applied =
                        IF g \in @ THEN @ \ {g} ELSE @ \cup {g}],
                     {"grouping"})

onGroupingApplyChange(g) ==
  Grouped([config EXCEPT !.grouping.applied =
             IF g \in @ THEN @ \ {g} ELSE @ \cup {g}],
          {"grouping"})

onGroupingPaletteChange ==
  \E v \in Looks : Grouped([config EXCEPT !.grouping.look = v], {"grouping"})

onGroupingPersistenceChange ==
  Grouped([config EXCEPT !.grouping.look = 1 - @], {"grouping"})

onShuffleChange ==
  AssignAndRecompute([config EXCEPT !.grouping.look = 1 - @], {"grouping"})

-----------------------------------------------------------------------------
(* The chart *)

\* onResetConfigData: grouping and chart become the defaults again.
onResetConfigData ==
  AssignAndRecompute([config EXCEPT !.grouping = getConfig.grouping,
                                    !.chart = getConfig.chart],
                     {"grouping", "chart", "agg"})

\* The button is there only while the grouping is applied (Controls.tsx).
onAggregationConfigChange ==
  /\ config.chart.agg.enabled
  /\ \E applied \in BOOLEAN, v \in Looks :
       AssignAndRecompute([config EXCEPT !.chart.agg.applied = applied, !.chart.look = v],
                          {"chart", "agg"})

\* With another alignment the axis range and the zoom history are dropped.
onAlignmentTypeChange ==
  \E type \in {"step", "epoch"} :
    AssignAndRecompute([config EXCEPT !.chart.align = [type |-> type, metric |-> None],
                                      !.chart.extent = FALSE, !.chart.zoomed = FALSE],
                       {"chart"})

onSmoothingChange ==
  \E v \in Looks : AssignAndRecompute([config EXCEPT !.chart.look = v], {"chart"})

\* The chart object itself is changed.
onIgnoreOutliersChange == AssignAndRecompute([config EXCEPT !.chart.look = 1 - @], {})

onLegendsChange ==
  \E v \in Looks : AssignAndRecompute([config EXCEPT !.chart.look = v], {"chart"})

onAxesScaleTypeChange ==
  \E v \in Looks :
    AssignAndRecompute([config EXCEPT !.chart.look = v], {"config", "chart"})

onAxesScaleRangeChange == ReplaceAndShow([config EXCEPT !.chart.extent = TRUE])

\* Mutant: the URL does not follow.
onZoomChange_NoURL ==
  \E z \in BOOLEAN :
    /\ User
    /\ Write([config EXCEPT !.chart.zoomed = z], {"config", "chart"})
    /\ KeepURL /\ UNCHANGED <<storedTable, rawData, view, overtaken>>

onZoomChange == \E z \in BOOLEAN : ReplaceAndShow([config EXCEPT !.chart.zoomed = z])

onHighlightModeChange ==
  \E v \in Looks : ReplaceAndShow([config EXCEPT !.chart.deco = v])

onChangeTooltip ==
  \E v \in Looks : ReplaceAndShow([config EXCEPT !.chart.deco = v])

onChangeTrendlineOptions ==
  \E v \in Looks : ReplaceAndShow([config EXCEPT !.chart.deco = v])

\* onActivePointChange: the URL follows when a point gets or loses the focus.
onActivePointChange ==
  \E v \in Looks :
    LET new == [config EXCEPT !.chart.deco = v]
    IN /\ User
       /\ Write(new, {"config", "chart"})
       /\ IF new = config THEN KeepURL ELSE updateURL(new)
       /\ UNCHANGED <<storedTable, rawData, view, overtaken>>

\* A copy is passed on, and the data are computed from the model's config before
\* it: these settings are read when the chart is drawn.
PassCopy(new) ==
  /\ User
  /\ Write(new, {"config", "chart"})
  /\ Recompute(config) /\ updateURL(new)
  /\ UNCHANGED <<storedTable, rawData, overtaken>>

onColorIndicatorChange == PassCopy([config EXCEPT !.chart.deco = 1 - @])
onCurveInterpolationChange == PassCopy([config EXCEPT !.chart.deco = 1 - @])

\* The brush goes into the chart object first, then copies are passed on.
onAxisBrushExtentChange ==
  \E set \in BOOLEAN : PassCopy([config EXCEPT !.chart.extent = set])

-----------------------------------------------------------------------------
(* The table *)

ReplaceColumns ==
  \E v \in Looks :
    LET new == [config EXCEPT !.table.cols = v] IN ReplaceTable(new) /\ Recompute(new)

\* Mutants: the change is not saved, and nothing is computed again.
onColumnsOrderChange_NotSaved ==
  \E v \in Looks :
    LET new == [config EXCEPT !.table.cols = v]
    IN /\ User /\ Write(new, {"config"}) /\ Recompute(new)
       /\ KeepURL /\ UNCHANGED <<storedTable, rawData, overtaken>>
onColumnsOrderChange_NotShown ==
  \E v \in Looks :
    ReplaceTable([config EXCEPT !.table.cols = v]) /\ UNCHANGED view

onColumnsOrderChange == ReplaceColumns
onMetricVisibilityChange == ReplaceColumns
onParamVisibilityChange == ReplaceColumns
onRowVisibilityChange == ReplaceColumns
onRowsVisibilityChange == ReplaceColumns
updateColumnsWidths == ReplaceColumns
updateSortFields == ReplaceColumns

\* Columns are hidden or shown; also the system metrics, where the page has them.
onColumnsVisibilityChange(systems) ==
  \E v \in Looks, s \in systems :
    LET new == [config EXCEPT !.table.cols = v, !.table.system = s]
    IN ReplaceTable(new) /\ Recompute(new)

\* onTableDiffShow: the same with the columns that have one value only.
onTableDiffShow(systems) == onColumnsVisibilityChange(systems)

ReplaceWidget ==
  \E v \in Looks :
    ReplaceTable([config EXCEPT !.table.size = v]) /\ UNCHANGED view

onRowHeightChange == ReplaceWidget
onTableResizeEnd == ReplaceWidget
onTableResizeModeChange == ReplaceWidget

\* onSortFieldsChange of the params explorer does not save what it sets.
onSortFieldsChange ==
  \E v \in Looks :
    LET new == [config EXCEPT !.table.cols = v]
    IN /\ User /\ Write(new, {"config"}) /\ Recompute(new)
       /\ KeepURL /\ UNCHANGED <<storedTable, rawData, overtaken>>

-----------------------------------------------------------------------------
(* The search form: the model only, until the search. *)

ReplaceSelect(q) ==
  /\ User
  /\ Write([config EXCEPT !.select = q], {"config", "select"})
  /\ KeepURL /\ UNCHANGED <<storedTable, rawData, view, overtaken>>

onSelectRunQueryChange == \E q \in Selects : ReplaceSelect(q)
onSelectAdvancedQueryChange == \E q \in Selects : ReplaceSelect(q)
onSelectOptionsChange == \E q \in Selects : ReplaceSelect(q)

\* toggleSelectAdvancedMode: the other form takes over the string, or shows one
\* that was typed there before.
toggleSelectAdvancedMode == \E q \in {config.select} \cup Queries : ReplaceSelect(q)

-----------------------------------------------------------------------------
(* The page *)

\* setDefaultAppConfigData: an address and localStorage are merged over c.  The
\* clone has no object in common with c.  A setting without a value is not in
\* the address, so that the one of c remains.
setDefaultAppConfigData(c, address) ==
  LET shown == IF address = None THEN UrlOf(c) ELSE address
  IN [select |-> shown.select, grouping |-> shown.grouping,
      chart |-> [shown.chart EXCEPT !.extent = @ \/ c.chart.extent],
      table |-> IF storedTable = None THEN getConfig.table ELSE storedTable,
      live |-> c.live]

\* The listener of the browser's history (MetricsContainer.tsx and its likes).
\* The data are computed again, the server is not asked again.  live is what
\* localStorage has of the live update.
Back(live) ==
  /\ User
  /\ previous # <<>>
  /\ url' = previous[1] /\ previous' = <<>>
  /\ LET new == setDefaultAppConfigData([config EXCEPT !.live = live], url')
     IN Write(new, Levels) /\ Recompute(new)
  /\ UNCHANGED <<storedTable, rawData, overtaken>>

\* onRunsTagsChange: the rows become new objects, the data are computed again.
onRunsTagsChange ==
  /\ User
  /\ Recompute(config)
  /\ UNCHANGED <<config, held, url, previous, storedTable, rawData, overtaken>>

ConfigInit ==
  /\ storedTable = None /\ url = None /\ previous = <<>>
  /\ config = getConfig
  /\ held = [h \in Holders |-> None]
  /\ rawData = None /\ view = ViewOf(None, getConfig)
  /\ edits = 0 /\ overtaken = FALSE

-----------------------------------------------------------------------------
(* What holds of the five places *)

ConfigTypeOK ==
  /\ config \in Configs
  /\ \A h \in Holders : held[h] = None \/ held[h] \in Held
  /\ url = None \/ url \in Urls
  /\ \A i \in DOMAIN previous : i = 1 /\ (previous[1] = None \/ previous[1] \in Urls)
  /\ storedTable = None \/ storedTable \in Tables
  /\ edits \in Nat /\ overtaken \in BOOLEAN

\* The address shows the grouping and the chart of the page, whichever way a
\* handler changes them and whichever request ends in between: a reload, a shared
\* link or the Back button gives the same chart.  Not before a request that
\* changes the alignment or the density has ended, and not when an answer has
\* overwritten the work of the user.  Rows that arrive enable the aggregation of
\* the default grouping after the address was written.  The axis range and the
\* brush (extent) are left out: a step back keeps a range that the address lacks,
\* and the params page drops its brush without writing the address.
UrlShowsConfig ==
  ~overtaken /\ url # None =>
    /\ url.grouping = config.grouping
    /\ url.chart.agg.applied = config.chart.agg.applied
    /\ url.chart.agg.enabled => config.chart.agg.enabled
    /\ url.chart.zoomed = config.chart.zoomed
    /\ url.chart.stacking = config.chart.stacking
    /\ url.chart.look = config.chart.look
    /\ url.chart.deco = config.chart.deco

\* The data on the page were computed from the rows, the grouping, the chart and
\* the table the model has now, although handlers compute them from one config
\* object and set another.
ViewFollowsConfig ==
  ~overtaken =>
    /\ view.data.groups.grouping = config.grouping
    /\ view.data.look = config.chart.look
    /\ view.table = getDataAsTableRows(config)

ViewShowsConfig == ViewFollowsConfig /\ (~overtaken => view.data.rows = rawData)

\* Every change of the table is in localStorage, also while requests end.  Not
\* the size when a failed search resets it, and not the system metrics when the
\* page hides them by itself.
StoredTableIsConfig ==
  ~overtaken /\ storedTable # None =>
    /\ storedTable.cols = config.table.cols
    /\ config.table.size \in {storedTable.size, 0}
    /\ storedTable.system = config.table.system
         \/ (storedTable.system = "fresh" /\ config.table.system = "hidden")

\* Lines are aggregated only while they are grouped, and grouped lines can be
\* aggregated.  Not so under the default grouping, at the start and after a reset:
\* there the aggregation stays disabled until rows arrive or the grouping changes.
AggregationNeedsGrouping ==
  ~overtaken /\ Aggregates =>
    /\ config.chart.agg.applied => config.chart.agg.enabled
    /\ config.chart.agg.enabled => isGroupingApplied(config)
    /\ isGroupingApplied(config) /\ ~config.chart.agg.enabled =>
         /\ config.grouping.fields = getConfig.grouping.fields
         /\ config.grouping.applied = getConfig.grouping.applied
=============================================================================
