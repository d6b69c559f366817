---------------------------- MODULE ImagesExplorer ----------------------------
(***************************************************************************)
(* The images explorer (services/models/imagesExplore) beside the params   *)
(* and the scatters explorer: which of the three pages it is, is chosen at *)
(* the start.  Its model is an older copy of theirs: a search holds the    *)
(* config object itself and makes it the model's again when it ends, the   *)
(* search form leaves the page before the address, there is no live update.*)
(* Its images object is the chart here, and sits in the address likewise.  *)
(***************************************************************************)
EXTENDS ScattersExplorer

VARIABLES
  queryIsEmpty, \* the last search had no query and emptied the page
  unwritten     \* ghost: it took the grouping away, which the address has still

isVars == <<ssVars, queryIsEmpty, unwritten>>

\* What a search asks; the object it holds says whether it is the model's still.
ImagesRequests == [q : Selects, toUrl : BOOLEAN, phase : {"fetching", "reading"}]
ASSUME NoneIsNoImagesRequest == None \notin ImagesRequests

\* Whatever is written into the address has the grouping of now.
Written == unwritten' = (unwritten /\ url' # UrlOf(config'))

-----------------------------------------------------------------------------
(* What the page shows depends on the config in two places: the images and *)
(* the rows of the table are grouped as the model's config m says, the     *)
(* columns are those of the config c the table is made with.               *)

imagesGroupData(m) == [grouping |-> m.grouping, align |-> m.chart.align.type]
imagesProcessData(rows, m) ==
  [rows |-> rows, look |-> m.chart.look, groups |-> imagesGroupData(m)]
imagesTableRows(c) == [cols |-> c.table.cols, system |-> c.table.system]
ImagesViewOf(rows, m, c) ==
  [data |-> imagesProcessData(rows, m), table |-> imagesTableRows(c)]

\* updateModelData, with the config the model has by then.
imagesUpdateModelData(c) == view' = ImagesViewOf(rawData, c, c)

\* A handler that computes everything again, and the address follows.
ImagesAssign(new, replaced) ==
  /\ User
  /\ Write(new, replaced) /\ imagesUpdateModelData(new) /\ updateURL(new)
  /\ UNCHANGED <<storedTable, rawData, overtaken>>

-----------------------------------------------------------------------------
(* The search *)

\* setModelData, with the config the search holds: it becomes the model's again,
\* with a new images object of the ranges found.
imagesSetModelData(rows, hd, new) ==
  /\ rawData' = rows
  /\ view' = ImagesViewOf(rows, config, hd.cfg)
  /\ Return(Search, new, {"chart"})

\* What a search without a query leaves of the config c.
imagesEmptied(c) == [c EXCEPT !.grouping = getConfig.grouping, !.table.size = 0]

\* getImagesData before the first await, on the config c: the former request is
\* aborted.  Without a query the page is emptied, but the rows are kept, and the
\* address is not written.
getImagesData(c, replaced, toUrl) ==
  IF c.select = None
  THEN /\ request' = None
       /\ WriteAndRelease(Search, imagesEmptied(c), replaced \cup {"config", "grouping"})
       /\ view' = ImagesViewOf(None, config', config')
       /\ queryIsEmpty' = TRUE /\ unwritten' = TRUE
       /\ UNCHANGED status
  ELSE /\ request' = [q |-> c.select, toUrl |-> toUrl, phase |-> "fetching"]
       /\ WriteAndHold(Search, c, replaced)
       /\ status' = "Pending" /\ queryIsEmpty' = FALSE
       /\ UNCHANGED <<view, unwritten>>

\* The search button, handleSearch of SelectForm.tsx.
ImagesSearch ==
  /\ User /\ ControlsEnabled
  /\ \E q \in Selects :
       getImagesData([config EXCEPT !.select = q], {"config", "select", "chart"}, TRUE)
  /\ KeepURL /\ UNCHANGED <<storedTable, rawData, overtaken, repo, service, liveVars>>

\* The panel of ranges is there while images are; its button searches again.
ImagesApply ==
  /\ User /\ ControlsEnabled
  /\ ~queryIsEmpty /\ view.data.rows # None
  /\ getImagesData(config, {}, TRUE)
  /\ KeepURL /\ UNCHANGED <<storedTable, rawData, overtaken, repo, service, liveVars>>

\* archiveRuns and deleteRuns: their answer makes the page search again.
imagesArchiveRuns ==
  /\ User /\ view.data.rows # None
  /\ repo < MaxRepo /\ repo' = repo + 1
  /\ getImagesData(config, {}, FALSE)
  /\ KeepURL /\ UNCHANGED <<storedTable, rawData, overtaken, service, liveVars>>

\* The rows have come.  Changes made in copies of the held config are lost.
ImagesArrive ==
  /\ request # None /\ request.phase = "reading"
  /\ request' = None
  /\ \E d \in Looks :
       LET new == [held[Search].cfg EXCEPT !.chart.density = d, !.chart.extent = TRUE]
       IN /\ imagesSetModelData(RowsOf(request.q), held[Search], new)
          /\ IF request.toUrl THEN updateURL(new) ELSE KeepURL
  /\ overtaken' = (overtaken \/ held[Search].same["config"] # 0)
  /\ status' = "Ok"
  /\ UNCHANGED <<storedTable, edits, repo, service, liveVars, queryIsEmpty>>
  /\ Written

\* The reader fails: caught, and nothing is set.
ImagesBreak ==
  /\ request # None /\ request.phase = "reading"
  /\ request' = None /\ Release(Search)
  /\ UNCHANGED <<config, url, previous, storedTable, rawData, view, edits, overtaken,
                 repo, status, service, liveVars, queryIsEmpty, unwritten>>

\* The rows go, the config stays.
imagesResetModelState == rawData' = None /\ view' = ImagesViewOf(None, config, config)

\* No connection, or a status of 400 or more.
ImagesRefused ==
  /\ request # None /\ request.phase = "fetching"
  /\ request' = None /\ Release(Search)
  /\ imagesResetModelState
  /\ status' = "BadRequest"
  /\ UNCHANGED <<config, url, previous, storedTable, edits, overtaken, repo, service,
                 liveVars, queryIsEmpty, unwritten>>

\* The cancel button.
imagesAbortRequest ==
  /\ User /\ status = "Pending"
  /\ request' = None /\ Release(Search)
  /\ status' = "Ok"
  /\ UNCHANGED <<config, url, previous, storedTable, rawData, view, overtaken, repo,
                 service, liveVars, queryIsEmpty, unwritten>>

ImagesResponseBegins == ResponseBegins /\ UNCHANGED <<queryIsEmpty, unwritten>>

-----------------------------------------------------------------------------
(* Grouping *)

\* updateModelData(config, true) and then, with no field left to stack by,
\* onStackingToggle: the address is written twice.
UpdateAndUnstack(new) ==
  IF new.chart.stacking /\ new.grouping.fields = {}
  THEN LET flat == [new EXCEPT !.chart.stacking = FALSE]
       IN /\ User
          /\ config' = flat
          /\ held' = [h \in Holders |->
                        IF held[h] = None THEN None
                        ELSE Follow(Follow(held[h], new, {"grouping"}), flat,
                                    {"config", "chart"})]
          /\ imagesUpdateModelData(new)
          /\ url' = UrlOf(flat) /\ previous' = <<UrlOf(new)>>
          /\ UNCHANGED <<storedTable, rawData, overtaken>>
  ELSE ImagesAssign(new, {"grouping"})

imagesOnGroupingSelectChange(g) ==
  \E filled \in BOOLEAN :
    UpdateAndUnstack([config EXCEPT !.grouping.fields =
                        IF filled THEN @ \cup {g} ELSE @ \ {g}])

imagesOnGroupingModeChange ==
  \E v \in Looks : UpdateAndUnstack([config EXCEPT !.grouping.look = v])

\* The stacking stays, as it does when the configuration is reset.
imagesOnGroupingApplyChange(g) ==
  ImagesAssign([config EXCEPT !.grouping.applied = IF g \in @ THEN @ \ {g} ELSE @ \cup {g}],
               {"grouping"})

imagesOnResetConfigData ==
  ImagesAssign([config EXCEPT !.grouping = getConfig.grouping], {"grouping"})

-----------------------------------------------------------------------------
(* The images *)

onImageSizeChange == \E v \in Looks : ReplaceAndShow([config EXCEPT !.chart.deco = v])
onImageRenderingChange == \E v \in Looks : ReplaceAndShow([config EXCEPT !.chart.deco = v])
onImageAlignmentChange == \E v \in Looks : ReplaceAndShow([config EXCEPT !.chart.deco = v])
imagesOnChangeTooltip == \E v \in Looks : ReplaceAndShow([config EXCEPT !.chart.deco = v])

\* The button is there while the images are grouped.
onStackingToggle ==
  /\ view.data.groups.grouping.fields \cap view.data.groups.grouping.applied # {}
  /\ ReplaceAndShow([config EXCEPT !.chart.stacking = ~@])

\* The address is written when an image gets or loses the focus.
imagesOnActivePointChange ==
  \E v \in Looks :
    LET new == [config EXCEPT !.chart.deco = v]
    IN /\ User
       /\ Write(new, {"config", "chart"})
       /\ IF new = config THEN KeepURL ELSE updateURL(new)
       /\ UNCHANGED <<storedTable, rawData, view, overtaken>>

updateImagesSortFields ==
  \E v \in Looks :
    ImagesAssign([config EXCEPT !.chart.deco = v], {"config", "chart"})

\* The ranges wait in the model for the button of their panel.
SetRange ==
  \E v \in Looks :
    /\ User
    /\ Write([config EXCEPT !.chart.density = v], {"config", "chart"})
    /\ KeepURL /\ UNCHANGED <<storedTable, rawData, view, overtaken>>

onSliceRangeChange == ControlsEnabled /\ ~queryIsEmpty /\ SetRange
onDensityChange == ControlsEnabled /\ ~queryIsEmpty /\ SetRange

-----------------------------------------------------------------------------
(* The table and the search form *)

\* Sorting is saved and goes into the address.
updateTableSortFields ==
  \E v \in Looks :
    LET new == [config EXCEPT !.table.cols = v]
    IN /\ User
       /\ Write(new, {"config"}) /\ setItemTable(new)
       /\ imagesUpdateModelData(new) /\ updateURL(new)
       /\ UNCHANGED <<rawData, overtaken>>

ImagesReplaceColumns ==
  \E v \in Looks :
    LET new == [config EXCEPT !.table.cols = v]
    IN ReplaceTable(new) /\ imagesUpdateModelData(new)

imagesUpdateColumnsWidths == ImagesReplaceColumns
imagesOnColumnsOrderChange == ImagesReplaceColumns
imagesOnColumnsVisibilityChange == onColumnsVisibilityChange({"fresh"})
imagesOnTableDiffShow == imagesOnColumnsVisibilityChange
imagesOnRowHeightChange == ReplaceWidget
imagesOnTableResizeEnd == ReplaceWidget
imagesOnTableResizeModeChange == ReplaceWidget

\* The form replaces the images object, too.
imagesReplaceSelect(q) ==
  /\ User
  /\ Write([config EXCEPT !.select = q], {"config", "select", "chart"})
  /\ KeepURL /\ UNCHANGED <<storedTable, rawData, view, overtaken>>

imagesOnSelectRunQueryChange == \E q \in Selects : imagesReplaceSelect(q)
imagesOnSelectAdvancedQueryChange == \E q \in Selects : imagesReplaceSelect(q)
onImagesExploreSelectChange == \E q \in Selects : imagesReplaceSelect(q)

\* Unlike in the other explorers the address follows at once.
imagesToggleSelectAdvancedMode ==
  \E q \in {config.select} \cup Queries :
    LET new == [config EXCEPT !.select = q]
    IN /\ User
       /\ Write(new, {"config", "select"}) /\ updateURL(new)
       /\ UNCHANGED <<storedTable, rawData, view, overtaken>>

-----------------------------------------------------------------------------
(* The page *)

\* The requests are aborted with the page; when it is opened again, initialize,
\* setDefaultAppConfigData and the first search.
ImagesReinitialize ==
  /\ User
  /\ LET new == setDefaultAppConfigData(getConfig, url)
     IN IF new.select = None
        THEN /\ WriteAndRelease(Search, imagesEmptied(new), Levels)
             /\ request' = None /\ status' = "NotRequested"
        ELSE /\ WriteAndHold(Search, new, Levels)
             /\ request' = [q |-> new.select, toUrl |-> FALSE, phase |-> "fetching"]
             /\ status' = "Pending"
  /\ rawData' = None /\ view' = ImagesViewOf(None, config', config')
  /\ queryIsEmpty' = (request' = None) /\ unwritten' = (request' = None)
  /\ KeepURL
  /\ UNCHANGED <<storedTable, overtaken, repo, service, liveVars>>

\* The form, the grouping and the bar are there always, the images and the table
\* as long as there are some.
ImagesHandlers ==
  /\ \/ /\ ControlsEnabled
        /\ \/ \E g \in Groups :
                imagesOnGroupingSelectChange(g) \/ imagesOnGroupingApplyChange(g)
           \/ imagesOnGroupingModeChange \/ imagesOnResetConfigData
           \/ imagesOnSelectRunQueryChange \/ imagesOnSelectAdvancedQueryChange
           \/ onImagesExploreSelectChange \/ imagesToggleSelectAdvancedMode
     \/ /\ view.data.rows # None
        /\ \/ \E g \in Groups : imagesOnGroupingSelectChange(g)
           \/ onImageSizeChange \/ onImageRenderingChange \/ onImageAlignmentChange
           \/ imagesOnChangeTooltip \/ imagesOnActivePointChange
           \/ onStackingToggle \/ updateImagesSortFields
           \/ onSliceRangeChange \/ onDensityChange
           \/ updateTableSortFields \/ imagesUpdateColumnsWidths
           \/ imagesOnColumnsOrderChange \/ imagesOnColumnsVisibilityChange
           \/ imagesOnTableDiffShow \/ imagesOnRowHeightChange
           \/ imagesOnTableResizeEnd \/ imagesOnTableResizeModeChange
           \/ onRunsTagsChange
     \/ Back(FALSE)
  /\ UNCHANGED <<pageVars, queryIsEmpty>>
  /\ Written

ImagesOthersChange == OthersChangeRepository /\ UNCHANGED <<queryIsEmpty, unwritten>>

ImagesSteps ==
  \/ ImagesHandlers \/ ImagesSearch \/ ImagesApply \/ imagesArchiveRuns
  \/ ImagesResponseBegins \/ ImagesArrive \/ ImagesBreak \/ ImagesRefused
  \/ imagesAbortRequest
  \/ ImagesOthersChange \/ ImagesReinitialize

ISInit ==
  /\ PEInit
  /\ page \in {"params", "scatters", "images"}
  /\ queryIsEmpty = FALSE /\ unwritten = FALSE

ISNext ==
  \/ page # "images" /\ SSNext /\ UNCHANGED <<queryIsEmpty, unwritten>>
  \/ page = "images" /\ ImagesSteps /\ UNCHANGED page

ISSpec == ISInit /\ [][ISNext]_isVars

-----------------------------------------------------------------------------
\* What the address has of ranges (of a brush, on the params page) the page has too.
ExtentOnPage == url # None => (url.chart.extent => config.chart.extent)

\* Address and data follow the configuration on these pages too, whose handlers
\* and searches replace other objects than those of the metrics explorer.  On
\* the images page not while a search without a query has taken the grouping
\* away, and after such a search the rows are there, but are not shown.  The params
\* page drops its brush when it is grouped and when rows come, and does not write
\* the address (ReloadKeepsBrush): there a reload brings the brush back.
PlacesAgree ==
  /\ PETypeOK
  /\ queryIsEmpty \in BOOLEAN /\ unwritten \in BOOLEAN
  /\ ~unwritten => UrlShowsConfig
  /\ page = "images" => ExtentOnPage
  /\ ViewFollowsConfig
  /\ ~overtaken => view.data.rows \in {rawData} \cup (IF page = "images" THEN {None} ELSE {})

\* Refuted by what the params page does: a reload shows the chart of now.
ReloadKeepsBrush == ~overtaken => ExtentOnPage
=============================================================================
