------------------------ MODULE ImagesExplorer_proofs ------------------------
(***************************************************************************)
(* Theorems about the params, the scatters and the images explorer, for    *)
(* any queries, groupings, versions of the repository and edits: address   *)
(* and data follow the configuration (PlacesAgree), the switch of the live *)
(* update says whether there is one (SwitchIsTrue), and what a search has  *)
(* stopped goes on after it (LiveUpdateResumes).                           *)
(*                                                                         *)
(* A search of the params and the scatters explorer holds a copy of the    *)
(* configuration and puts it into the address, or back into the model, when*)
(* it ends.  This is sound as long as the user has done nothing meanwhile: *)
(* then only the live update has changed the configuration, and nothing    *)
(* in it that the address shows (CopiesAgree).  The images explorer holds  *)
(* the object itself, and knows whether it is the model's still.           *)
(***************************************************************************)
EXTENDS ImagesExplorer, ExplorerConfig_proofs

-----------------------------------------------------------------------------
(* The inductive invariant. *)

PagesTyped ==
  /\ PlacesTyped
  /\ page \in {"params", "scatters", "images"}
  /\ repo \in 0..MaxRepo /\ polls \subseteq Selects
  /\ polling \in Selects \cup {"stopped"} /\ silent \in BOOLEAN
  /\ status \in {"NotRequested", "Pending", "Ok", "BadRequest"}
  /\ service \in [stored : BOOLEAN, on : BOOLEAN]
  /\ request \in (IF page = "images" THEN ImagesRequests ELSE Requests) \cup {None}
  /\ request = None <=> held[Search] = None
  /\ queryIsEmpty \in BOOLEAN /\ unwritten \in BOOLEAN

Agrees(c, d) == Addressed(c) = Addressed(d) /\ c.live = d.live

(* The copy a search holds, as long as the user has not gone on working.    *)
CopiesAgree ==
  page # "images" /\ request # None =>
    request.edits <= edits /\ (request.edits = edits => Agrees(held[Search].cfg, config))

AddressShown == ~unwritten /\ url # None => Addressed(url) = Addressed(config)

PagesAgree ==
  ~overtaken =>
    /\ AddressShown
    /\ Computed(view) = Viewed(config)
    /\ view.data.rows \in {rawData} \cup (IF page = "images" THEN {None} ELSE {})
    /\ service.on = config.live

(* localStorage and the switch tell the same; the images have neither, and   *)
(* only they empty the page without writing the address.                    *)
ServiceSound ==
  /\ service.stored = service.on
  /\ page = "images" => service.on = FALSE
  /\ page # "images" => unwritten = FALSE

ISInv == PagesTyped /\ CopiesAgree /\ PagesAgree /\ ServiceSound /\ LiveUpdateResumes

-----------------------------------------------------------------------------
(* A handler of a control on one of these pages. *)

(* The address becomes that of the new config; it may be pushed twice.      *)
Pushed ==
  /\ url' \in Urls \cup {None} /\ previous' \in {<<>>} \cup {<<u>> : u \in Urls \cup {None}}
  /\ url' # None => Addressed(url') = Addressed(config')

PageStep ==
  /\ config' \in Configs /\ HeldSound'
  /\ \A h \in Holders : held'[h] = None <=> held[h] = None
  /\ edits' = edits + 1 /\ UNCHANGED <<rawData, overtaken>>
  /\ Pushed \/ (KeepURL /\ Addressed(config') = Addressed(config))
  /\ Computed(view) = Viewed(config) => Computed(view') = Viewed(config')
  /\ view'.data.rows \in {rawData, view.data.rows}
  /\ storedTable' \in {storedTable, config'.table}
  /\ config'.live \in {config.live, service.stored}

(* An address that is pushed once.                                          *)
LEMMA PushedOnce ==
  ASSUME PlacesTyped, NEW c \in Configs, updateURL(c), config' = c
  PROVE  Pushed
BY UrlPushed, AddressOf DEF Pushed

(* What the handlers of all explorers have in common is enough.             *)
LEMMA HandlersStep ==
  ASSUME PlacesTyped, HandlerStep
  PROVE  PageStep
<1>1. /\ config' \in Configs /\ HeldSound'
      /\ \A h \in Holders : held'[h] = None <=> held[h] = None
      /\ edits' = edits + 1 /\ UNCHANGED <<rawData, overtaken>>
      /\ storedTable' \in {storedTable, config'.table} /\ config'.live = config.live
  BY DEF HandlerStep
<1>2. Pushed \/ (KeepURL /\ Addressed(config') = Addressed(config))
  BY <1>1, PushedOnce DEF HandlerStep
<1>3. CASE view' = ViewOf(rawData, config')
  <2>1. view'.data.rows = rawData /\ Computed(view') = Viewed(config')
    BY <1>3, ViewComputed
  <2> QED
    BY <1>1, <1>2, <2>1 DEF PageStep
<1>4. CASE view' = view /\ Viewed(config') = Viewed(config)
  <2>1. view'.data.rows = view.data.rows /\ Computed(view') = Computed(view)
    BY <1>4 DEF Computed
  <2> QED
    BY <1>1, <1>2, <1>4, <2>1 DEF PageStep
<1> QED
  BY <1>3, <1>4 DEF HandlerStep

(* A handler that writes new, of which the rest is left to show.            *)
LEMMA PageWrites ==
  ASSUME PlacesTyped, NEW new \in Configs, NEW replaced, User, Write(new, replaced),
         UNCHANGED <<rawData, overtaken>>, new.live = config.live,
         updateURL(new) \/ (KeepURL /\ Addressed(new) = Addressed(config)),
         \/ \E c : view' = ViewOf(rawData, c) /\ Viewed(c) = Viewed(new)
         \/ view' = view /\ Viewed(new) = Viewed(config),
         storedTable' \in {storedTable, new.table}
  PROVE  PageStep
<1>1. config' = new /\ HeldSound' /\ \A h \in Holders : held'[h] = None <=> held[h] = None
  BY AfterWrite DEF PlacesTyped, HeldSound
<1>2. edits' = edits + 1
  BY DEF User
<1>3. Pushed \/ (KeepURL /\ Addressed(config') = Addressed(config))
  BY <1>1, PushedOnce
<1>4. CASE \E c : view' = ViewOf(rawData, c) /\ Viewed(c) = Viewed(new)
  <2>1. PICK c : view' = ViewOf(rawData, c) /\ Viewed(c) = Viewed(new)
    BY <1>4
  <2>2. view'.data.rows = rawData /\ Computed(view') = Viewed(new)
    BY <2>1, ViewComputed
  <2> QED
    BY <1>1, <1>2, <1>3, <2>2 DEF PageStep
<1>5. CASE view' = view /\ Viewed(new) = Viewed(config)
  <2>1. view'.data.rows = view.data.rows /\ Computed(view') = Computed(view)
    BY <1>5 DEF Computed
  <2> QED
    BY <1>1, <1>2, <1>3, <1>5, <2>1 DEF PageStep
<1> QED
  BY <1>4, <1>5

(* Data are computed of the config before it, which the drawing settings do *)
(* not touch (onColorIndicatorChange and the like).                         *)
LEMMA CopyPassed ==
  ASSUME PlacesTyped, NEW new, ChartOnly(new), new.chart.look = config.chart.look, PassCopy(new)
  PROVE  PageStep
<1>1. Viewed(config) = Viewed(new) /\ new.live = config.live /\ new \in Configs
  BY DEF ChartOnly, Viewed, getDataAsTableRows
<1>2. /\ User /\ Write(new, {"config", "chart"}) /\ view' = ViewOf(rawData, config)
      /\ updateURL(new) /\ UNCHANGED <<storedTable, rawData, overtaken>>
  BY DEF PassCopy, Recompute
<1> QED
  BY <1>1, <1>2, PageWrites

(* A handler that assigns and computes everything again.                    *)
LEMMA PageAssigned ==
  ASSUME PlacesTyped, NEW new \in Configs, NEW replaced, AssignAndRecompute(new, replaced),
         new.live = config.live
  PROVE  PageStep
<1>1. /\ User /\ Write(new, replaced) /\ view' = ViewOf(rawData, new)
      /\ updateURL(new) /\ UNCHANGED <<storedTable, rawData, overtaken>>
  BY DEF AssignAndRecompute, Recompute
<1> QED
  BY <1>1, PageWrites

(* The handlers of the params and the scatters explorer.                    *)
LEMMA SharedHandled ==
  ASSUME PlacesTyped, SharedHandlers
  PROVE  PageStep
<1>1. HeldSound /\ HeldTyped /\ edits \in Nat /\ config \in Configs
  BY DEF PlacesTyped, HeldSound
<1>2. CASE ControlHandlers
  BY <1>1, <1>2, GroupingHandled, ResetHandled, SelectHandled, HandlersStep DEF ControlHandlers
<1>3. CASE onChangeTooltip \/ onActivePointChange
  BY <1>1, <1>3, ChartHandled, HandlersStep
<1>4. {"hidden", "shown"} \in SUBSET {"fresh", "hidden", "shown"}
  OBVIOUS
<1>5. CASE \/ onColumnsVisibilityChange({"hidden", "shown"}) \/ onTableDiffShow({"hidden", "shown"})
           \/ ReplaceColumns \/ ReplaceWidget
  BY <1>1, <1>4, <1>5, TableHandled, HandlersStep
<1>6. CASE onSortFieldsChange
  <2>1. PICK v \in Looks :
          LET new == [config EXCEPT !.table.cols = v]
          IN /\ User /\ Write(new, {"config"}) /\ Recompute(new)
             /\ KeepURL /\ UNCHANGED <<storedTable, rawData, overtaken>>
    BY <1>6 DEF onSortFieldsChange
  <2> DEFINE new == [config EXCEPT !.table.cols = v]
  <2>2. TableOnly(new)
    BY <1>1, ConfigFields DEF TableOnly, Configs, Tables
  <2> HIDE DEF new
  <2>3. /\ User /\ Write(new, {"config"}) /\ view' = ViewOf(rawData, new)
        /\ KeepURL /\ UNCHANGED <<storedTable, rawData, overtaken>>
    BY <2>1 DEF new, Recompute
  <2>4. new \in Configs /\ new.live = config.live /\ Addressed(new) = Addressed(config)
    BY <2>2, TableOnlyKeeps DEF TableOnly
  <2> QED
    BY <2>3, <2>4, PageWrites
<1>7. CASE onRunsTagsChange
  BY <1>1, <1>7, TagsHandled, HandlersStep
<1> QED
  BY <1>2, <1>3, <1>5, <1>6, <1>7 DEF SharedHandlers, onColumnsOrderChange, onParamVisibilityChange,
     onRowVisibilityChange, onRowsVisibilityChange, updateColumnsWidths, updateSortFields,
     onRowHeightChange, onTableResizeEnd, onTableResizeModeChange

(* A held config that follows a second change, too.                         *)
LEMMA FollowedTwice ==
  ASSUME HeldTyped, NEW h \in Waiting, NEW c \in Configs, NEW r, NEW d \in Configs, NEW s
  PROVE  Mine(Follow(Follow(held[h], c, r), d, s), d)
<1> DEFINE hd == held[h]
           once == Follow(hd, c, r)
<1>1. hd \in Held /\ once \in Held
  BY GoesOn DEF Mine
<1>2. ASSUME NEW l \in Levels, hd.same[l] = 0 PROVE Dropped(l) \in 1..N
  BY <1>2, NumberLeft
<1>3. ASSUME NEW l \in Levels, once.same[l] = 0 PROVE Dropped(l) \in 1..N
  <2> SUFFICES ASSUME hd.same[l] # 0 PROVE FALSE
    BY <1>2
  <2>1. once.same[l] = hd.same[l]
    <3>1. CASE hd.same["config"] = 0 /\ "config" \notin r
      <4>1. once = [hd EXCEPT !.cfg = c]
        BY <3>1 DEF Follow
      <4> QED
        BY <1>1, <4>1 DEF Held
    <3>2. CASE ~(hd.same["config"] = 0 /\ "config" \notin r)
      <4>1. once.same = [k \in Levels |-> IF hd.same[k] = 0 /\ k \in r THEN Dropped(k) ELSE hd.same[k]]
        BY <3>2 DEF Follow
      <4> QED
        BY <4>1
    <3> QED
      BY <3>1, <3>2
  <2> QED
    BY <1>3, <2>1
<1> HIDE DEF once
<1>4. Follow(once, d, s) \in Held /\ (Follow(once, d, s).same["config"] = 0 => Follow(once, d, s).cfg = d)
  BY <1>1, <1>3, Followed
<1> QED
  BY <1>4 DEF Mine, once

(* Two writes in one step.                                                  *)
LEMMA WrittenTwice ==
  ASSUME HeldTyped, NEW c \in Configs, NEW r, NEW d \in Configs, NEW s, config' = d,
         held' = [h \in Holders |-> IF held[h] = None THEN None
                                    ELSE Follow(Follow(held[h], c, r), d, s)]
  PROVE  HeldSound' /\ \A h \in Holders : held'[h] = None <=> held[h] = None
<1> DEFINE follow == [h \in Holders |-> IF held[h] = None THEN None
                                        ELSE Follow(Follow(held[h], c, r), d, s)]
<1>1. ASSUME NEW h \in Holders, held[h] # None PROVE Mine(follow[h], d)
  <2>1. h \in Waiting
    BY <1>1 DEF Waiting
  <2>2. Mine(Follow(Follow(held[h], c, r), d, s), d)
    BY <2>1, FollowedTwice
  <2> QED
    BY <1>1, <2>2
<1>2. \A h \in Holders : follow[h] = None <=> held[h] = None
  BY <1>1, NoneIsNotHeld DEF Mine
<1>3. follow = [h \in Holders |-> follow[h]] /\ held' = follow
  OBVIOUS
<1>4. \A h \in Holders : follow[h] = None \/ Mine(follow[h], config')
  BY <1>1, <1>2
<1> HIDE DEF follow
<1> QED
  BY <1>2, <1>3, <1>4, HeldAfter

(* The params page is grouped, and drops its brush behind it: what the      *)
(* address shows beside it is as it was.                                    *)
LEMMA BrushDropped ==
  ASSUME PlacesTyped, NEW new \in Configs, new.live = config.live, NEW replaced,
         AssignAndDropBrush(new, replaced)
  PROVE  PageStep
<1> DEFINE bare == [new EXCEPT !.chart.extent = FALSE]
<1>1. /\ User /\ config' = bare /\ view' = ViewOf(rawData, new) /\ updateURL(new)
      /\ held' = [h \in Holders |->
                    IF held[h] = None THEN None
                    ELSE Follow(Follow(held[h], new, replaced), bare, {"config", "chart"})]
      /\ UNCHANGED <<storedTable, rawData, overtaken>>
  BY DEF AssignAndDropBrush, Recompute
<1>2. bare \in Configs /\ bare.live = new.live /\ Viewed(bare) = Viewed(new)
      /\ Addressed(bare) = Addressed(new)
  <2>1. new.chart \in Charts
    BY ConfigFields
  <2> QED
    BY <2>1 DEF Configs, Charts, Viewed, getDataAsTableRows, Addressed
<1> HIDE DEF bare
<1>3. HeldSound' /\ \A h \in Holders : held'[h] = None <=> held[h] = None
  <2>1. HeldTyped
    BY DEF PlacesTyped, HeldSound
  <2> QED
    BY <1>1, <1>2, <2>1, WrittenTwice
<1>4. Pushed
  BY <1>1, <1>2, UrlPushed, AddressOf DEF Pushed
<1>5. view'.data.rows = rawData /\ Computed(view') = Viewed(config')
  BY <1>1, <1>2, ViewComputed
<1>6. edits' = edits + 1 /\ config' \in Configs /\ config'.live = config.live
  BY <1>1, <1>2 DEF User
<1> QED
  BY <1>1, <1>3, <1>4, <1>5, <1>6 DEF PageStep

(* The grouping of the params page.                                         *)
LEMMA ParamsGrouped ==
  ASSUME PlacesTyped, ParamsGrouping
  PROVE  PageStep
<1>1. config \in Configs /\ config.grouping \in Groupings /\ config.chart \in Charts
  BY ConfigFields DEF PlacesTyped
<1>2. ASSUME NEW g \in Groupings
      PROVE  /\ [config EXCEPT !.grouping = g] \in Configs
             /\ [config EXCEPT !.grouping = g].live = config.live
             /\ resetChartZoom([config EXCEPT !.grouping = g]) \in Configs
             /\ resetChartZoom([config EXCEPT !.grouping = g]).live = config.live
  BY <1>1, <1>2 DEF resetChartZoom, Configs, Charts
<1>3. ASSUME NEW g \in Groups, paramsOnGroupingSelectChange(g) PROVE PageStep
  <2>1. PICK filled \in BOOLEAN :
          AssignAndDropBrush(
            resetChartZoom([config EXCEPT !.grouping.fields = IF filled THEN @ \cup {g}
                                                              ELSE @ \ {g}]),
            {"grouping", "chart"})
    BY <1>3 DEF paramsOnGroupingSelectChange
  <2> DEFINE grouping == [config.grouping EXCEPT !.fields = IF filled THEN @ \cup {g} ELSE @ \ {g}]
  <2>2. grouping \in Groupings
    BY <1>1 DEF Groupings
  <2>3. [config EXCEPT !.grouping.fields = IF filled THEN @ \cup {g} ELSE @ \ {g}]
          = [config EXCEPT !.grouping = grouping]
    BY <1>1 DEF Configs
  <2> HIDE DEF grouping
  <2> QED
    BY <1>2, <2>1, <2>2, <2>3, BrushDropped
<1>4. ASSUME NEW g \in Groups, paramsOnGroupingModeChange(g) PROVE PageStep
  <2>1. PICK v \in Looks :
          LET new == [config EXCEPT !.grouping.look = v]
          IN IF g = "chart" THEN AssignAndDropBrush(resetChartZoom(new), {"chart"})
             ELSE AssignAndDropBrush(new, {})
    BY <1>4 DEF paramsOnGroupingModeChange
  <2> DEFINE grouping == [config.grouping EXCEPT !.look = v]
  <2>2. grouping \in Groupings
    BY <1>1 DEF Groupings
  <2>3. [config EXCEPT !.grouping.look = v] = [config EXCEPT !.grouping = grouping]
    BY <1>1 DEF Configs
  <2> HIDE DEF grouping
  <2> QED
    BY <1>2, <2>1, <2>2, <2>3, BrushDropped
<1>5. ASSUME NEW g \in Groups, paramsOnGroupingReset(g) PROVE PageStep
  <2> DEFINE grouping == [config.grouping EXCEPT !.fields = @ \ {g}, !.applied = @ \cup {g}, !.look = 0]
  <2>1. AssignAndDropBrush([config EXCEPT !.grouping.fields = @ \ {g},
                                          !.grouping.applied = @ \cup {g},
                                          !.grouping.look = 0], {"grouping"})
    BY <1>5 DEF paramsOnGroupingReset
  <2>2. grouping \in Groupings
    <3>1. /\ config.grouping.fields \ {g} \in SUBSET Groups
          /\ config.grouping.applied \cup {g} \in SUBSET Groups /\ 0 \in Looks
      BY <1>1 DEF Groupings, Looks
    <3>2. PICK fields \in SUBSET Groups, applied \in SUBSET Groups, look \in Looks :
            grouping = [config.grouping EXCEPT !.fields = fields, !.applied = applied, !.look = look]
      BY <3>1
    <3> HIDE DEF grouping
    <3> QED
      BY <1>1, <3>2 DEF Groupings
  <2>3. [config EXCEPT !.grouping.fields = @ \ {g}, !.grouping.applied = @ \cup {g}, !.grouping.look = 0]
          = [config EXCEPT !.grouping = grouping]
    BY <1>1 DEF Configs, Groupings
  <2> HIDE DEF grouping
  <2> QED
    BY <1>2, <2>1, <2>2, <2>3, BrushDropped
<1>6. ASSUME NEW g \in Groups, paramsOnGroupingApplyChange(g) PROVE PageStep
  <2> DEFINE grouping == [config.grouping EXCEPT !.applied = IF g \in @ THEN @ \ {g} ELSE @ \cup {g}]
  <2>1. AssignAndDropBrush([config EXCEPT !.grouping.applied =
                              IF g \in @ THEN @ \ {g} ELSE @ \cup {g}], {"grouping"})
    BY <1>6 DEF paramsOnGroupingApplyChange
  <2>2. grouping \in Groupings
    BY <1>1 DEF Groupings
  <2>3. [config EXCEPT !.grouping.applied = IF g \in @ THEN @ \ {g} ELSE @ \cup {g}]
          = [config EXCEPT !.grouping = grouping]
    BY <1>1 DEF Configs
  <2> HIDE DEF grouping
  <2> QED
    BY <1>2, <2>1, <2>2, <2>3, BrushDropped
<1> QED
  BY <1>3, <1>4, <1>5, <1>6 DEF ParamsGrouping

(* And those of one of the two only.                                        *)
LEMMA ParamsHandled ==
  ASSUME PlacesTyped, ParamsHandlers \/ ScattersHandlers
  PROVE  PageStep /\ UNCHANGED pageVars
<1>1. HeldSound /\ HeldTyped /\ edits \in Nat /\ config \in Configs /\ config.chart \in Charts
  BY ConfigFields DEF PlacesTyped, HeldSound
<1>2. UNCHANGED pageVars
  BY DEF ParamsHandlers, ScattersHandlers
<1>3. 1 - config.chart.deco \in Looks
  BY <1>1, ChartFields DEF Looks
<1>4. ASSUME PassCopy([config EXCEPT !.chart.deco = 1 - config.chart.deco]) PROVE PageStep
  <2> DEFINE new == [config EXCEPT !.chart.deco = 1 - config.chart.deco]
  <2>1. ChartOnly(new) /\ new.chart.look = config.chart.look
    BY <1>1, <1>3 DEF ChartOnly, Configs, Charts
  <2> HIDE DEF new
  <2> QED
    BY <1>4, <2>1, CopyPassed DEF new
<1>5. ASSUME onColorIndicatorChange \/ onCurveInterpolationChange PROVE PageStep
  BY <1>4, <1>5 DEF onColorIndicatorChange, onCurveInterpolationChange
<1>6. ASSUME onAxisBrushExtentChange PROVE PageStep
  <2>1. PICK set \in BOOLEAN : PassCopy([config EXCEPT !.chart.extent = set])
    BY <1>6 DEF onAxisBrushExtentChange
  <2> DEFINE new == [config EXCEPT !.chart.extent = set]
  <2>2. ChartOnly(new) /\ new.chart.look = config.chart.look
    BY <1>1 DEF ChartOnly, Configs, Charts
  <2> HIDE DEF new
  <2> QED
    BY <2>1, <2>2, CopyPassed DEF new
<1>7. ASSUME onChangeTrendlineOptions PROVE PageStep
  BY <1>1, <1>7, ChartHandled, HandlersStep
<1>8. ASSUME ScattersGrouping PROVE PageStep
  BY <1>1, <1>8, GroupingHandled, TableHandled, HandlersStep DEF ScattersGrouping
<1> QED
  BY <1>2, <1>5, <1>6, <1>7, <1>8, ParamsGrouped, SharedHandled DEF ParamsHandlers, ScattersHandlers

(* The Back button is a step of this kind, too.                             *)
LEMMA BackSteps ==
  ASSUME PlacesTyped, NEW live \in BOOLEAN, live = service.stored, Back(live)
  PROVE  PageStep
<1>1. /\ User /\ previous # <<>> /\ url' = previous[1] /\ previous' = <<>>
      /\ UNCHANGED <<storedTable, rawData, overtaken>>
  BY DEF Back
<1>2. previous[1] \in Urls \cup {None} /\ config \in Configs /\ HeldTyped
  BY <1>1 DEF PlacesTyped, HeldSound
<1> DEFINE c == [config EXCEPT !.live = live]
           new == setDefaultAppConfigData(c, url')
<1>3. c \in Configs /\ c.live = live
  BY <1>2 DEF Configs
<1> HIDE DEF c
<1>4. new \in Configs /\ new.live = live /\ (url' # None => Addressed(new) = Addressed(url'))
  <2>1. url' \in Urls \cup {None}
    BY <1>1, <1>2
  <2> QED
    BY <1>3, <2>1, Merged
<1>5. Write(new, Levels) /\ view' = ViewOf(rawData, new)
  BY DEF Back, Recompute, c
<1> HIDE DEF new
<1>6. config' = new /\ HeldSound' /\ \A h \in Holders : held'[h] = None <=> held[h] = None
  BY <1>2, <1>4, <1>5, AfterWrite
<1>7. view'.data.rows = rawData /\ Computed(view') = Viewed(new)
  BY <1>5, ViewComputed
<1>8. Pushed
  BY <1>1, <1>2, <1>4, <1>6 DEF Pushed
<1>9. edits' = edits + 1
  BY <1>1 DEF User
<1> QED
  BY <1>1, <1>4, <1>6, <1>7, <1>8, <1>9 DEF PageStep

(* What is left to show of a step, once the types of the places are.        *)
LEMMA TypesStay ==
  ASSUME PlacesTyped, config' \in Configs, HeldSound', edits' \in Nat, overtaken' \in BOOLEAN,
         Pushed \/ KeepURL, storedTable' \in {storedTable, config'.table}
  PROVE  PlacesTyped'
<1>1. url' \in Urls \cup {None} /\ previous' \in {<<>>} \cup {<<u>> : u \in Urls \cup {None}}
  BY UrlKept DEF Pushed
<1>2. storedTable' \in Tables \cup {None}
  BY ConfigFields DEF PlacesTyped
<1> QED
  BY <1>1, <1>2 DEF PlacesTyped

(* The address shows the config after a step that pushes it, or leaves what  *)
(* it shows alone, or leaves a mark that it does not.                       *)
LEMMA AddressStays ==
  ASSUME AddressShown, config' \in Configs,
         Pushed \/ (KeepURL /\ Addressed(config') = Addressed(config)),
         unwritten' = FALSE => unwritten = FALSE \/ url' = UrlOf(config'), unwritten' \in BOOLEAN,
         unwritten \in BOOLEAN
  PROVE  AddressShown'
<1> SUFFICES ASSUME unwritten' = FALSE, url' # None PROVE Addressed(url') = Addressed(config')
  BY DEF AddressShown, Addressed
<1>1. CASE Pushed
  BY <1>1 DEF Pushed
<1>2. CASE url' = UrlOf(config')
  BY <1>2, AddressOf
<1>3. CASE KeepURL /\ Addressed(config') = Addressed(config) /\ unwritten = FALSE
  BY <1>3 DEF KeepURL, AddressShown
<1> QED
  BY <1>1, <1>2, <1>3

(* Such steps keep the invariant.                                           *)
LEMMA PageStepKeeps ==
  ASSUME ISInv, PageStep, UNCHANGED <<pageVars, page, queryIsEmpty>>, unwritten' \in BOOLEAN,
         unwritten' = FALSE => unwritten = FALSE \/ url' = UrlOf(config'),
         page # "images" => unwritten' = unwritten
  PROVE  ISInv'
<1>1. PagesTyped /\ CopiesAgree /\ PagesAgree /\ ServiceSound /\ PlacesTyped /\ edits \in Nat
  BY DEF ISInv, PagesTyped, PlacesTyped
<1>2. /\ config' \in Configs /\ HeldSound'
      /\ \A h \in Holders : held'[h] = None <=> held[h] = None
      /\ edits' = edits + 1 /\ UNCHANGED <<rawData, overtaken>>
      /\ Pushed \/ (KeepURL /\ Addressed(config') = Addressed(config))
      /\ Computed(view) = Viewed(config) => Computed(view') = Viewed(config')
      /\ view'.data.rows \in {rawData, view.data.rows}
      /\ storedTable' \in {storedTable, config'.table}
      /\ config'.live \in {config.live, service.stored}
  BY DEF PageStep
<1>3. UNCHANGED <<repo, request, status, service, polling, polls, silent, page, queryIsEmpty>>
  BY DEF pageVars, liveVars
<1>4. PlacesTyped'
  BY <1>1, <1>2, TypesStay DEF PlacesTyped
<1>5. PagesTyped'
  <2>1. held'[Search] = None <=> held[Search] = None
    BY <1>2, OneSearch
  <2> QED
    BY <1>1, <1>3, <1>4, <2>1 DEF PagesTyped
<1>6. CopiesAgree'
  <2> SUFFICES ASSUME page' # "images", request' # None
               PROVE  request'.edits <= edits' /\ request'.edits # edits'
    BY DEF CopiesAgree, Agrees, Addressed
  <2>1. request \in Requests /\ request.edits <= edits
    BY <1>1, <1>3 DEF PagesTyped, CopiesAgree
  <2>2. request.edits \in Nat
    BY <2>1 DEF Requests
  <2> QED
    BY <1>1, <1>2, <1>3, <2>1, <2>2
<1>7. PagesAgree'
  <2> SUFFICES ASSUME ~overtaken'
               PROVE  /\ AddressShown' /\ Computed(view') = Viewed(config')
                      /\ view'.data.rows \in {rawData'} \cup (IF page' = "images" THEN {None} ELSE {})
                      /\ service'.on = config'.live
    BY DEF PagesAgree, Computed, Viewed, getDataAsTableRows
  <2>1. /\ AddressShown /\ Computed(view) = Viewed(config) /\ service.on = config.live
        /\ view.data.rows \in {rawData} \cup (IF page = "images" THEN {None} ELSE {})
    BY <1>1, <1>2 DEF PagesAgree
  <2>2. AddressShown'
    BY <1>1, <1>2, <2>1, AddressStays DEF PagesTyped
  <2>3. service'.on = config'.live
    BY <1>1, <1>2, <1>3, <2>1 DEF ServiceSound
  <2> QED
    BY <1>2, <1>3, <2>1, <2>2, <2>3
<1>8. ServiceSound' /\ LiveUpdateResumes'
  BY <1>1, <1>3 DEF ISInv, ServiceSound, LiveUpdateResumes
<1> QED
  BY <1>5, <1>6, <1>7, <1>8 DEF ISInv

-----------------------------------------------------------------------------
(* The searches of the params and the scatters explorer. *)

(* The search is the only one that holds a config.                          *)
LEMMA OneHolder == Search \in Holders /\ None \notin Holders /\ N = 1
<1>1. Cardinality({Search}) = 1
  BY FS_Singleton
<1> QED
  BY <1>1, OneSearch DEF N

(* A request asks for a search string.                                      *)
LEMMA RequestAsks ==
  ASSUME PagesTyped, request # None
  PROVE  /\ request.q \in Selects /\ request.q # "stopped" /\ request.toUrl \in BOOLEAN
         /\ page # "images" => request \in Requests /\ request.edits \in Nat
         /\ page = "images" => request \in ImagesRequests
         /\ Search \in Waiting /\ held[Search] \in Held
<1>1. request \in ImagesRequests \cup Requests
  BY DEF PagesTyped
<1>2. request.q \in Selects /\ request.toUrl \in BOOLEAN
  BY <1>1 DEF ImagesRequests, Requests
<1>3. request.q # "stopped"
  BY <1>2, NoneIsNoRequest
<1>4. page # "images" => request \in Requests /\ request.edits \in Nat
  BY DEF PagesTyped, Requests
<1>5. page = "images" => request \in ImagesRequests
  BY DEF PagesTyped
<1>6. Search \in Waiting /\ held[Search] \in Held
  BY OneHolder DEF PagesTyped, PlacesTyped, HeldSound, HeldTyped, Waiting
<1> QED
  BY <1>2, <1>3, <1>4, <1>5, <1>6

(* The search takes a copy of the config c.                                 *)
LEMMA CopyHeld ==
  ASSUME HeldTyped, NEW c \in Configs, HoldCopy(c)
  PROVE  config' = c /\ HeldSound' /\ held'[Search] # None /\ held'[Search].cfg = c
<1> DEFINE same == [l \in Levels |-> IF l = "config" THEN 1 ELSE 0]
           copy == [cfg |-> c, same |-> same]
<1>1. config' = c /\ held' = [held EXCEPT ![Search] = copy]
  BY DEF HoldCopy
<1>2. same \in [Levels -> 0..N] /\ same["config"] = 1
  BY OneHolder DEF Levels
<1> HIDE DEF same
<1>3. copy \in Held /\ copy.cfg = c /\ copy.same["config"] # 0
  BY <1>2 DEF Held, N
<1>4. copy # None
  BY <1>3, NoneIsNotHeld
<1> HIDE DEF copy
<1>5. held'[Search] = copy /\ \A h \in Holders : h = Search
  BY <1>1, OneHolder, OneSearch DEF HeldTyped
<1>6. held' \in [Holders -> Held \cup {None}]
  BY <1>1, <1>3 DEF HeldTyped
<1> QED
  BY <1>1, <1>3, <1>4, <1>5, <1>6 DEF HeldSound, HeldTyped

(* A config that a held one agrees with agrees with what the request holds   *)
(* after a step that writes the same in place of it.                        *)
LEMMA FollowAgrees ==
  ASSUME NEW hd \in Held, NEW new \in Configs, NEW replaced, Agrees(hd.cfg, new)
  PROVE  Agrees(Follow(hd, new, replaced).cfg, new)
<1> DEFINE same == [l \in Levels |-> IF hd.same[l] = 0 /\ l \in replaced THEN Dropped(l) ELSE hd.same[l]]
           select == IF same["select"] = 0 THEN new.select ELSE hd.cfg.select
           grouping == IF same["grouping"] = 0 THEN new.grouping ELSE hd.cfg.grouping
           chart == IF same["chart"] = 0 THEN new.chart
                    ELSE IF same["agg"] = 0 THEN [hd.cfg.chart EXCEPT !.agg = new.chart.agg]
                    ELSE hd.cfg.chart
           cfg == [hd.cfg EXCEPT !.select = IF same["select"] = 0 THEN new.select ELSE @,
                                 !.grouping = IF same["grouping"] = 0 THEN new.grouping ELSE @,
                                 !.chart = IF same["chart"] = 0 THEN new.chart
                                           ELSE IF same["agg"] = 0 THEN [@ EXCEPT !.agg = new.chart.agg]
                                           ELSE @]
<1>1. hd.cfg \in Configs /\ hd.cfg.chart \in Charts /\ new.chart \in Charts
      /\ hd = [cfg |-> hd.cfg, same |-> hd.same]
  BY HeldFields, ConfigFields
<1>2. CASE hd.same["config"] = 0 /\ "config" \notin replaced
  <2>1. Follow(hd, new, replaced) = [hd EXCEPT !.cfg = new]
    BY <1>2 DEF Follow
  <2>2. [hd EXCEPT !.cfg = new].cfg = new
    BY <1>1
  <2> QED
    BY <2>1, <2>2 DEF Agrees
<1>3. CASE ~(hd.same["config"] = 0 /\ "config" \notin replaced)
  <2>1. Follow(hd, new, replaced) = [same |-> same, cfg |-> cfg]
    BY <1>3 DEF Follow
  <2>2. cfg = [hd.cfg EXCEPT !.select = select, !.grouping = grouping, !.chart = chart]
    BY <1>1 DEF Configs
  <2>3. chart.agg = new.chart.agg /\ chart.zoomed = new.chart.zoomed
        /\ chart.stacking = new.chart.stacking /\ chart.look = new.chart.look
        /\ chart.deco = new.chart.deco
    <3>1. /\ hd.cfg.chart.agg = new.chart.agg /\ hd.cfg.chart.zoomed = new.chart.zoomed
          /\ hd.cfg.chart.stacking = new.chart.stacking /\ hd.cfg.chart.look = new.chart.look
          /\ hd.cfg.chart.deco = new.chart.deco
      BY AddressedParts DEF Agrees
    <3>2. PICK other : other = [hd.cfg.chart EXCEPT !.agg = new.chart.agg]
      OBVIOUS
    <3>3. /\ other.agg = new.chart.agg /\ other.zoomed = hd.cfg.chart.zoomed
          /\ other.stacking = hd.cfg.chart.stacking /\ other.look = hd.cfg.chart.look
          /\ other.deco = hd.cfg.chart.deco
      BY <1>1, <3>2 DEF Charts
    <3>4. chart \in {new.chart, other, hd.cfg.chart}
      BY <3>2
    <3> HIDE DEF chart
    <3> QED
      BY <3>1, <3>3, <3>4
  <2>4. grouping = new.grouping /\ hd.cfg.live = new.live
    BY AddressedParts DEF Agrees
  <2> HIDE DEF select, grouping, chart, same, cfg
  <2>5. cfg.grouping = new.grouping /\ cfg.chart = chart /\ cfg.live = new.live
    BY <1>1, <2>2, <2>4 DEF Configs
  <2>6. Agrees(cfg, new)
    BY <2>3, <2>5 DEF Agrees, Addressed
  <2> QED
    BY <2>1, <2>6
<1> QED
  BY <1>2, <1>3

(* Rows are set, of a search that ends (o) or of the live update: what else  *)
(* of the config changes is neither in the address nor in a copy.           *)
LEMMA DataSet ==
  ASSUME HeldTyped, config \in Configs, NEW o \in {Search, None}, NEW rows,
         setModelData(rows, config, o) \/ scattersSetModelData(rows, config, o)
  PROVE  /\ config' \in Configs /\ HeldSound' /\ Agrees(config', config)
         /\ Computed(view') = Viewed(config') /\ view'.data.rows = rows /\ rawData' = rows
         /\ o = Search => held'[Search] = None
         /\ o = None => /\ held'[Search] = None <=> held[Search] = None
                        /\ held[Search] # None /\ Agrees(held[Search].cfg, config)
                             => Agrees(held'[Search].cfg, config')
<1>1. ASSUME NEW extent \in BOOLEAN, NEW new \in manageSystemMetricColumns([config EXCEPT !.chart.extent = extent])
      PROVE  new \in Configs /\ Agrees(new, config)
  <2> DEFINE c == [config EXCEPT !.chart.extent = extent]
  <2>1. c \in Configs /\ Agrees(c, config) /\ c.table \in Tables
    BY ConfigFields DEF Configs, Charts, Agrees, Addressed
  <2>2. new = c \/ new = [c EXCEPT !.table.system = "hidden"]
    BY DEF manageSystemMetricColumns
  <2> HIDE DEF c
  <2>3. [c EXCEPT !.table.system = "hidden"] \in Configs /\ Agrees([c EXCEPT !.table.system = "hidden"], config)
    <3>1. PICK d : d = [c EXCEPT !.table.system = "hidden"]
      OBVIOUS
    <3>2. d \in Configs /\ d.grouping = c.grouping /\ d.chart = c.chart /\ d.live = c.live
      BY <2>1, <3>1 DEF Configs, Tables
    <3>3. Agrees(d, config)
      BY <2>1, <3>2 DEF Agrees, Addressed
    <3> QED
      BY <3>1, <3>2, <3>3
  <2> QED
    BY <2>1, <2>2, <2>3
<1>2. PICK new \in Configs :
        /\ Agrees(new, config) /\ rawData' = rows /\ view' = ViewOf(rows, new)
        /\ \E replaced : WriteAndRelease(o, new, replaced)
  <2>1. CASE setModelData(rows, config, o)
    <3>1. {config.chart.extent, FALSE} \subseteq BOOLEAN
      BY ConfigFields, ChartFields
    <3> QED
      BY <1>1, <2>1, <3>1 DEF setModelData
  <2>2. CASE scattersSetModelData(rows, config, o)
    <3>1. config.chart.extent \in BOOLEAN /\ [config EXCEPT !.chart.extent = config.chart.extent] = config
      <4>1. config.chart \in Charts
        BY ConfigFields
      <4> QED
        BY <4>1 DEF Configs, Charts
    <3> QED
      BY <1>1, <2>2, <3>1 DEF scattersSetModelData
  <2> QED
    BY <2>1, <2>2
<1>3. PICK replaced : WriteAndRelease(o, new, replaced)
  BY <1>2
<1>4. Computed(view') = Viewed(new) /\ view'.data.rows = rows
  BY <1>2, ViewComputed
<1>5. CASE o = Search
  <2>1. config' = new /\ HeldSound' /\ held'[Search] = None
    BY <1>3, <1>5, AfterRelease, OneHolder
  <2> QED
    BY <1>2, <1>4, <1>5, <2>1, OneSearch
<1>6. CASE o = None
  <2>1. Write(new, replaced)
    BY <1>3, <1>6, OneHolder DEF WriteAndRelease, Write
  <2>2. config' = new /\ HeldSound' /\ (held'[Search] = None <=> held[Search] = None)
    BY <2>1, AfterWrite, OneHolder
  <2>3. ASSUME held[Search] # None, Agrees(held[Search].cfg, config)
        PROVE  Agrees(held'[Search].cfg, new)
    <3>1. held'[Search] = Follow(held[Search], new, replaced)
      BY <2>1, <2>3, OneHolder DEF Write
    <3>2. held[Search] \in Held /\ Agrees(held[Search].cfg, new)
      BY <1>2, <2>3, OneHolder DEF HeldTyped, Agrees
    <3> QED
      BY <3>1, <3>2, FollowAgrees
  <2> QED
    BY <1>2, <1>4, <1>6, <2>2, <2>3, OneSearch
<1> QED
  BY <1>5, <1>6

(* The live update of the search q starts, if there is one.                 *)
LEMMA LiveStarts ==
  ASSUME PagesTyped, NEW q \in Selects, liveUpdateStart(q)
  PROVE  /\ polls' \subseteq Selects /\ polling' \in Selects \cup {"stopped"} /\ silent' \in BOOLEAN
         /\ service.on => polling' # "stopped"
BY NoneIsNoRequest DEF liveUpdateStart, PagesTyped

(* A search stops it, or leaves it alone, or lets the aborted one start it.  *)
LEMMA LiveStops ==
  ASSUME PagesTyped, LiveUpdateResumes, SearchStops \/ ScattersSearchStops, service' = service
  PROVE  /\ polls' \subseteq Selects /\ polling' \in Selects \cup {"stopped"} /\ silent' \in BOOLEAN
         /\ LiveUpdateResumes'
<1>1. CASE AbortedReading /\ liveUpdateStart(request.q)
  BY <1>1, RequestAsks, LiveStarts DEF AbortedReading, LiveUpdateResumes
<1>2. CASE /\ polling' = IF request' = None THEN polling ELSE "stopped"
           /\ silent' = (request' = None /\ (silent \/ request # None))
           /\ UNCHANGED polls
  <2>1. polls' \subseteq Selects /\ polling' \in Selects \cup {"stopped"}
    BY <1>2 DEF PagesTyped
  <2>2. silent' \in BOOLEAN
    BY <1>2
  <2>3. LiveUpdateResumes'
    BY <1>2 DEF LiveUpdateResumes
  <2> QED
    BY <2>1, <2>2, <2>3
<1> QED
  BY <1>1, <1>2 DEF SearchStops, ScattersSearchStops

(* A search begins with the config c.                                       *)
LEMMA SearchBegins ==
  ASSUME ISInv, page # "images", NEW c \in Configs, NEW replaced, NEW toUrl \in BOOLEAN,
         Agrees(c, config), Viewed(c) = Viewed(config), User, getParamsData(c, replaced, toUrl),
         SearchStops \/ ScattersSearchStops, KeepURL, repo' \in 0..MaxRepo,
         UNCHANGED <<storedTable, overtaken, service, page, queryIsEmpty, unwritten>>
  PROVE  ISInv'
<1>1. /\ PagesTyped /\ CopiesAgree /\ PagesAgree /\ ServiceSound /\ LiveUpdateResumes
      /\ PlacesTyped /\ HeldTyped /\ edits \in Nat /\ edits' = edits + 1 /\ overtaken' \in BOOLEAN
  BY DEF ISInv, PagesTyped, PlacesTyped, HeldSound, User
<1>2. /\ polls' \subseteq Selects /\ polling' \in Selects \cup {"stopped"} /\ silent' \in BOOLEAN
      /\ LiveUpdateResumes'
  BY <1>1, LiveStops
<1>3. ServiceSound' /\ service'.on = service.on
  BY <1>1 DEF ServiceSound
<1>4. ASSUME config' \in Configs, HeldSound', status' \in {status, "Pending"},
             request' \in Requests \cup {None}, request' = None <=> held'[Search] = None
      PROVE  PagesTyped'
  <2>1. PlacesTyped'
    BY <1>1, <1>4, TypesStay
  <2> QED
    BY <1>1, <1>2, <1>4, <2>1 DEF PagesTyped
<1>5. CASE c.select = None
  <2> DEFINE new == [c EXCEPT !.table.size = 0]
  <2>1. /\ request' = None /\ WriteAndRelease(Search, new, replaced \cup {"config"})
        /\ rawData' = None /\ view' = ViewOf(None, config') /\ status' = status
    BY <1>5 DEF getParamsData
  <2>2. new \in Configs /\ Agrees(new, c)
    <3>1. c.table \in Tables
      BY ConfigFields
    <3> QED
      BY <3>1 DEF Configs, Tables, Looks, Agrees, Addressed
  <2> HIDE DEF new
  <2>3. config' = new /\ HeldSound' /\ held'[Search] = None
    BY <1>1, <2>1, <2>2, AfterRelease, OneHolder
  <2>4. PagesTyped'
    BY <1>4, <2>1, <2>2, <2>3
  <2>5. PagesAgree'
    <3> SUFFICES ASSUME ~overtaken'
                 PROVE  /\ AddressShown' /\ Computed(view') = Viewed(config')
                        /\ view'.data.rows \in {rawData'} \cup (IF page' = "images" THEN {None} ELSE {})
                        /\ service'.on = config'.live
      BY DEF PagesAgree, Computed, Viewed, getDataAsTableRows
    <3>1. AddressShown /\ service.on = config.live
      BY <1>1 DEF PagesAgree
    <3>2. AddressShown'
      BY <2>2, <2>3, <3>1 DEF AddressShown, KeepURL, Agrees
    <3>3. Computed(view') = Viewed(config') /\ view'.data.rows = rawData'
      BY <2>1, ViewComputed
    <3>4. service'.on = config'.live
      BY <1>3, <2>2, <2>3, <3>1 DEF Agrees
    <3> QED
      BY <3>2, <3>3, <3>4
  <2> QED
    BY <1>2, <1>3, <2>1, <2>4, <2>5 DEF ISInv, CopiesAgree
<1>6. CASE c.select # None
  <2> DEFINE asked == [q |-> c.select, toUrl |-> toUrl, phase |-> "fetching", edits |-> edits']
  <2>1. /\ request' = asked /\ HoldCopy(c) /\ status' = "Pending" /\ UNCHANGED <<rawData, view>>
    BY <1>6 DEF getParamsData
  <2>2. asked \in Requests /\ asked.edits = edits' /\ asked # None
    <3>1. asked \in Requests /\ asked.edits = edits'
      BY <1>1, ConfigFields DEF Requests
    <3> QED
      BY <3>1, NoneIsNoRequest
  <2> HIDE DEF asked
  <2>3. config' = c /\ HeldSound' /\ held'[Search] # None /\ held'[Search].cfg = c
    BY <1>1, <2>1, CopyHeld
  <2>4. PagesTyped'
    BY <1>4, <2>1, <2>2, <2>3
  <2>5. CopiesAgree'
    <3>1. Agrees(held'[Search].cfg, config') /\ request'.edits <= edits'
      BY <1>1, <2>1, <2>2, <2>3 DEF Agrees
    <3> QED
      BY <3>1 DEF CopiesAgree, Agrees, Addressed
  <2>6. PagesAgree'
    <3> SUFFICES ASSUME ~overtaken'
                 PROVE  /\ AddressShown' /\ Computed(view') = Viewed(config')
                        /\ view'.data.rows \in {rawData'} \cup (IF page' = "images" THEN {None} ELSE {})
                        /\ service'.on = config'.live
      BY DEF PagesAgree, Computed, Viewed, getDataAsTableRows
    <3>1. /\ AddressShown /\ Computed(view) = Viewed(config) /\ service.on = config.live
          /\ view.data.rows \in {rawData} \cup (IF page = "images" THEN {None} ELSE {})
      BY <1>1 DEF PagesAgree
    <3>2. AddressShown'
      BY <2>3, <3>1 DEF AddressShown, KeepURL, Agrees
    <3>3. Computed(view') = Viewed(config')
      BY <2>1, <2>3, <3>1 DEF Computed
    <3>4. service'.on = config'.live
      BY <1>3, <2>3, <3>1 DEF Agrees
    <3> QED
      BY <2>1, <3>1, <3>2, <3>3, <3>4
  <2> QED
    BY <1>2, <1>3, <2>4, <2>5, <2>6 DEF ISInv
<1> QED
  BY <1>5, <1>6

(* The search button and the removal of runs, on either page.               *)
LEMMA SearchesKeep ==
  ASSUME ISInv, page # "images", UNCHANGED <<page, queryIsEmpty, unwritten>>,
         ParamsSearch \/ archiveRuns \/ ScattersSearch \/ scattersArchiveRuns
  PROVE  ISInv'
<1>1. config \in Configs /\ repo \in 0..MaxRepo
  BY DEF ISInv, PagesTyped, PlacesTyped
<1>2. CASE ParamsSearch \/ ScattersSearch
  <2>1. PICK q \in Selects : getParamsData([config EXCEPT !.select = q], {"config", "select"}, TRUE)
    BY <1>2 DEF ParamsSearch, ScattersSearch, getScattersData, Selects
  <2> DEFINE c == [config EXCEPT !.select = q]
  <2>2. c \in Configs /\ c.grouping = config.grouping /\ c.chart = config.chart
        /\ c.table = config.table /\ c.live = config.live
    BY <1>1 DEF Configs
  <2>3. getParamsData(c, {"config", "select"}, TRUE)
    BY <2>1
  <2> HIDE DEF c
  <2>4. Agrees(c, config) /\ Viewed(c) = Viewed(config)
    BY <2>2 DEF Agrees, Addressed, Viewed, getDataAsTableRows
  <2>5. /\ User /\ (SearchStops \/ ScattersSearchStops)
        /\ KeepURL /\ UNCHANGED <<storedTable, overtaken, repo, service>>
    BY <1>2 DEF ParamsSearch, ScattersSearch
  <2> QED
    BY <1>1, <2>2, <2>3, <2>4, <2>5, SearchBegins
<1>3. CASE archiveRuns \/ scattersArchiveRuns
  <2>1. /\ User /\ getParamsData(config, {}, FALSE)
        /\ (SearchStops \/ ScattersSearchStops)
        /\ KeepURL /\ UNCHANGED <<storedTable, overtaken, service>> /\ repo < MaxRepo /\ repo' = repo + 1
    BY <1>3 DEF archiveRuns, scattersArchiveRuns, getScattersData
  <2>2. repo' \in 0..MaxRepo
    BY <1>1, <2>1, NoneIsNoRequest
  <2>3. Agrees(config, config) /\ Viewed(config) = Viewed(config)
    BY DEF Agrees
  <2> QED
    BY <1>1, <2>1, <2>2, <2>3, SearchBegins
<1> QED
  BY <1>2, <1>3


-----------------------------------------------------------------------------
(* How a request of the params and the scatters explorer ends. *)

(* What there is to show of such a step.                                    *)
LEMMA RequestEnds ==
  ASSUME ISInv, page # "images", UNCHANGED <<page, queryIsEmpty, unwritten, repo, service, storedTable>>,
         request' = None, held'[Search] = None, config' \in Configs, HeldSound',
         edits' \in Nat, overtaken' \in BOOLEAN,
         (\E c \in Configs : updateURL(c)) \/ KeepURL,
         status' \in {status, "Ok", "BadRequest"},
         \/ request # None /\ liveUpdateStart(request.q)
         \/ silent' = TRUE /\ UNCHANGED <<polling, polls>>,
         ~overtaken' => /\ AddressShown' /\ Computed(view') = Viewed(config')
                        /\ view'.data.rows = rawData' /\ service.on = config'.live
  PROVE  ISInv'
<1>1. PagesTyped /\ ServiceSound /\ PlacesTyped
  BY DEF ISInv, PagesTyped
<1>2. /\ polls' \subseteq Selects /\ polling' \in Selects \cup {"stopped"}
      /\ service'.on /\ ~silent' => polling' # "stopped"
  BY <1>1, RequestAsks, LiveStarts DEF PagesTyped
<1>3. silent' \in BOOLEAN
  BY <1>1, RequestAsks, LiveStarts
<1>4. PlacesTyped'
  BY <1>1, TypesKept
<1>5. PagesTyped'
  BY <1>1, <1>2, <1>3, <1>4 DEF PagesTyped
<1>6. ServiceSound' /\ LiveUpdateResumes' /\ CopiesAgree'
  BY <1>1, <1>2 DEF ServiceSound, LiveUpdateResumes, CopiesAgree
<1>7. PagesAgree'
  BY DEF PagesAgree, Computed, Viewed, getDataAsTableRows
<1> QED
  BY <1>5, <1>6, <1>7 DEF ISInv

(* The rows have come: the copy goes into the address.                      *)
LEMMA RowsArrive ==
  ASSUME ISInv, page # "images", UNCHANGED <<page, queryIsEmpty, unwritten>>,
         ParamsArrive \/ ScattersArrive
  PROVE  ISInv'
<1>1. /\ request # None /\ request' = None
      /\ IF request.toUrl THEN updateURL(held[Search].cfg) ELSE KeepURL
      /\ overtaken' = (overtaken \/ (request.toUrl /\ OvertakenBy(request)))
      /\ status' = "Ok" /\ liveUpdateStart(request.q)
      /\ UNCHANGED <<storedTable, edits, repo, service>>
  BY DEF ParamsArrive, ScattersArrive
<1>2. /\ PagesTyped /\ CopiesAgree /\ PagesAgree /\ PlacesTyped /\ HeldTyped
      /\ edits \in Nat /\ config \in Configs
  BY DEF ISInv, PagesTyped, PlacesTyped, HeldSound
<1>3. request.toUrl \in BOOLEAN /\ held[Search] \in Held /\ held[Search].cfg \in Configs
  BY <1>1, <1>2, RequestAsks, HeldFields
<1>4. overtaken' \in BOOLEAN
  BY <1>1, <1>2, <1>3 DEF OvertakenBy, PlacesTyped
<1>5. setModelData(RowsOf(request.q), config, Search)
      \/ scattersSetModelData(RowsOf(request.q), config, Search)
  BY DEF ParamsArrive, ScattersArrive, updateData
<1>6. /\ config' \in Configs /\ HeldSound' /\ Agrees(config', config)
      /\ Computed(view') = Viewed(config') /\ view'.data.rows = rawData' /\ held'[Search] = None
  BY <1>2, <1>5, DataSet
<1>7. (\E c \in Configs : updateURL(c)) \/ KeepURL
  BY <1>1, <1>3
<1>8. ASSUME ~overtaken' PROVE AddressShown' /\ service.on = config'.live
  <2>1. ~overtaken /\ (request.toUrl => request.edits = edits)
    BY <1>1, <1>8 DEF OvertakenBy
  <2>2. AddressShown /\ service.on = config.live
    BY <1>2, <2>1 DEF PagesAgree
  <2>3. CASE request.toUrl
    <3>1. url' = UrlOf(held[Search].cfg)
      BY <1>1, <2>3 DEF updateURL
    <3>2. Addressed(url') = Addressed(config')
      BY <1>1, <1>2, <1>3, <1>6, <2>1, <2>3, <3>1, AddressOf DEF CopiesAgree, Agrees
    <3> QED
      BY <1>6, <2>2, <3>2 DEF AddressShown, Agrees, Addressed
  <2>4. CASE ~request.toUrl
    BY <1>1, <1>6, <2>2, <2>4 DEF AddressShown, Agrees, KeepURL
  <2> QED
    BY <2>3, <2>4
<1> QED
  BY <1>1, <1>2, <1>4, <1>6, <1>7, <1>8, RequestEnds

(* The reader has failed, or the user has pressed the cancel button.         *)
LEMMA RequestDropped ==
  ASSUME ISInv, page # "images", UNCHANGED <<page, queryIsEmpty, unwritten>>,
         ParamsBreak \/ ScattersBreak \/ abortRequest \/ scattersAbortRequest
  PROVE  ISInv'
<1>1. /\ request' = None /\ Release(Search)
      /\ UNCHANGED <<config, url, previous, storedTable, rawData, view, overtaken, repo, service>>
      /\ (edits' = edits \/ User) /\ status' \in {status, "Ok"}
  BY DEF ParamsBreak, ScattersBreak, abortRequest, scattersAbortRequest
<1>2. \/ request # None /\ liveUpdateStart(request.q)
      \/ silent' = TRUE /\ UNCHANGED <<polling, polls>>
  BY DEF ParamsBreak, ScattersBreak, abortRequest, scattersAbortRequest, AbortedReading
<1>3. /\ PagesTyped /\ PagesAgree /\ PlacesTyped /\ HeldSound /\ edits \in Nat
      /\ config \in Configs /\ overtaken \in BOOLEAN
  BY DEF ISInv, PagesTyped, PlacesTyped
<1>4. edits' \in Nat /\ overtaken' \in BOOLEAN /\ KeepURL
  BY <1>1, <1>3 DEF User, KeepURL
<1>5. config' \in Configs /\ HeldSound' /\ held'[Search] = None
  BY <1>1, <1>3, AfterEnd, OneHolder
<1>6. ASSUME ~overtaken'
      PROVE  /\ AddressShown' /\ Computed(view') = Viewed(config')
             /\ view'.data.rows = rawData' /\ service.on = config'.live
  <2>1. /\ AddressShown /\ Computed(view) = Viewed(config)
        /\ view.data.rows = rawData /\ service.on = config.live
    BY <1>1, <1>3, <1>6 DEF PagesAgree
  <2>2. Computed(view') = Viewed(config')
    BY <1>1, <2>1 DEF Computed, Viewed, getDataAsTableRows
  <2>3. AddressShown'
    BY <1>1, <2>1 DEF AddressShown, Addressed
  <2> QED
    BY <1>1, <2>1, <2>2, <2>3
<1>7. status' \in {status, "Ok", "BadRequest"}
  BY DEF ParamsBreak, ScattersBreak, abortRequest, scattersAbortRequest
<1> QED
  BY <1>1, <1>2, <1>4, <1>5, <1>6, <1>7, RequestEnds

(* The server refuses, and the copy becomes the model's config.              *)
LEMMA RefusalKeeps ==
  ASSUME ISInv, page # "images", UNCHANGED <<page, queryIsEmpty, unwritten>>,
         ParamsRefused \/ ScattersRefused
  PROVE  ISInv'
<1>1. RequestRefused(request)
      /\ (liveUpdateStart(request.q) \/ (silent' = TRUE /\ UNCHANGED <<polling, polls>>))
  BY DEF ParamsRefused, ScattersRefused
<1>2. /\ request # None /\ request' = None /\ resetModelState(held[Search].cfg)
      /\ overtaken' = (overtaken \/ OvertakenBy(request)) /\ status' = "BadRequest"
      /\ KeepURL /\ UNCHANGED <<storedTable, edits, repo, service>>
  BY <1>1 DEF RequestRefused
<1>3. /\ PagesTyped /\ CopiesAgree /\ PagesAgree /\ PlacesTyped /\ HeldTyped /\ edits \in Nat
      /\ config \in Configs
  BY DEF ISInv, PagesTyped, PlacesTyped, HeldSound
<1>4. overtaken' \in BOOLEAN
  BY <1>2, <1>3 DEF OvertakenBy, PlacesTyped
<1> DEFINE c == held[Search].cfg
           new == [c EXCEPT !.table.size = 0]
<1>5. c \in Configs /\ Search \in Waiting
  BY <1>2, <1>3, RequestAsks, HeldFields
<1>6. Return(Search, new, {"config"}) /\ rawData' = None /\ view' = ViewOf(None, config')
  BY <1>2 DEF resetModelState
<1> HIDE DEF c
<1>7. new \in Configs /\ Agrees(new, c)
  <2>1. c.table \in Tables
    BY <1>5, ConfigFields
  <2> QED
    BY <1>5, <2>1 DEF Configs, Tables, Looks, Agrees, Addressed
<1> HIDE DEF new
<1>8. config' = new /\ HeldSound' /\ held'[Search] = None
  BY <1>3, <1>5, <1>6, <1>7, AfterReturn
<1>9. Computed(view') = Viewed(config') /\ view'.data.rows = rawData'
  BY <1>6, ViewComputed
<1>10. ASSUME ~overtaken' PROVE AddressShown' /\ service.on = config'.live
  <2>1. ~overtaken /\ request.edits = edits
    BY <1>2, <1>10 DEF OvertakenBy
  <2>2. AddressShown /\ service.on = config.live /\ Agrees(c, config)
    BY <1>2, <1>3, <2>1 DEF PagesAgree, CopiesAgree, c
  <2> QED
    BY <1>2, <1>7, <1>8, <2>2 DEF AddressShown, Agrees, KeepURL
<1> QED
  BY <1>1, <1>2, <1>3, <1>4, <1>7, <1>8, <1>9, <1>10, RequestEnds

-----------------------------------------------------------------------------
(* The other steps of these pages. *)

(* The response begins, on any of the pages: only the request knows.        *)
LEMMA ResponseKeeps ==
  ASSUME ISInv, ResponseBegins, UNCHANGED <<page, queryIsEmpty, unwritten>>
  PROVE  ISInv'
<1>1. /\ request # None /\ request' = [request EXCEPT !.phase = "reading"]
      /\ UNCHANGED <<configVars, repo, status, service, polling, polls, silent, page, queryIsEmpty, unwritten>>
  BY DEF ResponseBegins, liveVars
<1>2. UNCHANGED <<config, held, url, previous, storedTable, rawData, view, edits, overtaken>>
  BY <1>1 DEF configVars
<1>3. PagesTyped /\ CopiesAgree /\ PagesAgree /\ ServiceSound /\ LiveUpdateResumes
  BY DEF ISInv
<1>4. CASE page = "images"
  <2>1. request \in ImagesRequests
    BY <1>1, <1>3, <1>4, RequestAsks
  <2>2. request' \in ImagesRequests
    BY <1>1, <2>1 DEF ImagesRequests
  <2>3. request' # None
    BY <2>2, NoneIsNoImagesRequest
  <2>4. PagesTyped'
    BY <1>1, <1>2, <1>3, <1>4, <2>2, <2>3 DEF PagesTyped, PlacesTyped, HeldSound, HeldTyped
  <2>5. CopiesAgree'
    BY <1>1, <1>4 DEF CopiesAgree
  <2> QED
    BY <1>1, <1>2, <1>3, <2>3, <2>4, <2>5
       DEF ISInv, PagesAgree, ServiceSound, LiveUpdateResumes, AddressShown, Computed, Viewed,
           Addressed, getDataAsTableRows
<1>5. CASE page # "images"
  <2>1. request \in Requests
    BY <1>1, <1>3, <1>5, RequestAsks
  <2>2. request' \in Requests /\ request'.edits = request.edits
    BY <1>1, <2>1 DEF Requests
  <2>3. request' # None
    BY <2>2, NoneIsNoRequest
  <2>4. PagesTyped'
    BY <1>1, <1>2, <1>3, <1>5, <2>2, <2>3 DEF PagesTyped, PlacesTyped, HeldSound, HeldTyped
  <2>5. CopiesAgree'
    BY <1>1, <1>2, <1>3, <1>5, <2>2 DEF CopiesAgree, Agrees, Addressed
  <2> QED
    BY <1>1, <1>2, <1>3, <2>3, <2>4, <2>5
       DEF ISInv, PagesAgree, ServiceSound, LiveUpdateResumes, AddressShown, Computed, Viewed,
           Addressed, getDataAsTableRows
<1> QED
  BY <1>4, <1>5

(* Other processes write into the repository.                               *)
LEMMA OthersKeep ==
  ASSUME ISInv, OthersChangeRepository, UNCHANGED <<page, queryIsEmpty, unwritten>>
  PROVE  ISInv'
<1>1. UNCHANGED <<config, held, url, previous, storedTable, rawData, view, edits, overtaken,
                  request, status, service, polling, polls, silent, page, queryIsEmpty, unwritten>>
  BY DEF OthersChangeRepository, configVars, liveVars
<1>2. repo' \in 0..MaxRepo
  BY NoneIsNoRequest DEF OthersChangeRepository, ISInv, PagesTyped
<1>3. PagesTyped'
  BY <1>1, <1>2 DEF ISInv, PagesTyped, PlacesTyped, HeldSound, HeldTyped
<1> QED
  BY <1>1, <1>3 DEF ISInv, CopiesAgree, PagesAgree, ServiceSound, LiveUpdateResumes, AddressShown,
     Agrees, Computed, Viewed, Addressed, getDataAsTableRows

(* Rows of the live update: the request under way goes on.                   *)
LEMMA LiveRowsKeep ==
  ASSUME ISInv, page # "images", UNCHANGED <<page, queryIsEmpty, unwritten>>, LiveUpdateArrives
  PROVE  ISInv'
<1>1. /\ status' = "Ok" /\ KeepURL
      /\ UNCHANGED <<storedTable, edits, overtaken, repo, request, service, polling, polls, silent>>
  BY DEF LiveUpdateArrives, liveVars
<1>2. PICK rows : setModelData(rows, config, None)
  <2>1. PICK q \in polls : updateData(RowsOf(q), None)
    BY DEF LiveUpdateArrives
  <2> QED
    BY <2>1 DEF updateData
<1>3. /\ PagesTyped /\ CopiesAgree /\ PagesAgree /\ ServiceSound /\ LiveUpdateResumes
      /\ PlacesTyped /\ HeldTyped /\ edits \in Nat /\ config \in Configs /\ overtaken \in BOOLEAN
  BY DEF ISInv, PagesTyped, PlacesTyped, HeldSound
<1>4. /\ config' \in Configs /\ HeldSound' /\ Agrees(config', config)
      /\ Computed(view') = Viewed(config') /\ view'.data.rows = rawData'
      /\ held'[Search] = None <=> held[Search] = None
      /\ held[Search] # None /\ Agrees(held[Search].cfg, config) => Agrees(held'[Search].cfg, config)
  <2>1. setModelData(rows, config, None) \/ scattersSetModelData(rows, config, None)
    BY <1>2
  <2>2. None \in {Search, None} /\ HeldTyped /\ config \in Configs
    BY <1>3
  <2>3. /\ config' \in Configs /\ HeldSound' /\ Agrees(config', config)
        /\ Computed(view') = Viewed(config') /\ view'.data.rows = rawData'
    BY <2>1, <2>2, DataSet
  <2>4. held'[Search] = None <=> held[Search] = None
    BY <2>1, <2>2, DataSet
  <2>5. ASSUME held[Search] # None, Agrees(held[Search].cfg, config)
        PROVE  Agrees(held'[Search].cfg, config)
    BY <2>1, <2>2, <2>5, DataSet DEF Agrees
  <2> QED
    BY <2>3, <2>4, <2>5
<1>5. PlacesTyped'
  BY <1>1, <1>3, <1>4, TypesKept
<1>6. PagesTyped'
  BY <1>1, <1>3, <1>4, <1>5 DEF PagesTyped
<1>7. CopiesAgree'
  <2> SUFFICES ASSUME page' # "images", request' # None
               PROVE  request'.edits <= edits' /\ (request'.edits = edits' => Agrees(held'[Search].cfg, config'))
    BY DEF CopiesAgree, Agrees, Addressed
  <2>1. request.edits <= edits /\ (request.edits = edits => Agrees(held[Search].cfg, config))
    BY <1>1, <1>3 DEF CopiesAgree
  <2>2. held[Search] # None
    BY <1>1, <1>3 DEF PagesTyped
  <2>3. Agrees(held'[Search].cfg, config) => Agrees(held'[Search].cfg, config')
    BY <1>4 DEF Agrees
  <2> QED
    BY <1>1, <1>4, <2>1, <2>2, <2>3
<1>8. PagesAgree'
  <2> SUFFICES ASSUME ~overtaken'
               PROVE  /\ AddressShown' /\ Computed(view') = Viewed(config')
                      /\ view'.data.rows = rawData' /\ service'.on = config'.live
    BY DEF PagesAgree, Computed, Viewed, getDataAsTableRows
  <2>1. AddressShown /\ service.on = config.live
    BY <1>1, <1>3 DEF PagesAgree
  <2>2. AddressShown' /\ service'.on = config'.live
    BY <1>1, <1>4, <2>1 DEF AddressShown, Agrees, KeepURL
  <2> QED
    BY <1>4, <2>2
<1>9. ServiceSound' /\ LiveUpdateResumes'
  BY <1>1, <1>3 DEF ServiceSound, LiveUpdateResumes
<1> QED
  BY <1>6, <1>7, <1>8, <1>9 DEF ISInv

(* The switch of the live update.                                           *)
LEMMA SwitchKeeps ==
  ASSUME ISInv, page # "images", UNCHANGED <<page, queryIsEmpty, unwritten>>, changeLiveUpdateConfig
  PROVE  ISInv'
<1> DEFINE new == [config EXCEPT !.live = ~config.live]
<1>1. /\ User /\ Write(new, {"config"}) /\ KeepURL
      /\ service' = [stored |-> ~config.live, on |-> ~config.live]
      /\ UNCHANGED <<storedTable, rawData, view, overtaken, repo, request, status>>
  BY DEF changeLiveUpdateConfig
<1>2. \/ config.live /\ polling' = "stopped" /\ UNCHANGED <<polls, silent>>
      \/ ~config.live /\ polling' = config.select /\ polls' = polls \cup {config.select} /\ silent' = FALSE
  BY DEF changeLiveUpdateConfig
<1>3. /\ PagesTyped /\ CopiesAgree /\ PagesAgree /\ ServiceSound /\ LiveUpdateResumes
      /\ PlacesTyped /\ HeldTyped /\ edits \in Nat /\ config \in Configs /\ overtaken \in BOOLEAN
  BY DEF ISInv, PagesTyped, PlacesTyped, HeldSound
<1>4. config.select \in Selects /\ config.select # "stopped" /\ config.live \in BOOLEAN
  BY <1>3, ConfigFields, NoneIsNoRequest
<1>5. /\ new \in Configs /\ Addressed(new) = Addressed(config) /\ Viewed(new) = Viewed(config)
      /\ new.live = ~config.live
  BY <1>3, <1>4 DEF Configs, Addressed, Viewed, getDataAsTableRows
<1> HIDE DEF new
<1>6. config' = new /\ HeldSound' /\ \A h \in Holders : held'[h] = None <=> held[h] = None
  BY <1>1, <1>3, <1>5, AfterWrite
<1>7. edits' = edits + 1
  BY <1>1 DEF User
<1>8. PlacesTyped'
  BY <1>1, <1>3, <1>5, <1>6, <1>7, TypesKept
<1>9. /\ polls' \subseteq Selects /\ polling' \in Selects \cup {"stopped"}
      /\ service' \in [stored : BOOLEAN, on : BOOLEAN] /\ service'.on = ~config.live
      /\ service'.stored = ~config.live
  BY <1>1, <1>2, <1>3, <1>4 DEF PagesTyped
<1>10. silent' \in BOOLEAN
  BY <1>2, <1>3 DEF PagesTyped
<1>11. PagesTyped'
  <2>1. held'[Search] = None <=> held[Search] = None
    BY <1>6, OneHolder
  <2> QED
    BY <1>1, <1>3, <1>8, <1>9, <1>10, <2>1 DEF PagesTyped
<1>12. CopiesAgree'
  <2> SUFFICES ASSUME page' # "images", request' # None
               PROVE  request'.edits <= edits' /\ request'.edits # edits'
    BY DEF CopiesAgree, Agrees, Addressed
  <2>1. request.edits \in Nat /\ request.edits <= edits
    BY <1>1, <1>3, RequestAsks DEF CopiesAgree
  <2> QED
    BY <1>1, <1>3, <1>7, <2>1
<1>13. PagesAgree'
  <2> SUFFICES ASSUME ~overtaken'
               PROVE  /\ AddressShown' /\ Computed(view') = Viewed(config')
                      /\ view'.data.rows = rawData' /\ service'.on = config'.live
    BY DEF PagesAgree, Computed, Viewed, getDataAsTableRows
  <2>1. AddressShown /\ Computed(view) = Viewed(config) /\ view.data.rows = rawData
    BY <1>1, <1>3 DEF PagesAgree
  <2>2. AddressShown'
    BY <1>1, <1>5, <1>6, <2>1 DEF AddressShown, KeepURL
  <2>3. Computed(view') = Viewed(config')
    BY <1>1, <1>5, <1>6, <2>1 DEF Computed
  <2> QED
    BY <1>1, <1>5, <1>6, <1>9, <2>1, <2>2, <2>3
<1>14. LiveUpdateResumes'
  BY <1>2, <1>4, <1>9 DEF LiveUpdateResumes
<1>15. ServiceSound'
  BY <1>3, <1>9 DEF ServiceSound
<1> QED
  BY <1>11, <1>12, <1>13, <1>14, <1>15 DEF ISInv

(* The page is left and opened again.                                       *)
LEMMA ReopeningKeeps ==
  ASSUME ISInv, page # "images", UNCHANGED <<page, queryIsEmpty, unwritten>>, Reinitialize
  PROVE  ISInv'
<1> DEFINE fresh == [getConfig EXCEPT !.live = service.stored]
           new == setDefaultAppConfigData(fresh, url)
           asked == [q |-> new.select, toUrl |-> FALSE, phase |-> "fetching", edits |-> edits']
           emptied == [new EXCEPT !.table.size = 0]
<1>1. /\ User /\ KeepURL
      /\ rawData' = None /\ view' = ViewOf(None, config')
      /\ service' = [service EXCEPT !.on = service.stored]
      /\ polling' = "stopped" /\ silent' = (request' = None)
      /\ UNCHANGED <<storedTable, overtaken, repo, polls>>
  BY DEF Reinitialize
<1>2. \/ WriteAndRelease(Search, emptied, Levels) /\ request' = None /\ status' = "NotRequested"
      \/ HoldCopy(new) /\ request' = asked /\ status' = "Pending"
  BY DEF Reinitialize
<1>3. /\ PagesTyped /\ ServiceSound /\ PlacesTyped /\ HeldTyped /\ edits \in Nat
      /\ config \in Configs /\ overtaken \in BOOLEAN
      /\ service \in [stored : BOOLEAN, on : BOOLEAN] /\ url \in Urls \cup {None}
  BY DEF ISInv, PagesTyped, PlacesTyped, HeldSound
<1>4. edits' = edits + 1
  BY <1>1 DEF User
<1>5. fresh \in Configs /\ fresh.live = service.stored
  BY <1>3, DefaultConfig DEF Configs
<1> HIDE DEF fresh
<1>6. /\ new \in Configs /\ new.live = service.stored
      /\ url # None => Addressed(new) = Addressed(url)
  BY <1>3, <1>5, Merged
<1> HIDE DEF new
<1>7. emptied \in Configs /\ Agrees(emptied, new)
  <2>1. new.table \in Tables
    BY <1>6, ConfigFields
  <2> QED
    BY <1>6, <2>1 DEF Configs, Tables, Looks, Agrees, Addressed
<1> HIDE DEF emptied
<1>8. asked \in Requests /\ asked # None /\ asked.edits = edits'
  <2>1. asked \in Requests /\ asked.edits = edits'
    BY <1>3, <1>4, <1>6, ConfigFields DEF Requests
  <2> QED
    BY <2>1, NoneIsNoRequest
<1> HIDE DEF asked
<1>9. /\ config' \in Configs /\ HeldSound' /\ Agrees(config', new)
      /\ request' \in Requests \cup {None} /\ (request' = None <=> held'[Search] = None)
      /\ status' \in {"NotRequested", "Pending"}
      /\ request' # None => request'.edits = edits' /\ held'[Search].cfg = config'
  <2>1. CASE WriteAndRelease(Search, emptied, Levels) /\ request' = None /\ status' = "NotRequested"
    <3>1. config' = emptied /\ HeldSound' /\ held'[Search] = None
      BY <1>3, <1>7, <2>1, AfterRelease, OneHolder
    <3> QED
      BY <1>7, <2>1, <3>1
  <2>2. CASE HoldCopy(new) /\ request' = asked /\ status' = "Pending"
    <3>1. config' = new /\ HeldSound' /\ held'[Search] # None /\ held'[Search].cfg = new
      BY <1>3, <1>6, <2>2, CopyHeld
    <3>2. Agrees(new, new)
      BY DEF Agrees
    <3> QED
      BY <1>6, <1>8, <2>2, <3>1, <3>2
  <2> QED
    BY <1>2, <2>1, <2>2
<1>10. /\ service' \in [stored : BOOLEAN, on : BOOLEAN]
       /\ service'.on = service.stored /\ service'.stored = service.stored
  BY <1>1, <1>3
<1>11. PlacesTyped'
  BY <1>1, <1>3, <1>4, <1>9, TypesKept
<1>12. PagesTyped'
  <2>1. silent' \in BOOLEAN
    BY <1>1
  <2> QED
    BY <1>1, <1>3, <1>9, <1>10, <1>11, <2>1 DEF PagesTyped
<1>13. CopiesAgree'
  <2> SUFFICES ASSUME page' # "images", request' # None
               PROVE  request'.edits <= edits' /\ Agrees(held'[Search].cfg, config')
    BY DEF CopiesAgree, Agrees, Addressed
  <2> QED
    BY <1>3, <1>4, <1>9 DEF Agrees
<1>14. PagesAgree'
  <2> SUFFICES ASSUME ~overtaken'
               PROVE  /\ AddressShown' /\ Computed(view') = Viewed(config')
                      /\ view'.data.rows = rawData' /\ service'.on = config'.live
    BY DEF PagesAgree, Computed, Viewed, getDataAsTableRows
  <2>1. AddressShown' /\ service'.on = config'.live
    BY <1>1, <1>6, <1>9, <1>10 DEF AddressShown, KeepURL, Agrees
  <2>2. Computed(view') = Viewed(config') /\ view'.data.rows = rawData'
    BY <1>1, ViewComputed
  <2> QED
    BY <2>1, <2>2
<1>15. LiveUpdateResumes' /\ ServiceSound'
  BY <1>1, <1>3, <1>10 DEF LiveUpdateResumes, ServiceSound
<1> QED
  BY <1>12, <1>13, <1>14, <1>15 DEF ISInv

(* All steps of the params and the scatters page.                           *)
LEMMA ParamsStepKeeps ==
  ASSUME ISInv, page # "images", SSNext, UNCHANGED <<queryIsEmpty, unwritten>>
  PROVE  ISInv'
<1>1. /\ PENext \/ ScattersSteps
      /\ UNCHANGED <<page, queryIsEmpty, unwritten>>
  BY DEF SSNext
<1>2. PlacesTyped /\ service.stored \in BOOLEAN /\ unwritten \in BOOLEAN
  BY DEF ISInv, PagesTyped
<1>3. CASE PageSteps
  <2>1. CASE BrowserBack
    <3>1. Back(service.stored) /\ UNCHANGED pageVars
      BY <2>1 DEF BrowserBack
    <3>2. PageStep
      BY <1>2, <3>1, BackSteps
    <3> QED
      BY <1>1, <1>2, <3>1, <3>2, PageStepKeeps
  <2> QED
    BY <1>1, <1>3, <2>1, ResponseKeeps, LiveRowsKeep, SwitchKeeps, OthersKeep, ReopeningKeeps
       DEF PageSteps
<1>4. CASE ParamsHandlers \/ ScattersHandlers
  <2>1. PageStep /\ UNCHANGED pageVars
    BY <1>2, <1>4, ParamsHandled
  <2> QED
    BY <1>1, <1>2, <2>1, PageStepKeeps
<1> QED
  BY <1>1, <1>3, <1>4, SearchesKeep, RowsArrive, RequestDropped, RefusalKeeps
     DEF PENext, ScattersSteps

-----------------------------------------------------------------------------
(* The handlers of the images explorer. *)

(* The images are computed like the lines, as far as the places tell.       *)
LEMMA ImagesComputed ==
  ASSUME NEW rows, NEW m, NEW c
  PROVE  /\ ImagesViewOf(rows, m, c).data.rows = rows
         /\ Viewed(m) = Viewed(c) => Computed(ImagesViewOf(rows, m, c)) = Viewed(c)
BY DEF ImagesViewOf, imagesProcessData, imagesGroupData, imagesTableRows, Computed, Viewed,
       getDataAsTableRows

(* A handler of the images page that writes new.                            *)
LEMMA ImagesWrites ==
  ASSUME PlacesTyped, NEW new \in Configs, NEW replaced, User, Write(new, replaced),
         UNCHANGED <<rawData, overtaken>>, new.live = config.live,
         updateURL(new) \/ (KeepURL /\ Addressed(new) = Addressed(config)),
         \/ view' = ImagesViewOf(rawData, new, new)
         \/ view' = view /\ Viewed(new) = Viewed(config),
         storedTable' \in {storedTable, new.table}
  PROVE  PageStep
<1>1. ImagesViewOf(rawData, new, new) = ViewOf(rawData, new)
  BY DEF ImagesViewOf, imagesProcessData, imagesGroupData, imagesTableRows, ViewOf, processData,
         groupData, alignData, getDataAsTableRows
<1> QED
  BY <1>1, PageWrites

(* One that computes everything again.                                      *)
LEMMA ImagesAssigned ==
  ASSUME PlacesTyped, NEW new \in Configs, NEW replaced, ImagesAssign(new, replaced),
         new.live = config.live
  PROVE  PageStep
<1>1. /\ User /\ Write(new, replaced) /\ view' = ImagesViewOf(rawData, new, new) /\ updateURL(new)
      /\ UNCHANGED <<storedTable, rawData, overtaken>>
  BY DEF ImagesAssign, imagesUpdateModelData
<1> QED
  BY <1>1, ImagesWrites

(* Without a field left to stack by, the images are unstacked.              *)
LEMMA Unstacked ==
  ASSUME PlacesTyped, NEW new \in Configs, new.live = config.live, UpdateAndUnstack(new)
  PROVE  PageStep
<1> DEFINE flat == [new EXCEPT !.chart.stacking = FALSE]
           follow == [h \in Holders |->
                        IF held[h] = None THEN None
                        ELSE Follow(Follow(held[h], new, {"grouping"}), flat, {"config", "chart"})]
<1>1. CASE new.chart.stacking /\ new.grouping.fields = {}
  <2>1. /\ User /\ config' = flat /\ held' = follow
        /\ view' = ImagesViewOf(rawData, new, new)
        /\ url' = UrlOf(flat) /\ previous' = <<UrlOf(new)>>
        /\ UNCHANGED <<storedTable, rawData, overtaken>>
    BY <1>1 DEF UpdateAndUnstack, imagesUpdateModelData
  <2>2. flat \in Configs /\ flat.live = new.live /\ Viewed(flat) = Viewed(new)
    <3>1. new.chart \in Charts
      BY ConfigFields
    <3> QED
      BY <3>1 DEF Configs, Charts, Viewed, getDataAsTableRows
  <2> HIDE DEF flat
  <2>3. HeldTyped
    BY DEF PlacesTyped, HeldSound
  <2>4. HeldSound' /\ \A h \in Holders : held'[h] = None <=> held[h] = None
    BY <2>1, <2>2, <2>3, WrittenTwice
  <2>5. Pushed
    BY <2>1, <2>2, AddressOf DEF Pushed
  <2>6. view'.data.rows = rawData /\ Computed(view') = Viewed(config')
    BY <2>1, <2>2, ImagesComputed
  <2>7. edits' = edits + 1 /\ config' \in Configs /\ config'.live = config.live
    BY <2>1, <2>2 DEF User
  <2> QED
    BY <2>1, <2>4, <2>5, <2>6, <2>7 DEF PageStep
<1>2. CASE ~(new.chart.stacking /\ new.grouping.fields = {})
  <2>1. ImagesAssign(new, {"grouping"})
    BY <1>2 DEF UpdateAndUnstack
  <2> QED
    BY <2>1, ImagesAssigned
<1> QED
  BY <1>1, <1>2

(* Grouping, and the settings that are computed with.                       *)
LEMMA ImagesComputedAgain ==
  ASSUME PlacesTyped,
         \/ \E g \in Groups : imagesOnGroupingSelectChange(g) \/ imagesOnGroupingApplyChange(g)
         \/ imagesOnGroupingModeChange \/ imagesOnResetConfigData \/ updateImagesSortFields
  PROVE  PageStep
<1>1. config \in Configs /\ config.grouping \in Groupings /\ config.chart \in Charts
  BY ConfigFields DEF PlacesTyped
<1>2. ASSUME NEW g \in Groupings PROVE [config EXCEPT !.grouping = g] \in Configs
                                       /\ [config EXCEPT !.grouping = g].live = config.live
  BY <1>1 DEF Configs
<1>3. ASSUME NEW g \in Groups, imagesOnGroupingSelectChange(g) PROVE PageStep
  <2>1. PICK filled \in BOOLEAN :
          UpdateAndUnstack([config EXCEPT !.grouping.fields =
                              IF filled THEN @ \cup {g} ELSE @ \ {g}])
    BY <1>3 DEF imagesOnGroupingSelectChange
  <2> DEFINE new == [config EXCEPT !.grouping.fields = IF filled THEN @ \cup {g} ELSE @ \ {g}]
  <2>2. new \in Configs /\ new.live = config.live
    BY <1>1 DEF Configs, Groupings
  <2> HIDE DEF new
  <2> QED
    BY <2>1, <2>2, Unstacked DEF new
<1>4. ASSUME imagesOnGroupingModeChange PROVE PageStep
  <2>1. PICK v \in Looks : UpdateAndUnstack([config EXCEPT !.grouping.look = v])
    BY <1>4 DEF imagesOnGroupingModeChange
  <2> DEFINE new == [config EXCEPT !.grouping.look = v]
  <2>2. new \in Configs /\ new.live = config.live
    BY <1>1 DEF Configs, Groupings
  <2> HIDE DEF new
  <2> QED
    BY <2>1, <2>2, Unstacked DEF new
<1>5. ASSUME NEW g \in Groups, imagesOnGroupingApplyChange(g) PROVE PageStep
  <2> DEFINE new == [config EXCEPT !.grouping.applied = IF g \in @ THEN @ \ {g} ELSE @ \cup {g}]
  <2>1. ImagesAssign(new, {"grouping"})
    BY <1>5 DEF imagesOnGroupingApplyChange
  <2>2. new \in Configs /\ new.live = config.live
    BY <1>1 DEF Configs, Groupings
  <2> HIDE DEF new
  <2> QED
    BY <2>1, <2>2, ImagesAssigned
<1>6. ASSUME imagesOnResetConfigData PROVE PageStep
  <2>1. getConfig.grouping \in Groupings
    BY DefaultConfig, ConfigFields
  <2>2. ImagesAssign([config EXCEPT !.grouping = getConfig.grouping], {"grouping"})
    BY <1>6 DEF imagesOnResetConfigData
  <2> QED
    BY <1>2, <2>1, <2>2, ImagesAssigned
<1>7. ASSUME updateImagesSortFields PROVE PageStep
  <2>1. PICK v \in Looks : ImagesAssign([config EXCEPT !.chart.deco = v], {"config", "chart"})
    BY <1>7 DEF updateImagesSortFields
  <2> DEFINE new == [config EXCEPT !.chart.deco = v]
  <2>2. new \in Configs /\ new.live = config.live
    BY <1>1 DEF Configs, Charts
  <2> HIDE DEF new
  <2> QED
    BY <2>1, <2>2, ImagesAssigned DEF new
<1> QED
  BY <1>3, <1>4, <1>5, <1>6, <1>7

(* The settings of an image, and its focus.                                 *)
LEMMA ImagesDrawn ==
  ASSUME PlacesTyped,
         \/ onImageSizeChange \/ onImageRenderingChange \/ onImageAlignmentChange
         \/ imagesOnChangeTooltip \/ imagesOnActivePointChange \/ onStackingToggle
  PROVE  PageStep
<1>1. config \in Configs /\ config.chart \in Charts
  BY ConfigFields DEF PlacesTyped
<1>2. ASSUME NEW new \in Configs, new.live = config.live, Viewed(new) = Viewed(config), ReplaceAndShow(new)
      PROVE  PageStep
  <2>1. /\ User /\ Write(new, {"config", "chart"}) /\ updateURL(new)
        /\ UNCHANGED <<storedTable, rawData, view, overtaken>>
    BY <1>2 DEF ReplaceAndShow
  <2> QED
    BY <1>2, <2>1, ImagesWrites
<1>3. ASSUME NEW v \in Looks
      PROVE  LET new == [config EXCEPT !.chart.deco = v]
             IN new \in Configs /\ new.live = config.live /\ Viewed(new) = Viewed(config)
  BY <1>1 DEF Configs, Charts, Viewed, getDataAsTableRows
<1>4. CASE onImageSizeChange \/ onImageRenderingChange \/ onImageAlignmentChange \/ imagesOnChangeTooltip
  <2>1. PICK v \in Looks : ReplaceAndShow([config EXCEPT !.chart.deco = v])
    BY <1>4 DEF onImageSizeChange, onImageRenderingChange, onImageAlignmentChange, imagesOnChangeTooltip
  <2> QED
    BY <1>2, <1>3, <2>1
<1>5. CASE onStackingToggle
  <2> DEFINE new == [config EXCEPT !.chart.stacking = ~@]
  <2>1. ReplaceAndShow(new)
    BY <1>5 DEF onStackingToggle
  <2>2. new \in Configs /\ new.live = config.live /\ Viewed(new) = Viewed(config)
    BY <1>1 DEF Configs, Charts, Viewed, getDataAsTableRows
  <2> HIDE DEF new
  <2> QED
    BY <1>2, <2>1, <2>2
<1>6. CASE imagesOnActivePointChange
  <2>1. PICK v \in Looks :
          LET new == [config EXCEPT !.chart.deco = v]
          IN /\ User /\ Write(new, {"config", "chart"})
             /\ IF new = config THEN KeepURL ELSE updateURL(new)
             /\ UNCHANGED <<storedTable, rawData, view, overtaken>>
    BY <1>6 DEF imagesOnActivePointChange
  <2> DEFINE new == [config EXCEPT !.chart.deco = v]
  <2>2. new \in Configs /\ new.live = config.live /\ Viewed(new) = Viewed(config)
    BY <1>3
  <2>3. /\ User /\ Write(new, {"config", "chart"})
        /\ IF new = config THEN KeepURL ELSE updateURL(new)
        /\ UNCHANGED <<storedTable, rawData, view, overtaken>>
    BY <2>1
  <2> HIDE DEF new
  <2> QED
    BY <2>2, <2>3, ImagesWrites
<1> QED
  BY <1>4, <1>5, <1>6

(* Ranges, the search form and the table.                                   *)
LEMMA ImagesKept ==
  ASSUME PlacesTyped,
         \/ onSliceRangeChange \/ onDensityChange
         \/ imagesOnSelectRunQueryChange \/ imagesOnSelectAdvancedQueryChange
         \/ onImagesExploreSelectChange \/ imagesToggleSelectAdvancedMode
         \/ updateTableSortFields \/ ImagesReplaceColumns
  PROVE  PageStep
<1>1. /\ config \in Configs /\ config.chart \in Charts /\ config.table \in Tables
      /\ config.select \in Selects
  BY ConfigFields DEF PlacesTyped
<1>2. CASE onSliceRangeChange \/ onDensityChange
  <2>1. PICK v \in Looks :
          /\ User /\ Write([config EXCEPT !.chart.density = v], {"config", "chart"})
          /\ KeepURL /\ UNCHANGED <<storedTable, rawData, view, overtaken>>
    BY <1>2 DEF onSliceRangeChange, onDensityChange, SetRange
  <2> DEFINE new == [config EXCEPT !.chart.density = v]
  <2>2. /\ new \in Configs /\ new.live = config.live /\ Viewed(new) = Viewed(config)
        /\ Addressed(new) = Addressed(config)
    BY <1>1 DEF Configs, Charts, Viewed, getDataAsTableRows, Addressed
  <2> HIDE DEF new
  <2> QED
    BY <2>1, <2>2, ImagesWrites DEF new
<1>3. ASSUME NEW q \in Selects
      PROVE  LET new == [config EXCEPT !.select = q]
             IN /\ new \in Configs /\ new.live = config.live /\ Viewed(new) = Viewed(config)
                /\ Addressed(new) = Addressed(config)
  BY <1>1 DEF Configs, Viewed, getDataAsTableRows, Addressed
<1>4. CASE imagesOnSelectRunQueryChange \/ imagesOnSelectAdvancedQueryChange \/ onImagesExploreSelectChange
  <2>1. PICK q \in Selects :
          /\ User /\ Write([config EXCEPT !.select = q], {"config", "select", "chart"})
          /\ KeepURL /\ UNCHANGED <<storedTable, rawData, view, overtaken>>
    BY <1>4 DEF imagesOnSelectRunQueryChange, imagesOnSelectAdvancedQueryChange,
                onImagesExploreSelectChange, imagesReplaceSelect
  <2> DEFINE new == [config EXCEPT !.select = q]
  <2>2. /\ new \in Configs /\ new.live = config.live /\ Viewed(new) = Viewed(config)
        /\ Addressed(new) = Addressed(config)
    BY <1>3
  <2> HIDE DEF new
  <2> QED
    BY <2>1, <2>2, ImagesWrites DEF new
<1>5. CASE imagesToggleSelectAdvancedMode
  <2>1. PICK q \in {config.select} \cup Queries :
          LET new == [config EXCEPT !.select = q]
          IN /\ User /\ Write(new, {"config", "select"}) /\ updateURL(new)
             /\ UNCHANGED <<storedTable, rawData, view, overtaken>>
    BY <1>5 DEF imagesToggleSelectAdvancedMode
  <2> DEFINE new == [config EXCEPT !.select = q]
  <2>2. q \in Selects
    BY <1>1 DEF Selects
  <2>3. new \in Configs /\ new.live = config.live /\ Viewed(new) = Viewed(config)
    BY <1>3, <2>2
  <2>4. /\ User /\ Write(new, {"config", "select"}) /\ updateURL(new)
        /\ UNCHANGED <<storedTable, rawData, view, overtaken>>
    BY <2>1
  <2> HIDE DEF new
  <2> QED
    BY <2>3, <2>4, ImagesWrites
<1>6. ASSUME NEW v \in Looks
      PROVE  LET new == [config EXCEPT !.table.cols = v]
             IN new \in Configs /\ new.live = config.live /\ Addressed(new) = Addressed(config)
  BY <1>1 DEF Configs, Tables, Addressed
<1>7. CASE updateTableSortFields
  <2>1. PICK v \in Looks :
          LET new == [config EXCEPT !.table.cols = v]
          IN /\ User /\ Write(new, {"config"}) /\ setItemTable(new)
             /\ imagesUpdateModelData(new) /\ updateURL(new)
             /\ UNCHANGED <<rawData, overtaken>>
    BY <1>7 DEF updateTableSortFields
  <2> DEFINE new == [config EXCEPT !.table.cols = v]
  <2>2. new \in Configs /\ new.live = config.live
    BY <1>6
  <2>3. /\ User /\ Write(new, {"config"}) /\ storedTable' = new.table
        /\ view' = ImagesViewOf(rawData, new, new) /\ updateURL(new)
        /\ UNCHANGED <<rawData, overtaken>>
    BY <2>1 DEF setItemTable, imagesUpdateModelData
  <2> HIDE DEF new
  <2> QED
    BY <2>2, <2>3, ImagesWrites
<1>8. CASE ImagesReplaceColumns
  <2>1. PICK v \in Looks :
          LET new == [config EXCEPT !.table.cols = v]
          IN ReplaceTable(new) /\ imagesUpdateModelData(new)
    BY <1>8 DEF ImagesReplaceColumns
  <2> DEFINE new == [config EXCEPT !.table.cols = v]
  <2>2. new \in Configs /\ new.live = config.live /\ Addressed(new) = Addressed(config)
    BY <1>6
  <2>3. /\ User /\ Write(new, {"config"}) /\ storedTable' = new.table
        /\ view' = ImagesViewOf(rawData, new, new) /\ KeepURL
        /\ UNCHANGED <<rawData, overtaken>>
    BY <2>1 DEF ReplaceTable, setItemTable, imagesUpdateModelData
  <2> HIDE DEF new
  <2> QED
    BY <2>2, <2>3, ImagesWrites
<1> QED
  BY <1>2, <1>4, <1>5, <1>7, <1>8

(* All handlers of the images page; a search without a query leaves a mark   *)
(* until the address is that of the config again.                           *)
LEMMA ImagesHandled ==
  ASSUME ISInv, page = "images", UNCHANGED page, ImagesHandlers
  PROVE  ISInv'
<1>1. /\ UNCHANGED <<pageVars, page, queryIsEmpty>>
      /\ unwritten' = (unwritten /\ url' # UrlOf(config'))
  BY DEF ImagesHandlers, Written
<1>2. /\ PlacesTyped /\ HeldSound /\ HeldTyped /\ edits \in Nat /\ config \in Configs
      /\ unwritten \in BOOLEAN /\ service.on = FALSE /\ service.stored = service.on
  BY DEF ISInv, PagesTyped, PlacesTyped, HeldSound, ServiceSound
<1>3. {"fresh"} \in SUBSET {"fresh", "hidden", "shown"}
  OBVIOUS
<1>4. PageStep
  <2>1. CASE \/ onColumnsVisibilityChange({"fresh"}) \/ ReplaceWidget
    BY <1>2, <1>3, <2>1, TableHandled, HandlersStep
  <2>2. CASE onRunsTagsChange
    BY <1>2, <2>2, TagsHandled, HandlersStep
  <2>3. CASE Back(FALSE)
    BY <1>2, <2>3, BackSteps
  <2> QED
    BY <1>2, <2>1, <2>2, <2>3, ImagesComputedAgain, ImagesDrawn, ImagesKept
       DEF ImagesHandlers, imagesUpdateColumnsWidths, imagesOnColumnsOrderChange,
           imagesOnColumnsVisibilityChange, imagesOnTableDiffShow, imagesOnRowHeightChange,
           imagesOnTableResizeEnd, imagesOnTableResizeModeChange
<1>5. unwritten' \in BOOLEAN
  BY <1>1
<1>6. unwritten' = FALSE => unwritten = FALSE \/ url' = UrlOf(config')
  BY <1>1, <1>2
<1> QED
  BY <1>1, <1>4, <1>5, <1>6, PageStepKeeps

-----------------------------------------------------------------------------
(* The search of the images explorer. *)

(* What there is to show of a step of a search: there is no live update.     *)
LEMMA ImagesRequestMoves ==
  ASSUME ISInv, page = "images", UNCHANGED <<page, service, polling, polls, silent, storedTable>>,
         config' \in Configs, HeldSound', edits' \in Nat, overtaken' \in BOOLEAN,
         (\E c \in Configs : updateURL(c)) \/ KeepURL, repo' \in 0..MaxRepo,
         status' \in {status, "NotRequested", "Pending", "Ok", "BadRequest"},
         request' \in ImagesRequests \cup {None}, request' = None <=> held'[Search] = None,
         queryIsEmpty' \in BOOLEAN, unwritten' \in BOOLEAN,
         ~overtaken' => /\ AddressShown' /\ Computed(view') = Viewed(config')
                        /\ view'.data.rows \in {rawData', None} /\ config'.live = FALSE
  PROVE  ISInv'
<1>1. PagesTyped /\ ServiceSound /\ PlacesTyped /\ service.on = FALSE
  BY DEF ISInv, PagesTyped, ServiceSound
<1>2. PlacesTyped'
  BY <1>1, TypesKept
<1>3. PagesTyped'
  BY <1>1, <1>2 DEF PagesTyped
<1>4. ServiceSound' /\ LiveUpdateResumes' /\ CopiesAgree'
  BY <1>1 DEF ServiceSound, LiveUpdateResumes, CopiesAgree
<1>5. PagesAgree'
  BY <1>1 DEF PagesAgree, Computed, Viewed, getDataAsTableRows
<1> QED
  BY <1>3, <1>4, <1>5 DEF ISInv

(* A record of what a search of the images asks.                            *)
LEMMA ImagesAsked ==
  ASSUME NEW q \in Selects, NEW toUrl \in BOOLEAN
  PROVE  LET asked == [q |-> q, toUrl |-> toUrl, phase |-> "fetching"]
         IN asked \in ImagesRequests /\ asked # None
<1>1. [q |-> q, toUrl |-> toUrl, phase |-> "fetching"] \in ImagesRequests
  BY DEF ImagesRequests
<1> QED
  BY <1>1, NoneIsNoImagesRequest

(* What a search without a query leaves of a config.                        *)
LEMMA ImagesEmptied ==
  ASSUME NEW c \in Configs
  PROVE  imagesEmptied(c) \in Configs /\ imagesEmptied(c).live = c.live
<1>1. getConfig.grouping \in Groupings /\ c.table \in Tables
  BY DefaultConfig, ConfigFields
<1> HIDE DEF getConfig
<1>2. [c EXCEPT !.grouping = getConfig.grouping] \in Configs
  BY <1>1 DEF Configs
<1>3. PICK d \in Configs : d = [c EXCEPT !.grouping = getConfig.grouping]
  BY <1>2
<1>4. d.live = c.live /\ d.table \in Tables
  BY <1>1, <1>3 DEF Configs
<1>5. imagesEmptied(c) = [d EXCEPT !.table.size = 0]
  BY <1>3 DEF imagesEmptied, Configs
<1>6. [d EXCEPT !.table.size = 0] \in Configs /\ [d EXCEPT !.table.size = 0].live = d.live
  BY <1>4 DEF Configs, Tables, Looks
<1> QED
  BY <1>4, <1>5, <1>6

(* A search begins with the config c.                                       *)
LEMMA ImagesSearchBegins ==
  ASSUME ISInv, page = "images", UNCHANGED page, NEW c \in Configs, NEW replaced, NEW toUrl \in BOOLEAN,
         Agrees(c, config), Viewed(c) = Viewed(config), User, getImagesData(c, replaced, toUrl),
         KeepURL, repo' \in 0..MaxRepo,
         UNCHANGED <<storedTable, rawData, overtaken, service, liveVars>>
  PROVE  ISInv'
<1>1. /\ PagesTyped /\ PagesAgree /\ ServiceSound /\ HeldTyped /\ edits \in Nat
      /\ overtaken' \in BOOLEAN /\ service.on = FALSE
  BY DEF ISInv, PagesTyped, PlacesTyped, HeldSound, ServiceSound
<1>2. edits' \in Nat /\ UNCHANGED <<polling, polls, silent>>
  BY <1>1 DEF User, liveVars
<1>3. CASE c.select = None
  <2>1. /\ request' = None /\ WriteAndRelease(Search, imagesEmptied(c), replaced \cup {"config", "grouping"})
        /\ view' = ImagesViewOf(None, config', config')
        /\ queryIsEmpty' = TRUE /\ unwritten' = TRUE /\ UNCHANGED status
    BY <1>3 DEF getImagesData
  <2>2. imagesEmptied(c) \in Configs /\ imagesEmptied(c).live = c.live
    BY ImagesEmptied
  <2>3. config' = imagesEmptied(c) /\ HeldSound' /\ held'[Search] = None
    BY <1>1, <2>1, <2>2, AfterRelease, OneHolder
  <2>4. Computed(view') = Viewed(config') /\ view'.data.rows = None
    BY <2>1, ImagesComputed
  <2>5. ASSUME ~overtaken' PROVE AddressShown' /\ config'.live = FALSE
    BY <1>1, <2>1, <2>2, <2>3, <2>5 DEF AddressShown, PagesAgree, Agrees
  <2> QED
    BY <1>1, <1>2, <2>1, <2>2, <2>3, <2>4, <2>5, ImagesRequestMoves
<1>4. CASE c.select # None
  <2> DEFINE asked == [q |-> c.select, toUrl |-> toUrl, phase |-> "fetching"]
  <2>1. /\ request' = asked /\ WriteAndHold(Search, c, replaced)
        /\ status' = "Pending" /\ queryIsEmpty' = FALSE /\ UNCHANGED <<view, unwritten>>
    BY <1>4 DEF getImagesData
  <2>2. asked \in ImagesRequests /\ asked # None
    BY ConfigFields, ImagesAsked
  <2> HIDE DEF asked
  <2>3. config' = c /\ HeldSound' /\ held'[Search] # None
    BY <1>1, <2>1, AfterHold, OneHolder
  <2>4. unwritten' \in BOOLEAN
    BY <1>1, <2>1 DEF PagesTyped
  <2>5. ASSUME ~overtaken'
        PROVE  /\ AddressShown' /\ Computed(view') = Viewed(config')
               /\ view'.data.rows \in {rawData', None} /\ config'.live = FALSE
    <3>1. /\ AddressShown /\ Computed(view) = Viewed(config) /\ config.live = FALSE
          /\ view.data.rows \in {rawData, None}
      BY <1>1, <2>5 DEF PagesAgree
    <3>2. AddressShown'
      BY <2>1, <2>3, <3>1 DEF AddressShown, KeepURL, Agrees
    <3>3. Computed(view') = Viewed(config')
      BY <2>1, <2>3, <3>1 DEF Computed
    <3> QED
      BY <2>1, <2>3, <3>1, <3>2, <3>3 DEF Agrees
  <2> QED
    BY <1>1, <1>2, <2>1, <2>2, <2>3, <2>4, <2>5, ImagesRequestMoves
<1> QED
  BY <1>3, <1>4

(* The search button, the button of the ranges, the removal of runs.         *)
LEMMA ImagesSearchesKeep ==
  ASSUME ISInv, page = "images", UNCHANGED page, ImagesSearch \/ ImagesApply \/ imagesArchiveRuns
  PROVE  ISInv'
<1>1. config \in Configs /\ repo \in 0..MaxRepo
  BY DEF ISInv, PagesTyped, PlacesTyped
<1>2. CASE ImagesSearch
  <2>1. PICK q \in Selects : getImagesData([config EXCEPT !.select = q], {"config", "select", "chart"}, TRUE)
    BY <1>2 DEF ImagesSearch
  <2> DEFINE c == [config EXCEPT !.select = q]
  <2>2. c \in Configs /\ c.grouping = config.grouping /\ c.chart = config.chart
        /\ c.table = config.table /\ c.live = config.live
    BY <1>1 DEF Configs
  <2>3. getImagesData(c, {"config", "select", "chart"}, TRUE)
    BY <2>1
  <2> HIDE DEF c
  <2>4. Agrees(c, config) /\ Viewed(c) = Viewed(config)
    BY <2>2 DEF Agrees, Addressed, Viewed, getDataAsTableRows
  <2>5. User /\ KeepURL /\ UNCHANGED <<storedTable, rawData, overtaken, repo, service, liveVars>>
    BY <1>2 DEF ImagesSearch
  <2> QED
    BY <1>1, <2>2, <2>3, <2>4, <2>5, ImagesSearchBegins
<1>3. CASE ImagesApply \/ imagesArchiveRuns
  <2>1. PICK toUrl \in BOOLEAN : getImagesData(config, {}, toUrl)
    BY <1>3 DEF ImagesApply, imagesArchiveRuns
  <2>2. /\ User /\ KeepURL /\ UNCHANGED <<storedTable, rawData, overtaken, service, liveVars>>
        /\ repo' = repo \/ (repo < MaxRepo /\ repo' = repo + 1)
    BY <1>3 DEF ImagesApply, imagesArchiveRuns
  <2>3. repo' \in 0..MaxRepo
    BY <1>1, <2>2, NoneIsNoRequest
  <2>4. Agrees(config, config) /\ Viewed(config) = Viewed(config)
    BY DEF Agrees
  <2> QED
    BY <1>1, <2>1, <2>2, <2>3, <2>4, ImagesSearchBegins
<1> QED
  BY <1>2, <1>3

(* The images have come: the config that was held is the model's again.      *)
LEMMA ImagesArriveKeeps ==
  ASSUME ISInv, page = "images", UNCHANGED page, ImagesArrive
  PROVE  ISInv'
<1> DEFINE hd == held[Search]
<1>1. PICK d \in Looks :
        LET new == [hd.cfg EXCEPT !.chart.density = d, !.chart.extent = TRUE]
        IN /\ imagesSetModelData(RowsOf(request.q), hd, new)
           /\ IF request.toUrl THEN updateURL(new) ELSE KeepURL
  BY DEF ImagesArrive
<1> DEFINE new == [hd.cfg EXCEPT !.chart.density = d, !.chart.extent = TRUE]
<1>2. /\ request # None /\ request' = None /\ overtaken' = (overtaken \/ hd.same["config"] # 0)
      /\ status' = "Ok" /\ UNCHANGED <<storedTable, edits, repo, service, polling, polls, silent, queryIsEmpty>>
      /\ unwritten' = (unwritten /\ url' # UrlOf(config'))
  BY DEF ImagesArrive, Written, liveVars
<1>3. /\ rawData' = RowsOf(request.q) /\ view' = ImagesViewOf(RowsOf(request.q), config, hd.cfg)
      /\ Return(Search, new, {"chart"})
      /\ IF request.toUrl THEN updateURL(new) ELSE KeepURL
  BY <1>1 DEF imagesSetModelData
<1>4. /\ PagesTyped /\ PagesAgree /\ ServiceSound /\ PlacesTyped /\ HeldSound /\ HeldTyped
      /\ config \in Configs /\ edits \in Nat /\ service.on = FALSE
      /\ repo \in 0..MaxRepo /\ queryIsEmpty \in BOOLEAN /\ unwritten \in BOOLEAN
  BY DEF ISInv, PagesTyped, PlacesTyped, HeldSound, ServiceSound
<1>5. request.toUrl \in BOOLEAN /\ Search \in Waiting /\ hd \in Held /\ hd.cfg \in Configs /\ hd # None
  BY <1>2, <1>4, RequestAsks, HeldFields DEF Waiting
<1>6. new \in Configs /\ Agrees(new, hd.cfg) /\ Viewed(new) = Viewed(hd.cfg)
  <2>1. hd.cfg.chart \in Charts
    BY <1>5, ConfigFields
  <2> HIDE DEF hd
  <2> DEFINE chart == [[hd.cfg.chart EXCEPT !.density = d] EXCEPT !.extent = TRUE]
  <2>2. /\ chart \in Charts /\ chart.agg = hd.cfg.chart.agg /\ chart.zoomed = hd.cfg.chart.zoomed
        /\ chart.stacking = hd.cfg.chart.stacking /\ chart.look = hd.cfg.chart.look
        /\ chart.deco = hd.cfg.chart.deco
    BY <2>1 DEF Charts
  <2>3. new = [hd.cfg EXCEPT !.chart = chart]
    BY <1>5, <2>1 DEF Configs, Charts
  <2> HIDE DEF chart, new
  <2>4. new \in Configs /\ new.chart = chart /\ new.grouping = hd.cfg.grouping
        /\ new.table = hd.cfg.table /\ new.live = hd.cfg.live
    BY <1>5, <2>2, <2>3 DEF Configs
  <2> QED
    BY <2>2, <2>4 DEF Agrees, Addressed, Viewed, getDataAsTableRows
<1> HIDE DEF new
<1>7. config' = new /\ HeldSound' /\ held'[Search] = None
  BY <1>3, <1>4, <1>5, <1>6, AfterReturn
<1>8. overtaken' \in BOOLEAN /\ unwritten' \in BOOLEAN
  BY <1>2, <1>4 DEF PlacesTyped
<1>9. (\E c \in Configs : updateURL(c)) \/ KeepURL
  BY <1>3, <1>5, <1>6
<1>10. ASSUME ~overtaken'
       PROVE  /\ AddressShown' /\ Computed(view') = Viewed(config')
              /\ view'.data.rows \in {rawData', None} /\ config'.live = FALSE
  <2>1. ~overtaken /\ hd.same["config"] = 0
    BY <1>2, <1>10
  <2>2. hd.cfg = config
    BY <1>4, <1>5, <2>1, OneHolder DEF HeldSound
  <2>3. AddressShown /\ config.live = FALSE
    BY <1>4, <2>1 DEF PagesAgree
  <2>4. Pushed \/ (KeepURL /\ Addressed(config') = Addressed(config))
    <3>1. CASE request.toUrl
      BY <1>3, <1>4, <1>6, <1>7, <3>1, PushedOnce
    <3>2. CASE ~request.toUrl
      BY <1>3, <1>6, <1>7, <2>2, <3>2 DEF Agrees
    <3> QED
      BY <3>1, <3>2
  <2>5. unwritten' = FALSE => unwritten = FALSE \/ url' = UrlOf(config')
    BY <1>2, <1>4
  <2>6. AddressShown'
    BY <1>4, <1>6, <1>7, <1>8, <2>3, <2>4, <2>5, AddressStays
  <2>7. Computed(view') = Viewed(config') /\ view'.data.rows = rawData'
    BY <1>3, <1>6, <1>7, <2>2, ImagesComputed
  <2> QED
    BY <1>6, <1>7, <2>2, <2>3, <2>6, <2>7 DEF Agrees
<1> QED
  BY <1>2, <1>4, <1>6, <1>7, <1>8, <1>9, <1>10, ImagesRequestMoves

(* The search fails or is cancelled: the config stays.                       *)
LEMMA ImagesFailureKeeps ==
  ASSUME ISInv, page = "images", UNCHANGED page,
         ImagesBreak \/ ImagesRefused \/ imagesAbortRequest
  PROVE  ISInv'
<1>1. /\ request' = None /\ Release(Search) /\ (edits' = edits \/ User)
      /\ UNCHANGED <<config, url, previous, storedTable, overtaken, repo, service, polling, polls, silent,
                     queryIsEmpty, unwritten>>
      /\ status' \in {status, "Ok", "BadRequest"}
      /\ \/ UNCHANGED <<rawData, view>>
         \/ rawData' = None /\ view' = ImagesViewOf(None, config, config)
  BY DEF ImagesBreak, ImagesRefused, imagesAbortRequest, imagesResetModelState, liveVars
<1>2. /\ PagesTyped /\ PagesAgree /\ HeldSound /\ edits \in Nat /\ config \in Configs /\ service.on = FALSE
      /\ overtaken \in BOOLEAN /\ repo \in 0..MaxRepo /\ queryIsEmpty \in BOOLEAN /\ unwritten \in BOOLEAN
  BY DEF ISInv, PagesTyped, PlacesTyped, ServiceSound
<1>3. edits' \in Nat /\ KeepURL
  BY <1>1, <1>2 DEF User, KeepURL
<1>4. config' \in Configs /\ HeldSound' /\ held'[Search] = None
  BY <1>1, <1>2, AfterEnd, OneHolder
<1>5. ASSUME ~overtaken'
      PROVE  /\ AddressShown' /\ Computed(view') = Viewed(config')
             /\ view'.data.rows \in {rawData', None} /\ config'.live = FALSE
  <2>1. /\ AddressShown /\ Computed(view) = Viewed(config) /\ config.live = FALSE
        /\ view.data.rows \in {rawData, None}
    BY <1>1, <1>2, <1>5 DEF PagesAgree
  <2>2. AddressShown'
    BY <1>1, <2>1 DEF AddressShown, Addressed
  <2>3. Viewed(config') = Viewed(config)
    BY <1>1 DEF Viewed, getDataAsTableRows
  <2>4. Computed(view') = Viewed(config') /\ view'.data.rows \in {rawData', None}
    <3>1. CASE UNCHANGED <<rawData, view>>
      BY <2>1, <2>3, <3>1 DEF Computed
    <3>2. CASE rawData' = None /\ view' = ImagesViewOf(None, config, config)
      BY <2>3, <3>2, ImagesComputed
    <3> QED
      BY <1>1, <3>1, <3>2
  <2> QED
    BY <1>1, <2>1, <2>2, <2>4
<1> QED
  BY <1>1, <1>2, <1>3, <1>4, <1>5, ImagesRequestMoves

(* The page is left and opened again.                                       *)
LEMMA ImagesReopeningKeeps ==
  ASSUME ISInv, page = "images", UNCHANGED page, ImagesReinitialize
  PROVE  ISInv'
<1> DEFINE new == setDefaultAppConfigData(getConfig, url)
           asked == [q |-> new.select, toUrl |-> FALSE, phase |-> "fetching"]
<1>1. /\ User /\ KeepURL /\ rawData' = None /\ view' = ImagesViewOf(None, config', config')
      /\ queryIsEmpty' = (request' = None) /\ unwritten' = (request' = None)
      /\ UNCHANGED <<storedTable, overtaken, repo, service, polling, polls, silent>>
  BY DEF ImagesReinitialize, liveVars
<1>2. \/ WriteAndRelease(Search, imagesEmptied(new), Levels) /\ request' = None /\ status' = "NotRequested"
      \/ WriteAndHold(Search, new, Levels) /\ request' = asked /\ status' = "Pending"
  BY DEF ImagesReinitialize
<1>3. /\ PagesTyped /\ PlacesTyped /\ HeldTyped /\ edits \in Nat /\ overtaken \in BOOLEAN
      /\ repo \in 0..MaxRepo /\ url \in Urls \cup {None}
  BY DEF ISInv, PagesTyped, PlacesTyped, HeldSound
<1>4. /\ new \in Configs /\ new.live = FALSE
      /\ url # None => Addressed(new) = Addressed(url)
  <2>1. getConfig.live = FALSE
    BY DEF getConfig
  <2> HIDE DEF getConfig
  <2> QED
    BY <1>3, <2>1, DefaultConfig, Merged
<1> HIDE DEF new
<1>5. asked \in ImagesRequests /\ asked # None
  BY <1>4, ConfigFields, ImagesAsked
<1> HIDE DEF asked
<1>6. edits' \in Nat
  BY <1>1, <1>3 DEF User
<1>7. queryIsEmpty' \in BOOLEAN /\ unwritten' \in BOOLEAN
  BY <1>1
<1>8. Computed(view') = Viewed(config') /\ view'.data.rows = None
  BY <1>1, ImagesComputed
<1>9. CASE WriteAndRelease(Search, imagesEmptied(new), Levels) /\ request' = None /\ status' = "NotRequested"
  <2>1. imagesEmptied(new) \in Configs /\ imagesEmptied(new).live = FALSE
    BY <1>4, ImagesEmptied
  <2>2. config' = imagesEmptied(new) /\ HeldSound' /\ held'[Search] = None
    BY <1>3, <1>9, <2>1, AfterRelease, OneHolder
  <2>3. AddressShown' /\ config'.live = FALSE
    BY <1>1, <1>9, <2>1, <2>2 DEF AddressShown
  <2> QED
    BY <1>1, <1>3, <1>6, <1>7, <1>8, <1>9, <2>1, <2>2, <2>3, ImagesRequestMoves
<1>10. CASE WriteAndHold(Search, new, Levels) /\ request' = asked /\ status' = "Pending"
  <2>1. config' = new /\ HeldSound' /\ held'[Search] # None
    BY <1>3, <1>4, <1>10, AfterHold, OneHolder
  <2>2. AddressShown' /\ config'.live = FALSE
    BY <1>1, <1>4, <2>1 DEF AddressShown, KeepURL
  <2> QED
    BY <1>1, <1>3, <1>4, <1>5, <1>6, <1>7, <1>8, <1>10, <2>1, <2>2, ImagesRequestMoves
<1> QED
  BY <1>2, <1>9, <1>10

-----------------------------------------------------------------------------
(* The ranges of the images page: whichever step writes them into the       *)
(* address has them in the model, and no step takes them out of the model   *)
(* without writing the address.                                             *)

ExtentShown == page = "images" => ExtentOnPage

(* A step that writes the address, or that leaves it and the ranges.         *)
LEMMA ExtentKept ==
  ASSUME ExtentOnPage,
         \/ updateURL(config')
         \/ url' = UrlOf(config')
         \/ KeepURL /\ config'.chart.extent = config.chart.extent
  PROVE  ExtentOnPage'
BY DEF ExtentOnPage, updateURL, KeepURL, UrlOf

(* A setting of the chart or the table that is not a range.                  *)
LEMMA ExtentUntouched ==
  ASSUME NEW c \in Configs, NEW v
  PROVE  /\ [c EXCEPT !.chart.density = v].chart.extent = c.chart.extent
         /\ [c EXCEPT !.table.cols = v].chart = c.chart
         /\ [c EXCEPT !.table.size = v].chart = c.chart
         /\ [c EXCEPT !.table.cols = v, !.table.system = "fresh"].chart = c.chart
         /\ [c EXCEPT !.select = v].chart = c.chart
         /\ imagesEmptied(c).chart = c.chart
BY DEF Configs, Charts, imagesEmptied

(* An address that is merged over a config c brings its ranges with it.      *)
LEMMA ExtentMerged ==
  ASSUME NEW c, NEW address \in Urls, address # None, address.chart.extent
  PROVE  setDefaultAppConfigData(c, address).chart.extent
<1>1. address.chart \in Charts
  BY DEF Urls
<1>2. [address.chart EXCEPT !.extent = @ \/ c.chart.extent].extent
        = (address.chart.extent \/ c.chart.extent)
  BY <1>1 DEF Charts
<1>3. setDefaultAppConfigData(c, address).chart = [address.chart EXCEPT !.extent = @ \/ c.chart.extent]
  BY DEF setDefaultAppConfigData
<1> QED
  BY <1>2, <1>3

(* The handlers of the page.                                                *)
LEMMA ExtentHandled ==
  ASSUME PlacesTyped, ExtentOnPage, ImagesHandlers
  PROVE  ExtentOnPage'
<1>1. config \in Configs
  BY DEF PlacesTyped
<1>2. ASSUME NEW new, NEW replaced, ImagesAssign(new, replaced) PROVE ExtentOnPage'
  BY <1>2, ExtentKept DEF ImagesAssign, Write
<1>3. ASSUME NEW new, ReplaceAndShow(new) PROVE ExtentOnPage'
  BY <1>3, ExtentKept DEF ReplaceAndShow, Write
<1>4. ASSUME NEW new, UpdateAndUnstack(new) PROVE ExtentOnPage'
  <2>1. CASE ImagesAssign(new, {"grouping"})
    BY <1>2, <2>1
  <2>2. CASE ~ImagesAssign(new, {"grouping"})
    <3>1. config' = [new EXCEPT !.chart.stacking = FALSE]
          /\ url' = UrlOf([new EXCEPT !.chart.stacking = FALSE])
      BY <1>4, <2>2 DEF UpdateAndUnstack
    <3> QED
      BY <3>1, ExtentKept
  <2> QED
    BY <2>1, <2>2
<1>5. CASE \/ \E g \in Groups : imagesOnGroupingSelectChange(g) \/ imagesOnGroupingApplyChange(g)
           \/ imagesOnGroupingModeChange \/ imagesOnResetConfigData \/ updateImagesSortFields
  BY <1>2, <1>4, <1>5 DEF imagesOnGroupingSelectChange, imagesOnGroupingApplyChange,
     imagesOnGroupingModeChange, imagesOnResetConfigData, updateImagesSortFields
<1>6. CASE \/ onImageSizeChange \/ onImageRenderingChange \/ onImageAlignmentChange
           \/ imagesOnChangeTooltip \/ onStackingToggle
  BY <1>3, <1>6 DEF onImageSizeChange, onImageRenderingChange, onImageAlignmentChange,
     imagesOnChangeTooltip, onStackingToggle
<1>7. CASE imagesOnActivePointChange \/ updateTableSortFields \/ imagesToggleSelectAdvancedMode
  <2>1. PICK new : /\ \E replaced : Write(new, replaced)
                   /\ updateURL(new) \/ (new = config /\ KeepURL)
    BY <1>7 DEF imagesOnActivePointChange, updateTableSortFields, imagesToggleSelectAdvancedMode
  <2> QED
    BY <2>1, ExtentKept DEF Write
<1>8. CASE onSliceRangeChange \/ onDensityChange
  <2>1. PICK v : config' = [config EXCEPT !.chart.density = v] /\ KeepURL
    BY <1>8 DEF onSliceRangeChange, onDensityChange, SetRange, Write
  <2>2. config'.chart.extent = config.chart.extent
    BY <1>1, <2>1, ExtentUntouched
  <2> QED
    BY <2>1, <2>2, ExtentKept
<1>9. CASE \/ imagesOnSelectRunQueryChange \/ imagesOnSelectAdvancedQueryChange
           \/ onImagesExploreSelectChange
  <2>1. PICK q : config' = [config EXCEPT !.select = q] /\ KeepURL
    BY <1>9 DEF imagesOnSelectRunQueryChange, imagesOnSelectAdvancedQueryChange,
       onImagesExploreSelectChange, imagesReplaceSelect, Write
  <2>2. config'.chart = config.chart
    BY <1>1, <2>1, ExtentUntouched
  <2> QED
    BY <2>1, <2>2, ExtentKept
<1>10. CASE ImagesReplaceColumns \/ onColumnsVisibilityChange({"fresh"}) \/ ReplaceWidget
  <2>1. ASSUME NEW new, ReplaceTable(new), new.chart = config.chart PROVE ExtentOnPage'
    BY <2>1, ExtentKept DEF ReplaceTable, Write
  <2>2. CASE ImagesReplaceColumns
    <3>1. PICK v : ReplaceTable([config EXCEPT !.table.cols = v])
      BY <2>2 DEF ImagesReplaceColumns
    <3> QED
      BY <1>1, <2>1, <3>1, ExtentUntouched
  <2>3. CASE onColumnsVisibilityChange({"fresh"})
    <3>1. PICK v : ReplaceTable([config EXCEPT !.table.cols = v, !.table.system = "fresh"])
      BY <2>3 DEF onColumnsVisibilityChange
    <3> QED
      BY <1>1, <2>1, <3>1, ExtentUntouched
  <2>4. CASE ReplaceWidget
    <3>1. PICK v : ReplaceTable([config EXCEPT !.table.size = v])
      BY <2>4 DEF ReplaceWidget
    <3> QED
      BY <1>1, <2>1, <3>1, ExtentUntouched
  <2> QED
    BY <1>10, <2>2, <2>3, <2>4
<1>11. CASE onRunsTagsChange
  BY <1>11, ExtentKept DEF onRunsTagsChange, KeepURL
<1>12. CASE Back(FALSE)
  <2> DEFINE c == [config EXCEPT !.live = FALSE]
             new == setDefaultAppConfigData(c, url')
  <2>1. config' = new
    BY <1>12 DEF Back, Write
  <2>2. url' \in Urls \cup {None}
    BY <1>12 DEF Back, PlacesTyped
  <2> HIDE DEF c
  <2>3. ASSUME url' # None, url'.chart.extent PROVE config'.chart.extent
    <3>1. url' \in Urls
      BY <2>2, <2>3
    <3> HIDE DEF new
    <3>2. new.chart.extent
      BY <2>3, <3>1, ExtentMerged DEF new
    <3> QED
      BY <2>1, <3>2
  <2> QED
    BY <2>3 DEF ExtentOnPage
<1> QED
  BY <1>5, <1>6, <1>7, <1>8, <1>9, <1>10, <1>11, <1>12
     DEF ImagesHandlers, imagesUpdateColumnsWidths, imagesOnColumnsOrderChange,
         imagesOnColumnsVisibilityChange, imagesOnTableDiffShow, imagesOnRowHeightChange,
         imagesOnTableResizeEnd, imagesOnTableResizeModeChange

(* The searches begin without the address; rows have ranges; what fails      *)
(* leaves both; a new visit takes the ranges out of the address.             *)
LEMMA ExtentSearched ==
  ASSUME PagesTyped, ExtentOnPage, page = "images",
         \/ ImagesSearch \/ ImagesApply \/ imagesArchiveRuns \/ ImagesArrive
         \/ ImagesBreak \/ ImagesRefused \/ imagesAbortRequest \/ ImagesReinitialize
  PROVE  ExtentOnPage'
<1>1. config \in Configs /\ url \in Urls \cup {None}
  BY DEF PagesTyped, PlacesTyped
<1>2. ASSUME NEW c \in Configs, c.chart = config.chart, NEW replaced, NEW toUrl,
             getImagesData(c, replaced, toUrl), KeepURL
      PROVE  ExtentOnPage'
  <2>1. config' = c \/ config' = imagesEmptied(c)
    BY <1>2 DEF getImagesData, WriteAndHold, WriteAndRelease
  <2> QED
    BY <1>2, <2>1, ExtentKept, ExtentUntouched
<1>3. CASE ImagesSearch
  <2>1. PICK q \in Selects : getImagesData([config EXCEPT !.select = q], {"config", "select", "chart"}, TRUE)
    BY <1>3 DEF ImagesSearch
  <2>2. [config EXCEPT !.select = q] \in Configs /\ [config EXCEPT !.select = q].chart = config.chart
    BY <1>1 DEF Configs
  <2>3. KeepURL
    BY <1>3 DEF ImagesSearch
  <2> QED
    BY <1>2, <2>1, <2>2, <2>3
<1>4. CASE ImagesApply \/ imagesArchiveRuns
  BY <1>1, <1>2, <1>4 DEF ImagesApply, imagesArchiveRuns
<1>5. CASE ImagesArrive
  <2>1. PICK d \in Looks :
          LET new == [held[Search].cfg EXCEPT !.chart.density = d, !.chart.extent = TRUE]
          IN Return(Search, new, {"chart"})
    BY <1>5 DEF ImagesArrive, imagesSetModelData
  <2>2. held[Search].cfg \in Configs /\ held[Search].cfg.chart \in Charts
    BY <1>5, RequestAsks, HeldFields, ConfigFields DEF ImagesArrive
  <2>3. config'.chart.extent
    BY <2>1, <2>2 DEF Return, Configs, Charts
  <2> QED
    BY <2>3 DEF ExtentOnPage
<1>6. CASE ImagesBreak \/ ImagesRefused \/ imagesAbortRequest
  BY <1>6 DEF ImagesBreak, ImagesRefused, imagesAbortRequest, ExtentOnPage
<1>7. CASE ImagesReinitialize
  <2> DEFINE new == setDefaultAppConfigData(getConfig, url)
  <2>1. url' = url /\ (config' = new \/ config' = imagesEmptied(new))
    BY <1>7 DEF ImagesReinitialize, KeepURL, WriteAndHold, WriteAndRelease
  <2>2. new \in Configs
    BY <1>1, DefaultConfig, Merged DEF PagesTyped
  <2>3. url # None /\ url.chart.extent => new.chart.extent
    BY <1>1, ExtentMerged
  <2> HIDE DEF new
  <2>4. imagesEmptied(new).chart = new.chart
    BY <2>2, ExtentUntouched
  <2> QED
    BY <2>1, <2>3, <2>4 DEF ExtentOnPage
<1> QED
  BY <1>3, <1>4, <1>5, <1>6, <1>7

(* So the address has no ranges that the page has not.                       *)
LEMMA ExtentGoesOn == ISInv /\ ExtentShown /\ [ISNext]_isVars => ExtentShown'
<1> SUFFICES ASSUME ISInv, ExtentShown, [ISNext]_isVars PROVE ExtentShown'
  OBVIOUS
<1>1. PagesTyped /\ PlacesTyped
  BY DEF ISInv, PagesTyped
<1>2. CASE page # "images"
  BY <1>2 DEF ISNext, SSNext, isVars, ssVars, ExtentShown
<1>3. CASE page = "images" /\ ImagesSteps
  <2>1. CASE ImagesResponseBegins \/ ImagesOthersChange
    BY <1>3, <2>1 DEF ImagesResponseBegins, ResponseBegins, ImagesOthersChange,
       OthersChangeRepository, configVars, ExtentShown, ExtentOnPage
  <2>2. CASE ImagesHandlers
    BY <1>1, <1>3, <2>2, ExtentHandled DEF ExtentShown
  <2>3. CASE \/ ImagesSearch \/ ImagesApply \/ imagesArchiveRuns \/ ImagesArrive
             \/ ImagesBreak \/ ImagesRefused \/ imagesAbortRequest \/ ImagesReinitialize
    BY <1>1, <1>3, <2>3, ExtentSearched DEF ExtentShown
  <2> QED
    BY <1>3, <2>1, <2>2, <2>3 DEF ImagesSteps
<1>4. CASE UNCHANGED isVars
  BY <1>4 DEF isVars, ssVars, peVars, configVars, ExtentShown, ExtentOnPage
<1> QED
  BY <1>2, <1>3, <1>4 DEF ISNext

-----------------------------------------------------------------------------
(* The theorems. *)

(* Each of the pages starts empty, with the default config.                 *)
LEMMA PagesStart == ISInit => ISInv
<1> SUFFICES ASSUME ISInit PROVE ISInv
  OBVIOUS
<1>1. /\ storedTable = None /\ url = None /\ previous = <<>> /\ config = getConfig
      /\ held = [h \in Holders |-> None] /\ rawData = None /\ view = ViewOf(None, getConfig)
      /\ edits = 0 /\ overtaken = FALSE
      /\ repo = 0 /\ request = None /\ status = "NotRequested"
      /\ service = [stored |-> FALSE, on |-> FALSE]
      /\ polling = "stopped" /\ polls = {} /\ silent = FALSE
      /\ page \in {"params", "scatters", "images"} /\ queryIsEmpty = FALSE /\ unwritten = FALSE
  BY DEF ISInit, PEInit, ConfigInit
<1>2. config \in Configs /\ config.live = FALSE
  BY <1>1, DefaultConfig DEF getConfig
<1>3. HeldSound /\ held[Search] = None
  BY <1>1, OneHolder DEF HeldSound, HeldTyped
<1>4. PlacesTyped
  BY <1>1, <1>2, <1>3 DEF PlacesTyped
<1>5. PagesTyped
  <2>1. repo \in 0..MaxRepo /\ polls \subseteq Selects
    BY <1>1, NoneIsNoRequest
  <2>2. silent \in BOOLEAN /\ queryIsEmpty \in BOOLEAN /\ unwritten \in BOOLEAN
    BY <1>1
  <2>3. service \in [stored : BOOLEAN, on : BOOLEAN]
    BY <1>1
  <2> QED
    BY <1>1, <1>3, <1>4, <2>1, <2>2, <2>3 DEF PagesTyped
<1>6. Computed(view) = Viewed(config) /\ view.data.rows = rawData
  BY <1>1, ViewComputed
<1>7. PagesAgree
  BY <1>1, <1>2, <1>6 DEF PagesAgree, AddressShown
<1>8. CopiesAgree /\ ServiceSound /\ LiveUpdateResumes
  BY <1>1 DEF CopiesAgree, ServiceSound, LiveUpdateResumes
<1> QED
  BY <1>5, <1>7, <1>8 DEF ISInv

(* Every step of every page keeps the invariant.                            *)
LEMMA PagesGoOn == ISInv /\ [ISNext]_isVars => ISInv'
<1> SUFFICES ASSUME ISInv, [ISNext]_isVars PROVE ISInv'
  OBVIOUS
<1>1. CASE page # "images" /\ SSNext /\ UNCHANGED <<queryIsEmpty, unwritten>>
  BY <1>1, ParamsStepKeeps
<1>2. CASE page = "images" /\ ImagesSteps /\ UNCHANGED page
  <2>1. CASE ImagesResponseBegins \/ ImagesOthersChange
    BY <1>2, <2>1, ResponseKeeps, OthersKeep DEF ImagesResponseBegins, ImagesOthersChange
  <2> QED
    BY <1>2, <2>1, ImagesHandled, ImagesSearchesKeep, ImagesArriveKeeps, ImagesFailureKeeps,
       ImagesReopeningKeeps DEF ImagesSteps
<1>3. CASE UNCHANGED isVars
  <2>1. UNCHANGED <<config, held, url, previous, storedTable, rawData, view, edits, overtaken,
                    repo, request, status, service, polling, polls, silent, page,
                    queryIsEmpty, unwritten>>
    BY <1>3 DEF isVars, ssVars, peVars, configVars, pageVars, liveVars
  <2>2. PagesTyped'
    BY <2>1 DEF ISInv, PagesTyped, PlacesTyped, HeldSound, HeldTyped
  <2>3. CopiesAgree' /\ PagesAgree'
    BY <2>1 DEF ISInv, CopiesAgree, PagesAgree, AddressShown, Agrees, Addressed, Computed, Viewed,
       getDataAsTableRows
  <2> QED
    BY <2>1, <2>2, <2>3 DEF ISInv, ServiceSound, LiveUpdateResumes
<1> QED
  BY <1>1, <1>2, <1>3 DEF ISNext

(* The invariant holds throughout.                                          *)
THEOREM PagesSound == ISSpec => []ISInv
BY PagesStart, PagesGoOn, PTL DEF ISSpec

(* The address shows grouping and chart of a params, a scatters or an images *)
(* page, and the data are computed from them and from the rows (PlacesAgree):*)
(* whatever the user changes while a search holds a copy of the config or    *)
(* the config itself, and whichever way the search ends, until an answer     *)
(* overwrites the user's work.  On the images page the address has no range  *)
(* that the page has lost, whatever answers overwrite.                       *)
THEOREM PlacesAlwaysAgree == ISSpec => []PlacesAgree
<1>1. ISInit => ExtentShown
  BY DEF ISInit, PEInit, ConfigInit, ExtentShown, ExtentOnPage
<1>2. ISSpec => []ExtentShown
  BY <1>1, PagesSound, ExtentGoesOn, PTL DEF ISSpec
<1>3. ISInv /\ ExtentShown => PlacesAgree
  <2> SUFFICES ASSUME ISInv, ExtentShown PROVE PlacesAgree
    OBVIOUS
  <2>1. PagesTyped /\ PagesAgree /\ ConfigTypeOK
    BY PlacesTypeOK DEF ISInv, PagesTyped
  <2>2. PETypeOK /\ queryIsEmpty \in BOOLEAN /\ unwritten \in BOOLEAN
    BY <2>1 DEF PagesTyped, PETypeOK
  <2>3. ~unwritten => UrlShowsConfig
    <3> SUFFICES ASSUME ~unwritten, ~overtaken, url # None
                 PROVE  /\ url.grouping = config.grouping
                        /\ url.chart.agg = config.chart.agg
                        /\ url.chart.zoomed = config.chart.zoomed
                        /\ url.chart.stacking = config.chart.stacking
                        /\ url.chart.look = config.chart.look
                        /\ url.chart.deco = config.chart.deco
      BY DEF UrlShowsConfig
    <3>1. Addressed(url) = Addressed(config)
      BY <2>1 DEF PagesAgree, AddressShown
    <3> QED
      BY <3>1, AddressedParts
  <2>4. ViewFollowsConfig /\ (~overtaken => view.data.rows \in {rawData} \cup (IF page = "images" THEN {None} ELSE {}))
    BY <2>1 DEF PagesAgree, ViewFollowsConfig, Computed, Viewed
  <2> QED
    BY <2>2, <2>3, <2>4 DEF PlacesAgree, ExtentShown
<1> QED
  BY <1>2, <1>3, PagesSound, PTL

(* The switch of the live update shows whether there is a live update        *)
(* (SwitchIsTrue), across searches, steps back and visits of the page: what  *)
(* the copy of a search or localStorage puts back is what there is.          *)
THEOREM SwitchTells == ISSpec => []SwitchIsTrue
<1>1. ISInv => SwitchIsTrue
  BY DEF ISInv, PagesAgree, SwitchIsTrue
<1> QED
  BY <1>1, PagesSound, PTL

(* The live update polls while it is switched on and no search is under way  *)
(* (LiveUpdateResumes): on the params page also after a search that failed or*)
(* was refused, on the scatters page after rows.  Excepted are a search that *)
(* was cancelled before its response and a page opened without a search.     *)
THEOREM LiveUpdateGoesOn == ISSpec => []LiveUpdateResumes
<1>1. ISInv => LiveUpdateResumes
  BY DEF ISInv
<1> QED
  BY <1>1, PagesSound, PTL
=============================================================================
