------------------------ MODULE MetricsExplorer_proofs ------------------------
(***************************************************************************)
(* Theorems about the metrics explorer, for any numbers of alignment       *)
(* requests, queries, metrics, groupings and edits: the address, the shown *)
(* data and localStorage follow the configuration, whichever object a      *)
(* handler or an answer changes.                                           *)
(*                                                                         *)
(* What a request may do to the model's config object is in the lemmas of  *)
(* ExplorerConfig_proofs.  The invariant says that the places agree and    *)
(* that the aggregation follows the grouping, also in the address one step *)
(* back, where the Back button gets it from (Places), and that the rows of *)
(* a chart aligned by a metric were asked with it (Aligned).               *)
(***************************************************************************)
EXTENDS MetricsExplorer, ExplorerConfig_proofs

(* Every handler of the metrics explorer's controls is such a step.         *)
LEMMA Handled ==
  ASSUME HeldSound, edits \in Nat, config \in Configs, Handlers
  PROVE  HandlerStep /\ UNCHANGED meVars
<1>1. HeldTyped /\ UNCHANGED meVars
  BY DEF HeldSound, Handlers
<1>2. CASE GroupingHandlers
  BY <1>1, <1>2, GroupingHandled DEF GroupingHandlers
<1>3. CASE ChartHandlers
  BY <1>1, <1>3, ChartHandled DEF ChartHandlers
<1>4. CASE TableHandlers
  BY <1>1, <1>4, TableHandled DEF TableHandlers, onColumnsOrderChange, onMetricVisibilityChange,
     onRowVisibilityChange, onRowsVisibilityChange, updateColumnsWidths, updateSortFields,
     onRowHeightChange, onTableResizeEnd, onTableResizeModeChange
<1>5. CASE SelectHandlers
  BY <1>1, <1>5, SelectHandled DEF SelectHandlers
<1> QED
  BY <1>1, <1>2, <1>3, <1>4, <1>5, ResetHandled, AlignTypeHandled, TagsHandled DEF Handlers

-----------------------------------------------------------------------------
(* The inductive invariant. *)

(* The requests and what has come of them.  What a search asked for and the  *)
(* alignment it remembers are from the same config.                          *)
MServer ==
  /\ repo \in 0..MaxRepo /\ stale \in BOOLEAN
  /\ request \in Searches \cup {None} /\ rawData \in Rows \cup {None}
  /\ polls \subseteq Parameters
  /\ service \in [stored : BOOLEAN, on : BOOLEAN]
  /\ status \in {"NotRequested", "Pending", "Ok", "BadRequest"}
  /\ aligning \in [Alignments -> Asked \cup {None}]
  /\ \A a \in Alignments : aligning[a] = None <=> held[a] = None
  /\ request = None <=> held[Search] = None
  /\ request # None => request.params.x = request.align.metric

(* While no answer has met a newer config, the places agree, the aggregation *)
(* follows the grouping, and so it did one step back in the history.         *)
Places ==
  ~overtaken =>
    /\ AggSound(config)
    /\ url # None => AggSound(url) /\ Shows(url, config)
    /\ previous # <<>> /\ previous[1] # None => AggSound(previous[1])
    /\ view.data.rows = rawData /\ Computed(view) = Viewed(config)
    /\ StoredAs(config.table, storedTable)

(* Aligned by the metric of the rows, unless an alignment is under way.      *)
Aligned ==
  ~stale /\ ~overtaken /\ (\A a \in Alignments : held[a] = None) => ~Misaligned(config, rawData)

MInv == PlacesTyped /\ MServer /\ Places /\ Aligned

(* The places still agree after a step that pushes the address of the new   *)
(* config, or of the one whose aggregation it enables, or leaves alone what *)
(* is in it, and likewise for the shown data and the table.                 *)
LEMMA PlacesKept ==
  ASSUME PlacesTyped, Places, config' \in Configs, overtaken => overtaken',
         ~overtaken' =>
           /\ AggSound(config) => AggSound(config')
           /\ \/ updateURL(config')
              \/ KeepURL /\ (url = None \/ Addressed(config') = Addressed(config) \/ Shows(url, config'))
              \/ (KeepURL \/ updateURL(config)) /\ Shows(config, config')
           /\ \/ view' = ViewOf(rawData', config')
              \/ view' = view /\ rawData' = rawData /\ Viewed(config') = Viewed(config)
           /\ StoredAs(config'.table, storedTable')
  PROVE  Places'
<1> SUFFICES ASSUME ~overtaken'
             PROVE  /\ AggSound(config')
                    /\ url' # None => AggSound(url') /\ Shows(url', config')
                    /\ previous' # <<>> /\ previous'[1] # None => AggSound(previous'[1])
                    /\ view'.data.rows = rawData' /\ Computed(view') = Viewed(config')
                    /\ StoredAs(config'.table, storedTable')
  BY DEF Places, AggSound, Shows, AggOn, Computed, Viewed, getDataAsTableRows, StoredAs, isGroupingApplied
<1>1. /\ AggSound(config) /\ (url # None => AggSound(url) /\ Shows(url, config))
      /\ previous # <<>> /\ previous[1] # None => AggSound(previous[1])
      /\ view.data.rows = rawData /\ Computed(view) = Viewed(config)
  BY DEF Places
<1>2. AggSound(config') /\ StoredAs(config'.table, storedTable')
  BY <1>1
<1>3. view'.data.rows = rawData' /\ Computed(view') = Viewed(config')
  <2>1. CASE view' = ViewOf(rawData', config')
    BY <2>1, ViewComputed
  <2>2. CASE view' = view /\ rawData' = rawData /\ Viewed(config') = Viewed(config)
    <3>1. Computed(view') = Computed(view)
      BY <2>2 DEF Computed
    <3> QED
      BY <1>1, <2>2, <3>1
  <2> QED
    BY <2>1, <2>2
<1>4. /\ url' # None => AggSound(url') /\ Shows(url', config')
      /\ previous' # <<>> /\ previous'[1] # None => AggSound(previous'[1])
  <2>1. ASSUME NEW c \in Configs, updateURL(c), AggSound(c), Shows(c, config')
        PROVE  <1>4
    <3>1. url' = UrlOf(c) /\ previous' \in {previous, <<url>>}
      BY <2>1, UrlPushed
    <3>2. AggSound(url') /\ Shows(url', c)
      <4>1. Addressed(url') = Addressed(c)
        BY <3>1, AddressOf
      <4> QED
        BY <2>1, <4>1, AddressedShows, AddressedParts, AggSoundOf
    <3>3. Shows(url', config')
      BY <2>1, <3>2, ShowsOn
    <3> QED
      BY <1>1, <3>1, <3>2, <3>3
  <2>2. Shows(config', config')
    BY AddressedShows
  <2>3. CASE updateURL(config')
    BY <1>2, <2>1, <2>2, <2>3
  <2>4. CASE KeepURL /\ (url = None \/ Addressed(config') = Addressed(config) \/ Shows(url, config'))
    BY <1>1, <2>4, AddressedShows, ShowsOn DEF KeepURL
  <2>5. CASE KeepURL /\ Shows(config, config')
    BY <1>1, <2>5, ShowsOn DEF KeepURL
  <2>6. CASE updateURL(config) /\ Shows(config, config')
    BY <1>1, <2>1, <2>6 DEF PlacesTyped
  <2> QED
    BY <2>3, <2>4, <2>5, <2>6
<1> QED
  BY <1>2, <1>3, <1>4

-----------------------------------------------------------------------------
(* One lemma for each kind of step. *)

(* What a step leaves alone.                                                 *)
LEMMA MisalignedKept ==
  ASSUME Aligned, stale => stale', overtaken => overtaken',
         \A a \in Alignments : held'[a] = None => held[a] = None,
         AlignKept(config'), rawData' = rawData
  PROVE  Aligned'
<1>1. Misaligned(config', rawData') => Misaligned(config, rawData)
  BY DEF Misaligned, Metric, AlignKept
<1> QED
  BY <1>1 DEF Aligned

(* The handlers of the controls.                                            *)
LEMMA HandledKeeps ==
  ASSUME MInv, Handlers
  PROVE  MInv'
<1>1. PlacesTyped /\ MServer /\ Places /\ Aligned /\ HeldSound /\ edits \in Nat /\ config \in Configs
  BY DEF MInv, PlacesTyped
<1>2. HandlerStep /\ UNCHANGED meVars
  BY <1>1, Handled
<1>3. /\ config' \in Configs /\ HeldSound'
      /\ \A h \in Holders : held'[h] = None <=> held[h] = None
      /\ edits' = edits + 1 /\ UNCHANGED <<rawData, overtaken>>
      /\ updateURL(config') \/ (KeepURL /\ Addressed(config') = Addressed(config))
      /\ view' = ViewOf(rawData, config') \/ (view' = view /\ Viewed(config') = Viewed(config))
      /\ storedTable' = config'.table
         \/ (storedTable' = storedTable /\ config'.table = config.table)
      /\ AlignKept(config') /\ AggKept(config')
  BY <1>2 DEF HandlerStep
<1>4. PlacesTyped'
  BY <1>1, <1>3, TypesKept DEF PlacesTyped
<1>5. MServer'
  <2>1. \A a \in Alignments : held'[a] = None <=> held[a] = None
    BY <1>3, MetricsHolders
  <2>2. held'[Search] = None <=> held[Search] = None
    BY <1>3, MetricsHolders
  <2> QED
    BY <1>1, <1>2, <1>3, <2>1, <2>2 DEF MServer, meVars
<1>6. Places'
  <2>1. ASSUME ~overtaken' PROVE StoredAs(config'.table, storedTable')
    BY <1>1, <1>3, <2>1 DEF Places, StoredAs
  <2>2. view' = ViewOf(rawData', config')
        \/ (view' = view /\ rawData' = rawData /\ Viewed(config') = Viewed(config))
    BY <1>3
  <2>3. AggSound(config) => AggSound(config')
    BY <1>3 DEF AggKept
  <2> QED
    BY <1>1, <1>3, <2>1, <2>2, <2>3, PlacesKept
<1>7. Aligned'
  <2>1. \A a \in Alignments : held'[a] = None => held[a] = None
    BY <1>3, MetricsHolders
  <2> QED
    BY <1>1, <1>2, <1>3, <2>1, MisalignedKept DEF meVars
<1> QED
  BY <1>4, <1>5, <1>6, <1>7 DEF MInv

(* The live update may start with the parameters of a search.                *)
LEMMA PollsStay ==
  ASSUME MServer, AbortedStarts \/ (request # None /\ (LiveStart(request.params) \/ UNCHANGED polls))
  PROVE  polls' \subseteq Parameters
<1>1. request # None => request.params \in Parameters
  BY DEF MServer, Searches
<1>2. polls \subseteq Parameters
  BY DEF MServer
<1> QED
  BY <1>1, <1>2 DEF AbortedStarts, LiveStart

(* An emptied page has the table in its default size, and all else.         *)
LEMMA EmptiedConfig ==
  ASSUME NEW c \in Configs
  PROVE  LET d == Emptied(c)
         IN /\ d \in Configs /\ d.grouping = c.grouping /\ d.chart = c.chart
            /\ Addressed(d) = Addressed(c) /\ Viewed(d) = Viewed(c)
            /\ d.table.cols = c.table.cols /\ d.table.system = c.table.system /\ d.table.size = 0
<1> DEFINE d == [c EXCEPT !.table.size = 0]
<1>1. c.table \in Tables
  BY ConfigFields
<1>2. /\ d \in Configs /\ d.grouping = c.grouping /\ d.chart = c.chart
      /\ d.table.cols = c.table.cols /\ d.table.system = c.table.system /\ d.table.size = 0
  BY <1>1 DEF Configs, Tables, Looks
<1> HIDE DEF d
<1>3. Addressed(d) = Addressed(c) /\ Viewed(d) = Viewed(c)
  BY <1>2 DEF Addressed, Viewed, getDataAsTableRows
<1> QED
  BY <1>2, <1>3 DEF Emptied, d

(* A search begins, with or without a string.                                *)
LEMMA SearchBegins ==
  ASSUME MInv, NEW c \in Configs, NEW replaced, NEW toUrl \in BOOLEAN,
         c.table = config.table, c.grouping = config.grouping, c.chart.align = config.chart.align,
         Addressed(c) = Addressed(config), Viewed(c) = Viewed(config),
         User, GetMetricsData(c, replaced, toUrl), AbortedStarts, repo' \in 0..MaxRepo,
         KeepURL, UNCHANGED <<storedTable, aligning, service>>
  PROVE  MInv'
<1>1. PlacesTyped /\ MServer /\ Places /\ Aligned /\ HeldTyped /\ edits' \in Nat /\ Search \in Holders
  BY MetricsHolders DEF MInv, PlacesTyped, HeldSound, User
<1>2. overtaken' = overtaken /\ (stale' = stale \/ stale' = FALSE) /\ polls' \subseteq Parameters
  BY <1>1, PollsStay DEF GetMetricsData
<1>3. /\ config' \in Configs /\ config'.chart = c.chart /\ config'.grouping = c.grouping
      /\ Addressed(config') = Addressed(config) /\ Viewed(config') = Viewed(config)
      /\ StoredAs(config.table, storedTable) => StoredAs(config'.table, storedTable)
      /\ HeldSound' /\ \A a \in Alignments : held'[a] = None <=> held[a] = None
  <2>1. CASE c.select = None
    <3>1. Emptied(c) \in Configs /\ WriteAndRelease(Search, Emptied(c), replaced \cup {"config"})
      BY <2>1, EmptiedConfig DEF GetMetricsData
    <3>2. config' = Emptied(c) /\ HeldSound' /\ \A h \in Holders : h # Search => (held'[h] = None <=> held[h] = None)
      BY <1>1, <3>1, AfterRelease
    <3>3. \A a \in Alignments : a \in Holders /\ a # Search
      BY MetricsHolders
    <3>4. StoredAs(config.table, storedTable) => StoredAs(config'.table, storedTable)
      BY <3>2, EmptiedConfig DEF StoredAs
    <3> QED
      BY <3>2, <3>3, <3>4, EmptiedConfig
  <2>2. CASE c.select # None
    <3>1. config' = c /\ HeldSound' /\ \A h \in Holders : h # Search => (held'[h] = None <=> held[h] = None)
      BY <1>1, <2>2, AfterHold DEF GetMetricsData
    <3>2. \A a \in Alignments : a \in Holders /\ a # Search
      BY MetricsHolders
    <3> QED
      BY <3>1, <3>2
  <2> QED
    BY <2>1, <2>2
<1>4. PlacesTyped'
  BY <1>1, <1>2, <1>3, TypesKept DEF PlacesTyped
<1>5. /\ rawData' \in Rows \cup {None} /\ request' \in Searches \cup {None}
      /\ status' \in {"NotRequested", "Pending", "Ok", "BadRequest"}
      /\ request' = None <=> held'[Search] = None
      /\ request' # None => request'.params.x = request'.align.metric
      /\ (rawData' = rawData /\ stale' = stale /\ view' = view)
         \/ (rawData' = None /\ view' = ViewOf(rawData', config'))
  <2>1. CASE c.select = None
    <3>1. request' = None /\ rawData' = None /\ view' = ViewOf(rawData', config') /\ status' = status
      BY <2>1 DEF GetMetricsData, SetModelData
    <3>2. held'[Search] = None
      <4>1. Emptied(c) \in Configs /\ WriteAndRelease(Search, Emptied(c), replaced \cup {"config"})
        BY <2>1, EmptiedConfig DEF GetMetricsData
      <4> QED
        BY <1>1, <4>1, AfterRelease
    <3> QED
      BY <1>1, <3>1, <3>2 DEF MServer
  <2>2. CASE c.select # None
    <3> DEFINE r == [params |-> Params(c), align |-> c.chart.align, toUrl |-> toUrl, phase |-> "fetching"]
    <3>1. request' = r /\ WriteAndHold(Search, c, replaced) /\ status' = "Pending"
          /\ rawData' = rawData /\ stale' = stale /\ view' = view
      BY <2>2 DEF GetMetricsData
    <3>2. held'[Search] # None
      BY <1>1, <3>1, AfterHold
    <3>3. c.chart \in Charts /\ c.select \in Selects
      BY ConfigFields
    <3>4. c.chart.align \in Alignment /\ c.chart.density \in Looks
      BY <3>3, ChartFields
    <3>5. Params(c) \in Parameters
      BY <3>3, <3>4 DEF Params, Parameters, Metric, Alignment
    <3>6. r \in Searches
      <4> HIDE DEF Params
      <4> QED
        BY <3>4, <3>5 DEF Searches
    <3>7. r.params.x = r.align.metric
      BY DEF Params, Metric
    <3> HIDE DEF r
    <3> QED
      BY <1>1, <3>1, <3>2, <3>6, <3>7, NoneIsNotAsked DEF MServer
  <2> QED
    BY <2>1, <2>2
<1>6. MServer'
  BY <1>1, <1>2, <1>3, <1>5 DEF MServer
<1>7. Places'
  <2>1. AggSound(config) => AggSound(config')
    BY <1>3, AddressedParts, AggSoundOf
  <2>2. ~overtaken' => StoredAs(config'.table, storedTable')
    BY <1>1, <1>2, <1>3 DEF Places
  <2> QED
    BY <1>1, <1>2, <1>3, <1>5, <2>1, <2>2, PlacesKept
<1>8. Aligned'
  <2>1. CASE rawData' = rawData /\ stale' = stale
    <3>1. AlignKept(config')
      BY <1>3 DEF AlignKept
    <3> QED
      BY <1>1, <1>2, <1>3, <2>1, <3>1, MisalignedKept
  <2>2. CASE rawData' = None
    BY <2>2 DEF Aligned, Misaligned
  <2> QED
    BY <1>5, <2>1, <2>2
<1> QED
  BY <1>4, <1>6, <1>7, <1>8 DEF MInv

(* The three ways to search: the button, the density, removed runs.         *)
LEMMA SearchesKeep ==
  ASSUME MInv, SearchClick \/ onDensityTypeChange \/ RunsRemoved
  PROVE  MInv'
<1>1. MServer /\ config \in Configs /\ config.chart \in Charts
  BY ConfigFields DEF MInv, PlacesTyped
<1>2. repo \in 0..MaxRepo /\ (repo < MaxRepo => repo + 1 \in 0..MaxRepo)
  BY <1>1, NoneIsNotAsked DEF MServer
<1>3. CASE SearchClick
  <2>1. PICK q \in Selects :
          GetMetricsData([config EXCEPT !.select = q], {"config", "select"}, TRUE)
    BY <1>3 DEF SearchClick
  <2>2. PICK c : c = [config EXCEPT !.select = q]
    OBVIOUS
  <2>3. c \in Configs /\ c.table = config.table /\ c.grouping = config.grouping /\ c.chart = config.chart
    BY <1>1, <2>2 DEF Configs
  <2>4. Addressed(c) = Addressed(config) /\ Viewed(c) = Viewed(config)
    BY <2>3 DEF Addressed, Viewed, getDataAsTableRows
  <2>5. /\ User /\ AbortedStarts /\ KeepURL /\ UNCHANGED <<storedTable, aligning, service>>
        /\ repo' \in 0..MaxRepo
    BY <1>2, <1>3 DEF SearchClick
  <2> QED
    BY <2>1, <2>2, <2>3, <2>4, <2>5, SearchBegins
<1>4. CASE onDensityTypeChange
  <2>1. PICK p \in Looks :
          GetMetricsData([config EXCEPT !.chart.density = p], {"config", "chart"}, TRUE)
    BY <1>4 DEF onDensityTypeChange
  <2>2. PICK c : c = [config EXCEPT !.chart.density = p]
    OBVIOUS
  <2>3. ChartOnly(c) /\ c.chart.zoomed = config.chart.zoomed /\ c.chart.stacking = config.chart.stacking
        /\ c.chart.look = config.chart.look /\ c.chart.deco = config.chart.deco
    BY <1>1, <2>2 DEF ChartOnly, Configs, Charts
  <2>4. Addressed(c) = Addressed(config) /\ Viewed(c) = Viewed(config)
    BY <2>3 DEF Addressed, Viewed, getDataAsTableRows, ChartOnly
  <2>5. /\ User /\ AbortedStarts /\ KeepURL /\ UNCHANGED <<storedTable, aligning, service>>
        /\ repo' \in 0..MaxRepo
    BY <1>2, <1>4 DEF onDensityTypeChange
  <2> QED
    BY <2>1, <2>2, <2>3, <2>4, <2>5, SearchBegins DEF ChartOnly
<1>5. CASE RunsRemoved
  <2>1. GetMetricsData(config, {}, FALSE)
    BY <1>5 DEF RunsRemoved
  <2>2. /\ User /\ AbortedStarts /\ KeepURL /\ UNCHANGED <<storedTable, aligning, service>>
        /\ repo' \in 0..MaxRepo
    BY <1>2, <1>5 DEF RunsRemoved
  <2> QED
    BY <1>1, <2>1, <2>2, SearchBegins
<1> QED
  BY <1>3, <1>4, <1>5

(* What a search sends are rows of its parameters, asked for themselves.     *)
LEMMA RowsAreRows ==
  ASSUME repo \in 0..MaxRepo, NEW s \in Parameters, NEW rows \in RowsOf(s)
  PROVE  rows \in Rows /\ rows.own = TRUE /\ rows.lacking # "alignment" /\ rows.x = s.x
BY DEF Rows, RowsOf, LackingAfterSearch, Parameters

(* The rows have come.                                                       *)
LEMMA CompletesKeeps ==
  ASSUME MInv, RequestCompletes
  PROVE  MInv'
<1>1. /\ PlacesTyped /\ MServer /\ Places /\ Aligned /\ HeldTyped /\ config \in Configs
      /\ Search \in Holders /\ edits' \in Nat /\ overtaken \in BOOLEAN
  BY MetricsHolders DEF MInv, PlacesTyped, HeldSound, RequestCompletes
<1> DEFINE new == setAggregationEnabled(config)
<1>2. new \in Configs /\ AggSound(new) /\ SameButAgg(config, new) /\ (AggSound(config) => AggOn(config, new))
  BY <1>1, AggregationSet
<1>3. config' = new /\ HeldSound' /\ held'[Search] = None
      /\ \A h \in Holders : h # Search => (held'[h] = None <=> held[h] = None)
  <2>1. WriteAndRelease(Search, new, {})
    BY DEF RequestCompletes
  <2> HIDE DEF new
  <2> QED
    BY <1>1, <1>2, <2>1, AfterRelease
<1>4. \A a \in Alignments : a \in Holders /\ a # Search
  BY MetricsHolders
<1>5. PICK rows \in RowsOf(request.params) : UpdateData(rows)
  BY DEF RequestCompletes
<1>6. request # None /\ request \in Searches /\ held[Search] # None /\ held[Search] \in Held
  BY <1>1 DEF RequestCompletes, MServer, HeldTyped
<1>7. rows \in Rows /\ rows.own = TRUE /\ rows.lacking # "alignment" /\ rows.x = request.align.metric
  <2>1. request.params \in Parameters /\ request.params.x = request.align.metric
    BY <1>1, <1>6 DEF Searches, MServer
  <2> QED
    BY <1>1, <1>5, <2>1, RowsAreRows DEF MServer
<1>8. rawData' = rows /\ view' = ViewOf(rows, config')
  BY <1>3, <1>5 DEF UpdateData, SetModelData
<1>9. PICK late \in BOOLEAN : late = (request.toUrl /\ held[Search].same["config"] # 0)
  OBVIOUS
<1>10. /\ overtaken' = (overtaken \/ late)
       /\ (request.toUrl /\ updateURL(held[Search].cfg)) \/ (~request.toUrl /\ KeepURL)
  BY <1>9 DEF RequestCompletes
<1>11. held[Search].cfg \in Configs /\ (~late /\ request.toUrl => held[Search].cfg = config)
  <2>1. held[Search].cfg \in Configs
    BY <1>6, HeldFields
  <2>2. held[Search].same["config"] = 0 => held[Search].cfg = config
    BY <1>1, <1>6 DEF PlacesTyped, HeldSound
  <2> QED
    BY <1>9, <2>1, <2>2
<1> HIDE DEF new
<1>12. PlacesTyped'
  <2>1. overtaken' \in BOOLEAN /\ ((\E c \in Configs : updateURL(c)) \/ KeepURL) /\ storedTable' = storedTable
    BY <1>1, <1>10, <1>11 DEF RequestCompletes
  <2> QED
    BY <1>1, <1>2, <1>3, <2>1, TypesKept
<1>13. MServer'
  <2>1. PICK b \in BOOLEAN : b = (request.align # config.chart.align)
    OBVIOUS
  <2>2. /\ UNCHANGED <<repo, aligning, service>> /\ status' = "Ok" /\ request' = None
        /\ stale' = b
    BY <2>1 DEF RequestCompletes
  <2>3. polls' \subseteq Parameters
    BY <1>1, <1>6, PollsStay DEF RequestCompletes
  <2> QED
    BY <1>1, <1>3, <1>4, <1>7, <1>8, <2>2, <2>3 DEF MServer
<1>14. Places'
  <2>1. ASSUME ~overtaken' PROVE /\ Shows(config, config') /\ StoredAs(config'.table, storedTable')
                                 /\ KeepURL \/ updateURL(config)
    <3>1. ~overtaken /\ ~late
      BY <1>10, <2>1
    <3>2. AggSound(config) /\ StoredAs(config.table, storedTable)
      BY <1>1, <3>1 DEF Places
    <3>3. Shows(config, config')
      BY <1>2, <1>3, <3>2, AggregationShows
    <3>4. config'.table = config.table /\ storedTable' = storedTable
      BY <1>2, <1>3 DEF RequestCompletes, SameButAgg
    <3> QED
      BY <1>10, <1>11, <3>1, <3>2, <3>3, <3>4
  <2> QED
    BY <1>1, <1>2, <1>3, <1>8, <1>10, <2>1, PlacesKept
<1>15. Aligned'
  <2>1. ~stale' => request.align = config.chart.align
    BY DEF RequestCompletes
  <2>2. config'.chart.align = config.chart.align
    BY <1>2, <1>3 DEF SameButAgg
  <2>3. ~stale' => ~Misaligned(config', rawData')
    BY <1>7, <1>8, <2>1, <2>2 DEF Misaligned, Metric
  <2> QED
    BY <2>3 DEF Aligned
<1> QED
  BY <1>12, <1>13, <1>14, <1>15 DEF MInv

(* The request fails: the config it held is the model's.                     *)
LEMMA FailsKeeps ==
  ASSUME MInv, RequestFails
  PROVE  MInv'
<1>1. /\ PlacesTyped /\ MServer /\ Places /\ HeldTyped /\ config \in Configs
      /\ Search \in Holders /\ edits' \in Nat /\ overtaken \in BOOLEAN
  BY MetricsHolders DEF MInv, PlacesTyped, HeldSound, RequestFails
<1>2. request # None /\ held[Search] # None /\ held[Search] \in Held /\ Search \in Waiting
  BY <1>1 DEF RequestFails, MServer, HeldTyped, Waiting
<1>3. held[Search].cfg \in Configs /\ (held[Search].same["config"] = 0 => held[Search].cfg = config)
  BY <1>1, <1>2, HeldFields DEF PlacesTyped, HeldSound
<1>4. PICK new : new = Emptied(held[Search].cfg)
  OBVIOUS
<1>5. new \in Configs
  BY <1>3, <1>4, EmptiedConfig
<1>6. config' = new /\ HeldSound' /\ held'[Search] = None
      /\ \A h \in Holders : h # Search => (held'[h] = None <=> held[h] = None)
  BY <1>1, <1>2, <1>4, <1>5, AfterReturn DEF RequestFails
<1>7. PICK late \in BOOLEAN : late = (held[Search].same["config"] # 0)
  OBVIOUS
<1>8. overtaken' = (overtaken \/ late)
  BY <1>7 DEF RequestFails
<1>9. rawData' = None /\ view' = ViewOf(rawData', config') /\ KeepURL /\ storedTable' = storedTable
  BY DEF RequestFails, SetModelData
<1>10. PlacesTyped'
  BY <1>1, <1>5, <1>6, <1>8, <1>9, TypesKept
<1>11. MServer'
  <2>1. \A a \in Alignments : a \in Holders /\ a # Search
    BY MetricsHolders
  <2>2. polls' \subseteq Parameters
    BY <1>1, <1>2, PollsStay DEF RequestFails
  <2>3. UNCHANGED <<repo, aligning, service>> /\ status' = "BadRequest" /\ request' = None /\ stale' = FALSE
    BY DEF RequestFails
  <2> QED
    BY <1>1, <1>6, <1>9, <2>1, <2>2, <2>3 DEF MServer
<1>12. Places'
  <2>1. ASSUME ~overtaken'
        PROVE  /\ AggSound(config) => AggSound(config')
               /\ Addressed(config') = Addressed(config)
               /\ StoredAs(config'.table, storedTable')
    <3>1. ~overtaken /\ held[Search].cfg = config
      BY <1>3, <1>7, <1>8, <2>1
    <3>2. /\ Addressed(config') = Addressed(config)
          /\ config'.table.cols = config.table.cols /\ config'.table.system = config.table.system
          /\ config'.table.size = 0
      BY <1>1, <1>4, <1>6, <3>1, EmptiedConfig
    <3>3. StoredAs(config'.table, storedTable')
      BY <1>1, <1>9, <3>1, <3>2 DEF Places, StoredAs
    <3>4. AggSound(config) => AggSound(config')
      BY <3>2, AddressedParts, AggSoundOf
    <3> QED
      BY <3>2, <3>3, <3>4
  <2> QED
    BY <1>1, <1>5, <1>6, <1>8, <1>9, <2>1, PlacesKept
<1>13. Aligned'
  BY <1>9 DEF Aligned, Misaligned
<1> QED
  BY <1>10, <1>11, <1>12, <1>13 DEF MInv

(* The stream breaks, or the user stops waiting: the config stays.           *)
LEMMA SearchEndsKeeps ==
  ASSUME MInv, StreamBreaks \/ abortRequest
  PROVE  MInv'
<1>1. /\ PlacesTyped /\ MServer /\ Places /\ Aligned /\ HeldSound /\ Search \in Holders
  BY MetricsHolders DEF MInv, PlacesTyped
<1>2. /\ UNCHANGED <<config, url, previous, storedTable, rawData, view, overtaken,
                     repo, aligning, service, stale>>
      /\ Release(Search) /\ request' = None /\ status' \in {status, "Ok"} /\ edits' \in Nat
      /\ AbortedStarts \/ (request # None /\ LiveStart(request.params))
  <2>1. CASE StreamBreaks
    BY <1>1, <2>1 DEF StreamBreaks, PlacesTyped
  <2>2. CASE abortRequest
    BY <1>1, <2>2 DEF abortRequest, User, PlacesTyped
  <2> QED
    BY <2>1, <2>2
<1>3. HeldSound' /\ held'[Search] = None /\ \A h \in Holders : h # Search => held'[h] = held[h]
  BY <1>1, <1>2, AfterEnd
<1>4. \A a \in Alignments : held'[a] = held[a]
  BY <1>3, MetricsHolders
<1>5. PlacesTyped'
  BY <1>1, <1>2, <1>3 DEF PlacesTyped
<1>6. MServer'
  <2>1. polls' \subseteq Parameters
    BY <1>1, <1>2, PollsStay
  <2> QED
    BY <1>1, <1>2, <1>3, <1>4, <2>1 DEF MServer
<1>7. Places'
  BY <1>1, <1>2 DEF Places, AggSound, isGroupingApplied, Shows, AggOn, Computed, Viewed, getDataAsTableRows, StoredAs
<1>8. Aligned'
  <2>1. AlignKept(config')
    BY <1>2 DEF AlignKept
  <2> QED
    BY <1>1, <1>2, <1>4, <2>1, MisalignedKept
<1> QED
  BY <1>5, <1>6, <1>7, <1>8 DEF MInv

(* Steps that touch neither the config nor the rows.                         *)
LEMMA ConfigKeeps ==
  ASSUME MInv, ResponseBegins \/ OthersChangeRepository
  PROVE  MInv'
<1>1. PlacesTyped /\ MServer /\ Places /\ Aligned
  BY DEF MInv
<1>2. UNCHANGED <<configVars, aligning, status, service, polls, stale>>
  BY DEF ResponseBegins, OthersChangeRepository
<1>3. PlacesTyped'
  BY <1>1, <1>2 DEF PlacesTyped, configVars, HeldSound, HeldTyped
<1>4. repo' \in 0..MaxRepo
  BY <1>1, NoneIsNotAsked DEF MServer, ResponseBegins, OthersChangeRepository
<1>5. /\ request' \in Searches \cup {None}
      /\ request' = None <=> request = None
      /\ request' # None => request'.params.x = request'.align.metric
  <2>1. CASE ResponseBegins
    <3>1. request # None /\ request \in Searches /\ request' = [request EXCEPT !.phase = "streaming"]
      BY <1>1, <2>1 DEF ResponseBegins, MServer
    <3>2. request' \in Searches /\ request'.params = request.params /\ request'.align = request.align
      BY <3>1 DEF Searches
    <3> QED
      BY <1>1, <3>1, <3>2, NoneIsNotAsked DEF MServer
  <2>2. CASE OthersChangeRepository
    BY <1>1, <2>2 DEF OthersChangeRepository, MServer
  <2> QED
    BY <2>1, <2>2
<1>6. MServer'
  <2>1. request' = None <=> held'[Search] = None
    BY <1>1, <1>2, <1>5 DEF MServer, configVars
  <2>2. UNCHANGED <<held, rawData, aligning, status, service, polls, stale>>
    BY <1>2 DEF configVars
  <2> QED
    BY <1>1, <1>4, <1>5, <2>1, <2>2 DEF MServer
<1>7. Places'
  BY <1>1, <1>2 DEF Places, AggSound, isGroupingApplied, Shows, AggOn, Computed, Viewed, getDataAsTableRows, StoredAs, configVars
<1>8. Aligned'
  BY <1>1, <1>2 DEF Aligned, Misaligned, Metric, configVars
<1> QED
  BY <1>3, <1>6, <1>7, <1>8 DEF MInv

(* The alignment by a metric is asked for.                                   *)
LEMMA AskingKeeps ==
  ASSUME MInv, onAlignmentMetricChange
  PROVE  MInv'
<1>1. /\ PlacesTyped /\ MServer /\ Places /\ Aligned /\ HeldTyped /\ config \in Configs
      /\ config.chart \in Charts /\ edits' \in Nat /\ overtaken \in BOOLEAN
  BY ConfigFields DEF MInv, PlacesTyped, HeldSound, onAlignmentMetricChange, User
<1> DEFINE with(m) == [config EXCEPT !.chart.align = [type |-> "custom", metric |-> m],
                                     !.chart.extent = FALSE, !.chart.zoomed = FALSE]
<1>2. PICK m \in Metrics :
        /\ updateURL(with(m))
        /\ \/ rawData = None /\ Write(with(m), {"chart"}) /\ UNCHANGED <<aligning, status>>
           \/ \E a \in Alignments :
                /\ held[a] = None /\ WriteAndHold(a, with(m), {"chart"})
                /\ aligning' = [aligning EXCEPT ![a] = [metric |-> m, rows |-> rawData]]
                /\ status' = "Pending"
  BY DEF onAlignmentMetricChange
<1>3. PICK new : new = with(m)
  OBVIOUS
<1>4. /\ new \in Configs /\ new.table = config.table /\ new.grouping = config.grouping
      /\ new.chart.agg = config.chart.agg /\ new.chart.look = config.chart.look
  <2>1. PICK align \in Alignment : align = [type |-> "custom", metric |-> m]
    BY DEF Alignment
  <2> QED
    BY <1>1, <1>3, <2>1 DEF Configs, Charts
<1>5. UNCHANGED <<storedTable, rawData, view, overtaken, repo, request, service, polls, stale>>
  BY DEF onAlignmentMetricChange
<1> HIDE DEF with
<1>6. ASSUME rawData = None, Write(new, {"chart"}), UNCHANGED <<aligning, status>>
      PROVE  config' = new /\ HeldSound' /\ MServer' /\ Aligned'
  <2>1. config' = new /\ HeldSound' /\ \A h \in Holders : held'[h] = None <=> held[h] = None
    BY <1>1, <1>4, <1>6, AfterWrite
  <2>2. Search \in Holders /\ \A a \in Alignments : a \in Holders
    BY MetricsHolders
  <2>3. MServer'
    BY <1>1, <1>5, <1>6, <2>1, <2>2 DEF MServer
  <2>4. Aligned'
    BY <1>5, <1>6 DEF Aligned, Misaligned
  <2> QED
    BY <2>1, <2>3, <2>4
<1>7. ASSUME NEW a \in Alignments, held[a] = None, WriteAndHold(a, new, {"chart"}),
             aligning' = [aligning EXCEPT ![a] = [metric |-> m, rows |-> rawData]], status' = "Pending"
      PROVE  config' = new /\ HeldSound' /\ MServer' /\ Aligned'
  <2>1. a \in Holders /\ Search \in Holders /\ a # Search /\ \A b \in Alignments : b \in Holders
    BY MetricsHolders
  <2>2. config' = new /\ HeldSound' /\ held'[a] # None
        /\ \A h \in Holders : h # a => (held'[h] = None <=> held[h] = None)
    BY <1>1, <1>4, <1>7, <2>1, AfterHold
  <2>3. PICK asked \in Asked : asked = [metric |-> m, rows |-> rawData]
    BY <1>1 DEF MServer, Asked
  <2>4. /\ aligning' \in [Alignments -> Asked \cup {None}]
        /\ \A b \in Alignments : aligning'[b] = None <=> held'[b] = None
    BY <1>1, <1>7, <2>1, <2>2, <2>3, NoneIsNotAsked DEF MServer
  <2>5. MServer'
    BY <1>1, <1>5, <1>7, <2>1, <2>2, <2>4 DEF MServer
  <2>6. Aligned'
    BY <2>2 DEF Aligned
  <2> QED
    BY <2>2, <2>5, <2>6
<1>8. config' = new /\ HeldSound' /\ MServer' /\ Aligned' /\ updateURL(new)
  BY <1>2, <1>3, <1>6, <1>7
<1>9. PlacesTyped'
  BY <1>1, <1>4, <1>5, <1>8, TypesKept
<1>10. Places'
  <2>1. AggSound(config) => AggSound(config')
    BY <1>4, <1>8, AggSoundOf
  <2>2. Viewed(config') = Viewed(config)
    BY <1>4, <1>8 DEF Viewed, getDataAsTableRows
  <2>3. ~overtaken' => StoredAs(config'.table, storedTable')
    BY <1>1, <1>4, <1>5, <1>8 DEF Places
  <2> QED
    BY <1>1, <1>4, <1>5, <1>8, <2>1, <2>2, <2>3, PlacesKept
<1> QED
  BY <1>8, <1>9, <1>10 DEF MInv

(* An answer to an alignment sets what becomes of new, a change of the       *)
(* config it held: all but its aggregation, which may be enabled now.        *)
LEMMA HeldDataSet ==
  ASSUME PlacesTyped, Places, NEW a \in Alignments, held[a] # None, NEW rows, NEW replaced,
         NEW new \in Configs, NEW set \in Configs,
         new.table = held[a].cfg.table, Addressed(new) = Addressed(held[a].cfg),
         SameButAgg(new, set), HeldIsModel(a) => (AggSound(new) => AggSound(set) /\ AggOn(new, set)),
         Return(a, set, replaced), SetModelData(rows, IF HeldIsModel(a) THEN new ELSE config),
         Overtakes(a), (updateURL(new) /\ set = new) \/ KeepURL, UNCHANGED <<storedTable, edits>>
  PROVE  /\ PlacesTyped' /\ Places' /\ held'[a] = None /\ rawData' = rows /\ (overtaken => overtaken')
         /\ \A h \in Holders : h # a => (held'[h] = None <=> held[h] = None)
         /\ ~overtaken' => held[a].cfg = config /\ config'.chart.align = new.chart.align
<1>1. HeldTyped /\ config \in Configs /\ a \in Holders /\ a \in Waiting /\ held[a] \in Held
  BY MetricsHolders DEF PlacesTyped, HeldSound, HeldTyped, Waiting
<1>2. HeldIsModel(a) => held[a].cfg = config
  BY <1>1 DEF PlacesTyped, HeldSound, HeldIsModel
<1>3. config' = set /\ HeldSound' /\ held'[a] = None
      /\ \A h \in Holders : h # a => (held'[h] = None <=> held[h] = None)
  BY <1>1, AfterReturn
<1>4. overtaken' \in BOOLEAN /\ (overtaken => overtaken') /\ (~overtaken' => HeldIsModel(a))
  BY DEF PlacesTyped, Overtakes, HeldIsModel
<1>5. rawData' = rows /\ view' = ViewOf(rows, IF HeldIsModel(a) THEN new ELSE config)
  BY DEF SetModelData
<1>6. PlacesTyped'
  <2>1. edits' \in Nat
    BY DEF PlacesTyped
  <2> QED
    BY <1>3, <1>4, <2>1, TypesKept
<1>7. ASSUME ~overtaken'
      PROVE  /\ AggSound(config) => AggSound(config')
             /\ updateURL(config') \/ (KeepURL /\ Shows(config, config'))
             /\ view' = ViewOf(rawData', config')
             /\ StoredAs(config'.table, storedTable')
  <2>1. ~overtaken /\ HeldIsModel(a) /\ held[a].cfg = config
    BY <1>2, <1>4, <1>7
  <2>2. AggSound(config) /\ StoredAs(config.table, storedTable)
    BY <2>1 DEF Places
  <2>3. AggSound(new)
    BY <2>1, <2>2, AddressedParts, AggSoundOf
  <2>4. AggSound(set) /\ AggOn(new, set)
    BY <2>1, <2>3
  <2>5. Shows(config, set)
    BY <2>1, <2>4, AddressedShows, AggregationShows, ShowsOn
  <2>6. ViewOf(rows, new) = ViewOf(rows, set)
    BY DEF ViewOf, processData, groupData, alignData, getDataAsTableRows, SameButAgg
  <2> QED
    BY <1>3, <1>5, <2>1, <2>2, <2>4, <2>5, <2>6 DEF SameButAgg
<1>8. Places'
  BY <1>3, <1>4, <1>7, PlacesKept
<1>9. ~overtaken' => held[a].cfg = config /\ config'.chart.align = new.chart.align
  BY <1>2, <1>3, <1>4 DEF SameButAgg
<1> QED
  BY <1>3, <1>4, <1>5, <1>6, <1>8, <1>9

(* The aggregation of the config an answer sets comes from the model's own.  *)
LEMMA HeldAggregated ==
  ASSUME NEW a, NEW new \in Configs, config \in Configs, NEW rows, NEW replaced,
         SetHeldData(a, rows, new, replaced)
  PROVE  \E set \in Configs :
           /\ Return(a, set, replaced) /\ SameButAgg(new, set)
           /\ HeldIsModel(a) => (AggSound(new) => AggSound(set) /\ AggOn(new, set))
<1>1. PICK model \in Configs : model = IF HeldIsModel(a) THEN new ELSE config
  OBVIOUS
<1>2. PICK on \in Configs : on = setAggregationEnabled(model)
  BY AggregationSet
<1>3. /\ AggSound(on) /\ SameButAgg(model, on) /\ (AggSound(model) => AggOn(model, on))
      /\ on.chart.agg \in [enabled : BOOLEAN, applied : BOOLEAN]
  BY <1>2, AggregationSet, ConfigFields, ChartFields
<1>4. PICK set : set = IF held[a].same["agg"] = 0 THEN [new EXCEPT !.chart.agg = on.chart.agg] ELSE new
  OBVIOUS
<1>5. Return(a, set, replaced)
  BY <1>1, <1>2, <1>4 DEF SetHeldData
<1>6. CASE set = new
  BY <1>5, <1>6 DEF SameButAgg, AggOn
<1>7. CASE set = [new EXCEPT !.chart.agg = on.chart.agg]
  <2>1. new.chart \in Charts
    BY ConfigFields
  <2>2. set \in Configs
    BY <1>3, <1>7, <2>1 DEF Configs, Charts
  <2>3. SameButAgg(new, set) /\ set.chart.agg = on.chart.agg
    BY <1>3, <1>7, <2>1 DEF SameButAgg, Configs, Charts
  <2>4. ASSUME HeldIsModel(a), AggSound(new) PROVE AggSound(set) /\ AggOn(new, set)
    <3>1. model = new /\ set.grouping = on.grouping
      BY <1>1, <1>3, <2>3, <2>4 DEF SameButAgg
    <3> QED
      BY <1>3, <2>3, <2>4, <3>1, AggSoundOf DEF AggOn
  <2> QED
    BY <1>5, <2>2, <2>3, <2>4
<1> QED
  BY <1>4, <1>6, <1>7

(* The alignment of a config is changed.                                     *)
LEMMA AlignmentChanged ==
  ASSUME NEW c \in Configs, NEW align \in Alignment
  PROVE  LET new == [c EXCEPT !.chart.align = align]
         IN /\ new \in Configs /\ new.table = c.table /\ new.grouping = c.grouping
            /\ Addressed(new) = Addressed(c) /\ new.chart.align = align
<1> DEFINE new == [c EXCEPT !.chart.align = align]
<1>1. c.chart \in Charts
  BY ConfigFields
<1>2. /\ new \in Configs /\ new.table = c.table /\ new.grouping = c.grouping
      /\ new.chart.align = align
  BY <1>1 DEF Configs, Charts
<1>3. /\ new.chart.agg = c.chart.agg /\ new.chart.zoomed = c.chart.zoomed
      /\ new.chart.stacking = c.chart.stacking /\ new.chart.look = c.chart.look
      /\ new.chart.deco = c.chart.deco
  BY <1>1 DEF Charts
<1> HIDE DEF new
<1>4. Addressed(new) = Addressed(c)
  BY <1>2, <1>3 DEF Addressed
<1> QED
  BY <1>2, <1>4 DEF new

(* The request a is answered, whatever the answer.                           *)
LEMMA AlignmentEnded ==
  ASSUME MServer, NEW a \in Alignments, rawData' \in Rows \cup {None}, stale' \in BOOLEAN,
         aligning' = [aligning EXCEPT ![a] = None], held'[a] = None,
         \A h \in Holders : h # a => (held'[h] = None <=> held[h] = None),
         status' \in {"Ok", "BadRequest"}, UNCHANGED <<repo, request, service, polls>>
  PROVE  MServer'
<1>1. a # Search /\ Search \in Holders /\ \A b \in Alignments : b \in Holders
  BY MetricsHolders
<1>2. /\ aligning' \in [Alignments -> Asked \cup {None}]
      /\ \A b \in Alignments : aligning'[b] = None <=> held'[b] = None
  BY <1>1 DEF MServer
<1> QED
  BY <1>1, <1>2 DEF MServer

(* An alignment is answered, with values for every trace or not.            *)
LEMMA AnswerKeeps ==
  ASSUME MInv, NEW a \in Alignments, AlignmentAnswered(a)
  PROVE  MInv'
<1>1. /\ PlacesTyped /\ MServer /\ Places /\ HeldTyped /\ a \in Holders
  BY MetricsHolders DEF MInv, PlacesTyped, HeldSound
<1>2. aligning[a] \in Asked /\ held[a] # None /\ held[a] \in Held
  BY <1>1 DEF AlignmentAnswered, MServer, HeldTyped
<1>3. held[a].cfg \in Configs /\ aligning[a].metric \in Metrics
  BY <1>2, HeldFields DEF Asked
<1>4. PICK complete, rows :
        /\ complete \in BOOLEAN
        /\ rows = Attached(a, complete)
        /\ SetHeldData(a, rows, Realigned(held[a].cfg, complete), IF complete THEN {} ELSE {"chart"})
        /\ stale' = (stale \/ (rows # None /\ ~rows.own) \/ Metric(held[a].cfg) # aligning[a].metric)
  BY DEF AlignmentAnswered
<1>5. rows \in Rows \cup {None}
      /\ (rows # None => rows.x = aligning[a].metric /\ (complete => rows.lacking = "none"))
  <2> DEFINE asked == aligning[a].rows
  <2>1. CASE rawData = None
    BY <1>4, <2>1 DEF Attached
  <2>2. CASE rawData # None
    <3>1. PICK own \in BOOLEAN : own = (asked = None \/ (rawData.q = asked.q /\ rawData.repo = asked.repo))
      OBVIOUS
    <3>2. PICK lacking \in {"none", "alignment"} : lacking = IF complete THEN "none" ELSE "alignment"
      OBVIOUS
    <3>3. rows = [rawData EXCEPT !.x = aligning[a].metric, !.own = own, !.lacking = lacking]
      BY <1>4, <2>2, <3>1, <3>2 DEF Attached
    <3>4. rawData \in Rows
      BY <1>1, <2>2 DEF MServer
    <3> QED
      BY <1>3, <3>2, <3>3, <3>4 DEF Rows
  <2> QED
    BY <2>1, <2>2
<1>6. PICK new : new = Realigned(held[a].cfg, complete)
  OBVIOUS
<1>7. /\ new \in Configs /\ new.table = held[a].cfg.table /\ Addressed(new) = Addressed(held[a].cfg)
      /\ (complete /\ new = held[a].cfg) \/ new.chart.align.type # "custom"
  <2>1. CASE complete
    BY <1>3, <1>6, <2>1 DEF Realigned
  <2>2. CASE ~complete
    <3>1. PICK step \in Alignment : step = [type |-> "step", metric |-> None]
      BY DEF Alignment
    <3>2. new = [held[a].cfg EXCEPT !.chart.align = step]
      BY <1>6, <2>2, <3>1 DEF Realigned
    <3>3. /\ new \in Configs /\ new.table = held[a].cfg.table /\ Addressed(new) = Addressed(held[a].cfg)
          /\ new.chart.align = step
      BY <1>3, <3>2, AlignmentChanged
    <3> QED
      BY <3>1, <3>3
  <2> QED
    BY <2>1, <2>2
<1>8. PICK replaced : SetHeldData(a, rows, new, replaced)
  BY <1>4, <1>6
<1>9. PICK set \in Configs :
        /\ Return(a, set, replaced) /\ SameButAgg(new, set)
        /\ HeldIsModel(a) => (AggSound(new) => AggSound(set) /\ AggOn(new, set))
  <2>1. config \in Configs
    BY <1>1 DEF PlacesTyped
  <2> QED
    BY <1>7, <1>8, <2>1, HeldAggregated
<1>10. SetModelData(rows, IF HeldIsModel(a) THEN new ELSE config) /\ Overtakes(a)
  BY <1>8 DEF SetHeldData
<1>11. /\ aligning' = [aligning EXCEPT ![a] = None] /\ status' = "Ok" /\ KeepURL
       /\ UNCHANGED <<storedTable, edits, repo, request, service, polls>>
  BY DEF AlignmentAnswered
<1>12. /\ PlacesTyped' /\ Places' /\ held'[a] = None /\ rawData' = rows /\ (overtaken => overtaken')
       /\ \A h \in Holders : h # a => (held'[h] = None <=> held[h] = None)
       /\ ~overtaken' => held[a].cfg = config /\ config'.chart.align = new.chart.align
  BY <1>1, <1>2, <1>7, <1>9, <1>10, <1>11, HeldDataSet
<1>13. PICK worse \in BOOLEAN :
         worse = ((rows # None /\ ~rows.own) \/ Metric(held[a].cfg) # aligning[a].metric)
  OBVIOUS
<1>14. stale' = (stale \/ worse) /\ stale' \in BOOLEAN
  BY <1>1, <1>4, <1>13 DEF MServer
<1>15. MServer'
  BY <1>1, <1>5, <1>11, <1>12, <1>14, AlignmentEnded
<1>16. Aligned'
  <2>1. ASSUME ~stale', ~overtaken', rawData' # None, config'.chart.align.type = "custom"
        PROVE  rawData'.x = Metric(config') /\ rawData'.own /\ rawData'.lacking # "alignment"
    <3>1. rows.own /\ Metric(held[a].cfg) = aligning[a].metric
      BY <1>12, <1>13, <1>14, <2>1
    <3>2. complete /\ config'.chart.align = held[a].cfg.chart.align
      BY <1>7, <1>12, <2>1
    <3> QED
      BY <1>5, <1>12, <2>1, <3>1, <3>2 DEF Metric
  <2> QED
    BY <2>1 DEF Aligned, Misaligned
<1> QED
  BY <1>12, <1>15, <1>16 DEF MInv

(* An alignment fails: by step again, for the config it held.               *)
LEMMA NoAnswerKeeps ==
  ASSUME MInv, NEW a \in Alignments, AlignmentFails(a)
  PROVE  MInv'
<1>1. /\ PlacesTyped /\ MServer /\ Places /\ HeldTyped /\ a \in Holders
  BY MetricsHolders DEF MInv, PlacesTyped, HeldSound
<1>2. aligning[a] \in Asked /\ held[a] # None /\ held[a] \in Held
  BY <1>1 DEF AlignmentFails, MServer, HeldTyped
<1>3. held[a].cfg \in Configs /\ aligning[a].metric \in Metrics
  BY <1>2, HeldFields DEF Asked
<1>4. PICK step \in Alignment : step = [type |-> "step", metric |-> aligning[a].metric]
  BY <1>3 DEF Alignment
<1>5. PICK new : new = [held[a].cfg EXCEPT !.chart.align = step]
  OBVIOUS
<1>6. /\ new \in Configs /\ new.table = held[a].cfg.table
      /\ Addressed(new) = Addressed(held[a].cfg) /\ new.chart.align = step
  BY <1>3, <1>5, AlignmentChanged
<1>7. /\ Return(a, new, {"chart"}) /\ SetModelData(rawData, IF HeldIsModel(a) THEN new ELSE config)
      /\ Overtakes(a) /\ updateURL(new)
  BY <1>4, <1>5 DEF AlignmentFails
<1>8. /\ aligning' = [aligning EXCEPT ![a] = None] /\ status' = "BadRequest"
      /\ UNCHANGED <<storedTable, edits, repo, request, service, polls, stale>>
  BY DEF AlignmentFails
<1>9. /\ PlacesTyped' /\ Places' /\ held'[a] = None /\ rawData' = rawData /\ (overtaken => overtaken')
      /\ \A h \in Holders : h # a => (held'[h] = None <=> held[h] = None)
      /\ ~overtaken' => held[a].cfg = config /\ config'.chart.align = new.chart.align
  <2>1. SameButAgg(new, new) /\ AggOn(new, new)
    BY DEF SameButAgg, AggOn
  <2> QED
    BY <1>1, <1>2, <1>6, <1>7, <1>8, <2>1, HeldDataSet
<1>10. MServer'
  <2>1. rawData' \in Rows \cup {None} /\ stale' \in BOOLEAN
    BY <1>1, <1>8, <1>9 DEF MServer
  <2> QED
    BY <1>1, <1>8, <1>9, <2>1, AlignmentEnded
<1>11. Aligned'
  <2>1. ~overtaken' => config'.chart.align.type # "custom"
    BY <1>4, <1>6, <1>9
  <2> QED
    BY <2>1 DEF Aligned, Misaligned
<1> QED
  BY <1>9, <1>10, <1>11 DEF MInv

(* A result of the live update.                                              *)
LEMMA LiveKeeps ==
  ASSUME MInv, LiveUpdateArrives
  PROVE  MInv'
<1>1. PlacesTyped /\ MServer /\ Places /\ HeldTyped /\ config \in Configs
  BY DEF MInv, PlacesTyped, HeldSound
<1>2. PICK s \in polls :
        \E rows \in RowsOf(s) : UpdateData(rows) /\ stale' = Misaligned(config, rows)
  BY DEF LiveUpdateArrives
<1>3. PICK rows \in Rows : UpdateData(rows) /\ stale' = Misaligned(config, rows)
  BY <1>1, <1>2, RowsAreRows DEF MServer
<1> DEFINE new == setAggregationEnabled(config)
<1>5. new \in Configs /\ AggSound(new) /\ SameButAgg(config, new) /\ (AggSound(config) => AggOn(config, new))
  BY <1>1, AggregationSet
<1>6. Write(new, {}) /\ rawData' = rows /\ view' = ViewOf(rows, new)
  BY <1>3 DEF LiveUpdateArrives, UpdateData, SetModelData
<1> HIDE DEF new
<1>7. config' = new /\ HeldSound' /\ \A h \in Holders : held'[h] = None <=> held[h] = None
  BY <1>1, <1>5, <1>6, AfterWrite
<1>8. UNCHANGED <<storedTable, edits, overtaken, repo, request, aligning, service, polls>>
      /\ status' = "Ok" /\ KeepURL
  BY DEF LiveUpdateArrives
<1>9. PICK wrong \in BOOLEAN : wrong = Misaligned(config, rows)
  BY DEF Misaligned
<1>10. stale' = wrong
  BY <1>3, <1>9
<1>11. PlacesTyped'
  <2>1. edits' \in Nat /\ overtaken' \in BOOLEAN
    BY <1>1, <1>8 DEF PlacesTyped
  <2> QED
    BY <1>1, <1>5, <1>7, <1>8, <2>1, TypesKept
<1>12. MServer'
  <2>1. Search \in Holders /\ \A a \in Alignments : a \in Holders
    BY MetricsHolders
  <2> QED
    BY <1>1, <1>3, <1>6, <1>7, <1>8, <1>10, <2>1 DEF MServer
<1>13. Places'
  <2>1. ASSUME ~overtaken' PROVE Shows(config, config') /\ StoredAs(config'.table, storedTable')
    <3>1. AggSound(config) /\ StoredAs(config.table, storedTable)
      BY <1>1, <1>8, <2>1 DEF Places
    <3>2. Shows(config, config')
      BY <1>5, <1>7, <3>1, AggregationShows
    <3> QED
      BY <1>5, <1>7, <1>8, <3>1, <3>2 DEF SameButAgg
  <2> QED
    BY <1>1, <1>5, <1>6, <1>7, <1>8, <2>1, PlacesKept
<1>14. Aligned'
  <2>1. config'.chart.align = config.chart.align
    BY <1>5, <1>7 DEF SameButAgg
  <2>2. ~stale' => ~Misaligned(config', rawData')
    BY <1>6, <1>9, <1>10, <2>1 DEF Misaligned, Metric
  <2> QED
    BY <2>2 DEF Aligned
<1> QED
  BY <1>11, <1>12, <1>13, <1>14 DEF MInv

(* The switch of the live update.                                            *)
LEMMA SwitchKeeps ==
  ASSUME MInv, changeLiveUpdateConfig
  PROVE  MInv'
<1>1. /\ PlacesTyped /\ MServer /\ Places /\ Aligned /\ HeldTyped /\ config \in Configs
      /\ config.live \in BOOLEAN /\ edits' \in Nat
  BY ConfigFields DEF MInv, PlacesTyped, HeldSound, changeLiveUpdateConfig, User
<1>2. PICK live \in BOOLEAN : live = ~config.live
  BY <1>1
<1>3. PICK new : new = [config EXCEPT !.live = live]
  OBVIOUS
<1>4. new \in Configs /\ new.table = config.table /\ new.grouping = config.grouping /\ new.chart = config.chart
  BY <1>1, <1>3 DEF Configs
<1>5. Write(new, {"config"})
  BY <1>2, <1>3 DEF changeLiveUpdateConfig
<1>6. config' = new /\ HeldSound' /\ \A h \in Holders : held'[h] = None <=> held[h] = None
  BY <1>1, <1>4, <1>5, AfterWrite
<1>7. UNCHANGED <<storedTable, rawData, view, overtaken, repo, request, aligning, status, stale>> /\ KeepURL
  BY DEF changeLiveUpdateConfig
<1>8. PlacesTyped'
  <2>1. overtaken' \in BOOLEAN
    BY <1>1, <1>7 DEF PlacesTyped
  <2> QED
    BY <1>1, <1>4, <1>6, <1>7, <2>1, TypesKept
<1>9. MServer'
  <2>1. Search \in Holders /\ \A a \in Alignments : a \in Holders
    BY MetricsHolders
  <2>2. PICK on \in BOOLEAN : on = (live /\ config.select # None)
    OBVIOUS
  <2>3. service' = [stored |-> live, on |-> on]
    BY <1>2, <2>2 DEF changeLiveUpdateConfig
  <2>4. polls' = IF on THEN polls \cup {Params(config)} ELSE polls
    BY <1>2, <2>2 DEF changeLiveUpdateConfig
  <2>5. Params(config) \in Parameters
    <3>1. config.chart \in Charts /\ config.select \in Selects
      BY <1>1, ConfigFields
    <3>2. config.chart.align \in Alignment /\ config.chart.density \in Looks
      BY <3>1, ChartFields
    <3> QED
      BY <3>1, <3>2 DEF Params, Parameters, Metric, Alignment
  <2>6. service' \in [stored : BOOLEAN, on : BOOLEAN]
    BY <2>3
  <2>7. polls' \subseteq Parameters
    BY <1>1, <2>4, <2>5 DEF MServer
  <2> QED
    BY <1>1, <1>6, <1>7, <2>1, <2>6, <2>7 DEF MServer
<1>10. Places'
  <2>1. AggSound(config) => AggSound(config')
    BY <1>4, <1>6, AggSoundOf
  <2>2. Addressed(config') = Addressed(config) /\ Viewed(config') = Viewed(config)
    BY <1>4, <1>6 DEF Addressed, Viewed, getDataAsTableRows
  <2>3. ~overtaken' => StoredAs(config'.table, storedTable')
    BY <1>1, <1>4, <1>6, <1>7 DEF Places
  <2> QED
    BY <1>1, <1>4, <1>6, <1>7, <2>1, <2>2, <2>3, PlacesKept
<1>11. Aligned'
  <2>1. AlignKept(config') /\ \A a \in Alignments : a \in Holders
    BY <1>4, <1>6, MetricsHolders DEF AlignKept
  <2> QED
    BY <1>1, <1>6, <1>7, <2>1, MisalignedKept
<1> QED
  BY <1>8, <1>9, <1>10, <1>11 DEF MInv

(* The Back button: the config is read from the address one step back.      *)
LEMMA BackKeeps ==
  ASSUME MInv, BrowserBack
  PROVE  MInv'
<1>1. /\ PlacesTyped /\ MServer /\ Places /\ HeldTyped /\ config \in Configs /\ edits' \in Nat
      /\ previous # <<>> /\ url' = previous[1] /\ previous' = <<>>
  BY DEF MInv, PlacesTyped, HeldSound, BrowserBack, Back, User
<1>2. url' \in Urls \cup {None}
  BY <1>1 DEF PlacesTyped
<1>3. PICK c \in Configs : c = [config EXCEPT !.live = service.stored]
  BY <1>1 DEF Configs, MServer
<1>4. c.grouping = config.grouping /\ c.chart = config.chart /\ c.table = config.table
  BY <1>1, <1>3 DEF Configs
<1>5. PICK new : new = setDefaultAppConfigData(c, url')
  OBVIOUS
<1>6. PICK shown : shown = IF url' = None THEN UrlOf(c) ELSE url'
  OBVIOUS
<1>7. /\ new \in Configs /\ Addressed(new) = Addressed(shown)
      /\ StoredAs(new.table, storedTable) /\ (AggSound(shown) => AggSound(new))
  BY <1>1, <1>2, <1>3, <1>5, <1>6, Merged, MergedTable
<1>8. /\ Write(new, Levels) /\ view' = ViewOf(rawData, new)
      /\ UNCHANGED <<storedTable, rawData, overtaken, repo, request, aligning, status, service, polls>>
  BY <1>3, <1>5 DEF BrowserBack, Back, Recompute
<1>9. config' = new /\ HeldSound' /\ \A h \in Holders : held'[h] = None <=> held[h] = None
  BY <1>1, <1>7, <1>8, AfterWrite
<1>10. PICK wrong \in BOOLEAN : wrong = Misaligned(config', rawData)
  BY DEF Misaligned
<1>11. stale' = (stale \/ wrong) /\ stale' \in BOOLEAN
  BY <1>1, <1>10 DEF BrowserBack, MServer
<1>12. PlacesTyped'
  BY <1>1, <1>2, <1>7, <1>8, <1>9 DEF PlacesTyped
<1>13. MServer'
  <2>1. Search \in Holders /\ \A a \in Alignments : a \in Holders
    BY MetricsHolders
  <2> QED
    BY <1>1, <1>8, <1>9, <1>11, <2>1 DEF MServer
<1>14. Places'
  <2>1. ASSUME ~overtaken'
        PROVE  /\ AggSound(config') /\ (url' # None => AggSound(url') /\ Shows(url', config'))
               /\ view'.data.rows = rawData' /\ Computed(view') = Viewed(config')
               /\ StoredAs(config'.table, storedTable')
    <3>1. AggSound(shown)
      <4>1. AggSound(config) /\ (previous[1] # None => AggSound(previous[1]))
        BY <1>1, <1>8, <2>1 DEF Places
      <4>2. AggSound(UrlOf(c))
        <5>1. UrlOf(c).grouping = config.grouping /\ UrlOf(c).chart.agg = config.chart.agg
          BY <1>4 DEF UrlOf
        <5> QED
          BY <4>1, <5>1, AggSoundOf
      <4> QED
        BY <1>1, <1>6, <4>1, <4>2
    <3>2. AggSound(config') /\ (url' # None => AggSound(url') /\ Shows(url', config'))
      BY <1>6, <1>7, <1>9, <3>1, AddressedShows
    <3>3. view'.data.rows = rawData' /\ Computed(view') = Viewed(config')
      BY <1>8, <1>9, ViewComputed
    <3> QED
      BY <1>7, <1>8, <1>9, <3>2, <3>3
  <2> QED
    BY <1>1, <2>1 DEF Places, AggSound, Shows, AggOn, Computed, Viewed, getDataAsTableRows, StoredAs, isGroupingApplied
<1>15. Aligned'
  BY <1>8, <1>10, <1>11 DEF Aligned
<1> QED
  BY <1>12, <1>13, <1>14, <1>15 DEF MInv

(* The page is opened again.                                                 *)
LEMMA ReopenedKeeps ==
  ASSUME MInv, Reinitialize
  PROVE  MInv'
<1>1. /\ PlacesTyped /\ MServer /\ Places /\ HeldTyped /\ edits' \in Nat /\ Search \in Holders
      /\ url \in Urls \cup {None} /\ service.stored \in BOOLEAN
  BY MetricsHolders DEF MInv, PlacesTyped, HeldSound, Reinitialize, User, MServer
<1>2. PICK c \in Configs : c = [getConfig EXCEPT !.live = service.stored]
  BY <1>1, DefaultConfig DEF Configs
<1>3. AggSound(UrlOf(c))
  <2>1. UrlOf(c).grouping = getConfig.grouping /\ UrlOf(c).chart = getConfig.chart
    BY <1>2 DEF UrlOf, getConfig
  <2>2. getConfig.chart.agg = [enabled |-> FALSE, applied |-> FALSE]
    BY DEF getConfig
  <2> HIDE DEF UrlOf
  <2>3. UrlOf(c).chart.agg.enabled = FALSE /\ UrlOf(c).chart.agg.applied = FALSE
    BY <2>1, <2>2
  <2> QED
    BY <2>1, <2>3 DEF AggSound
<1>4. PICK new : new = setDefaultAppConfigData(c, url)
  OBVIOUS
<1>5. PICK shown : shown = IF url = None THEN UrlOf(c) ELSE url
  OBVIOUS
<1>6. /\ new \in Configs /\ Addressed(new) = Addressed(shown)
      /\ StoredAs(new.table, storedTable) /\ (AggSound(shown) => AggSound(new))
  BY <1>1, <1>2, <1>4, <1>5, Merged, MergedTable
<1>7. /\ rawData' = None /\ view' = ViewOf(rawData', config') /\ stale' = FALSE /\ KeepURL
      /\ service' = [service EXCEPT !.on = service.stored]
      /\ UNCHANGED <<storedTable, overtaken, repo, aligning, polls>>
  BY DEF Reinitialize, SetModelData
<1>8. IF new.select = None
      THEN /\ WriteAndRelease(Search, Emptied(new), Levels) /\ request' = None
           /\ status' = "NotRequested"
      ELSE /\ WriteAndHold(Search, new, Levels)
           /\ request' = [params |-> Params(new), align |-> new.chart.align, toUrl |-> FALSE,
                          phase |-> "fetching"]
           /\ status' = "Pending"
  BY <1>2, <1>4 DEF Reinitialize
<1>9. /\ config' \in Configs /\ HeldSound' /\ Addressed(config') = Addressed(new)
      /\ StoredAs(config'.table, storedTable')
      /\ \A h \in Holders : h # Search => (held'[h] = None <=> held[h] = None)
      /\ request' \in Searches \cup {None}
      /\ request' = None <=> held'[Search] = None
      /\ request' # None => request'.params.x = request'.align.metric
      /\ status' \in {"NotRequested", "Pending", "Ok", "BadRequest"}
  <2>1. CASE new.select = None
    <3>1. Emptied(new) \in Configs
      BY <1>6, EmptiedConfig
    <3>2. config' = Emptied(new) /\ HeldSound' /\ held'[Search] = None
          /\ \A h \in Holders : h # Search => (held'[h] = None <=> held[h] = None)
      BY <1>1, <1>8, <2>1, <3>1, AfterRelease
    <3>3. Addressed(config') = Addressed(new) /\ StoredAs(config'.table, storedTable')
      BY <1>6, <1>7, <3>2, EmptiedConfig DEF StoredAs
    <3> QED
      BY <1>8, <2>1, <3>1, <3>2, <3>3
  <2>2. CASE new.select # None
    <3> DEFINE r == [params |-> Params(new), align |-> new.chart.align, toUrl |-> FALSE, phase |-> "fetching"]
    <3>1. config' = new /\ HeldSound' /\ held'[Search] # None
          /\ \A h \in Holders : h # Search => (held'[h] = None <=> held[h] = None)
      BY <1>1, <1>6, <1>8, <2>2, AfterHold
    <3>2. new.chart \in Charts /\ new.select \in Selects
      BY <1>6, ConfigFields
    <3>3. new.chart.align \in Alignment /\ new.chart.density \in Looks
      BY <3>2, ChartFields
    <3>4. Params(new) \in Parameters
      BY <3>2, <3>3 DEF Params, Parameters, Metric, Alignment
    <3>5. r \in Searches
      <4> HIDE DEF Params
      <4> QED
        BY <3>3, <3>4 DEF Searches
    <3>6. r.params.x = r.align.metric
      BY DEF Params, Metric
    <3>7. request' = r /\ status' = "Pending"
      BY <1>8, <2>2
    <3> HIDE DEF r
    <3> QED
      BY <1>6, <1>7, <3>1, <3>5, <3>6, <3>7, NoneIsNotAsked
  <2> QED
    BY <2>1, <2>2
<1>10. PlacesTyped'
  BY <1>1, <1>7, <1>9 DEF PlacesTyped, KeepURL
<1>11. MServer'
  <2>1. \A a \in Alignments : a \in Holders /\ a # Search
    BY MetricsHolders
  <2>2. service' \in [stored : BOOLEAN, on : BOOLEAN]
    BY <1>1, <1>7 DEF MServer
  <2> QED
    BY <1>1, <1>7, <1>9, <2>1, <2>2 DEF MServer
<1>12. Places'
  <2>1. ASSUME ~overtaken'
        PROVE  AggSound(config') /\ (url = None \/ Shows(url, config'))
    <3>1. url # None => AggSound(url)
      BY <1>1, <1>7, <2>1 DEF Places
    <3>2. AggSound(new)
      BY <1>3, <1>5, <1>6, <3>1
    <3>3. AggSound(config')
      BY <1>9, <3>2, AddressedParts, AggSoundOf
    <3> QED
      BY <1>5, <1>6, <1>9, <3>3, AddressedShows
  <2>2. overtaken => overtaken'
    BY <1>7
  <2> QED
    BY <1>1, <1>7, <1>9, <2>1, <2>2, PlacesKept
<1>13. Aligned'
  BY <1>7 DEF Aligned, Misaligned
<1> QED
  BY <1>10, <1>11, <1>12, <1>13 DEF MInv

-----------------------------------------------------------------------------
(* The invariant, and what follows from it. *)

(* The invariant holds when the page is opened.                             *)
LEMMA InitInv ==
  ASSUME MEInit
  PROVE  MInv
<1>1. /\ config = getConfig /\ held = [h \in Holders |-> None] /\ url = None /\ previous = <<>>
      /\ storedTable = None /\ rawData = None /\ view = ViewOf(None, config)
      /\ edits = 0 /\ overtaken = FALSE
  BY DEF MEInit, ConfigInit
<1>2. /\ repo = 0 /\ request = None /\ status = "NotRequested" /\ polls = {} /\ stale = FALSE
      /\ service = [stored |-> FALSE, on |-> FALSE] /\ aligning = [a \in Alignments |-> None]
  BY DEF MEInit
<1>3. PlacesTyped
  BY <1>1, DefaultConfig DEF PlacesTyped, HeldSound, HeldTyped
<1>4. MServer
  <2>1. 0 \in 0..MaxRepo
    BY NoneIsNotAsked
  <2>2. Search \in Holders /\ \A a \in Alignments : a \in Holders
    BY MetricsHolders
  <2> QED
    BY <1>1, <1>2, <2>1, <2>2 DEF MServer
<1>5. Places
  <2>1. AggSound(config)
    <3>1. getConfig.chart.agg = [enabled |-> FALSE, applied |-> FALSE]
      BY DEF getConfig
    <3>2. config.chart.agg.enabled = FALSE /\ config.chart.agg.applied = FALSE
      BY <1>1, <3>1
    <3> QED
      BY <1>1, <3>2 DEF AggSound
  <2>2. view.data.rows = rawData /\ Computed(view) = Viewed(config)
    BY <1>1, ViewComputed
  <2>3. StoredAs(config.table, storedTable)
    BY <1>1 DEF StoredAs
  <2> QED
    BY <1>1, <2>1, <2>2, <2>3 DEF Places
<1>6. Aligned
  BY <1>1 DEF Aligned, Misaligned
<1> QED
  BY <1>3, <1>4, <1>5, <1>6 DEF MInv

(* Every step of the metrics explorer keeps it.                             *)
LEMMA StepInv ==
  ASSUME MInv, [MENext]_allVars
  PROVE  MInv'
<1>1. CASE UNCHANGED allVars
  <2>1. UNCHANGED <<config, held, url, previous, storedTable, rawData, view, edits, overtaken>>
        /\ UNCHANGED <<repo, request, aligning, status, service, polls, stale>>
    BY <1>1 DEF allVars, configVars, meVars
  <2>2. PlacesTyped'
    BY <2>1 DEF MInv, PlacesTyped, HeldSound, HeldTyped
  <2>3. MServer'
    BY <2>1 DEF MInv, MServer
  <2>4. Places'
    BY <2>1 DEF MInv, Places, AggSound, isGroupingApplied, Shows, AggOn, Computed, Viewed, getDataAsTableRows, StoredAs
  <2>5. Aligned'
    BY <2>1 DEF MInv, Aligned, Misaligned, Metric
  <2> QED
    BY <2>2, <2>3, <2>4, <2>5 DEF MInv
<1>2. CASE MENext
  BY <1>2, HandledKeeps, BackKeeps, SearchesKeep, ConfigKeeps, CompletesKeeps, SearchEndsKeeps,
     FailsKeeps, AskingKeeps, AnswerKeeps, NoAnswerKeeps, LiveKeeps, SwitchKeeps, ReopenedKeeps
     DEF MENext
<1> QED
  BY <1>1, <1>2

(* The inductive invariant holds in every state of the metrics explorer.     *)
THEOREM MetricsInvariant == MESpec => []MInv
BY InitInv, StepInv, PTL DEF MESpec

(* The address shows the grouping and the chart of the page (updateURL in    *)
(* every handler, setDefaultAppConfigData, the completion of a search), for  *)
(* every number of requests, groupings, queries and metrics.                 *)
THEOREM AddressShowsConfig == MESpec => []UrlShowsConfig
<1>1. MInv => UrlShowsConfig
  BY DEF MInv, Places, Shows, AggOn, UrlShowsConfig
<1> QED
  BY <1>1, MetricsInvariant, PTL

(* The data on the page are computed from the rows and the config the model  *)
(* has now (updateModelData, setModelData).                                  *)
THEOREM PageShowsConfig == MESpec => []ViewShowsConfig
<1>1. MInv => ViewShowsConfig
  <2>1. Computed(view) = Viewed(config) =>
          /\ view.data.groups.grouping = config.grouping /\ view.data.look = config.chart.look
          /\ view.table = getDataAsTableRows(config)
    BY DEF Computed, Viewed
  <2> QED
    BY <2>1 DEF MInv, Places, ViewShowsConfig, ViewFollowsConfig
<1> QED
  BY <1>1, MetricsInvariant, PTL

(* Changes of the table are in localStorage (setItem in the table handlers). *)
THEOREM TableIsStored == MESpec => []StoredTableIsConfig
<1>1. MInv => StoredTableIsConfig
  BY DEF MInv, Places, StoredAs, StoredTableIsConfig
<1> QED
  BY <1>1, MetricsInvariant, PTL

(* Lines are aggregated only while they are grouped, and outside the default *)
(* grouping, which onResetConfigData sets without setAggregationEnabled,     *)
(* grouped lines can be aggregated; all variables stay in their types.       *)
THEOREM AggregationIsSound == MESpec => []AggregationFollows
<1>1. MInv => AggregationNeedsGrouping
  BY DEF MInv, Places, AggSound, AggregationNeedsGrouping
<1>2. MInv => METypeOK
  BY PlacesTypeOK DEF MInv, MServer, METypeOK
<1> QED
  BY <1>1, <1>2, MetricsInvariant, PTL DEF AggregationFollows

(* The rows of a chart at rest that is aligned by a metric were asked with   *)
(* that metric, for themselves, and no alignment request was denied values   *)
(* for them (onAlignmentMetricChange against getMetricsData); rows that lack *)
(* values are those a search sent without.                                   *)
THEOREM AlignmentHasValues == MESpec => []AlignedBySelectedMetric
<1>1. MInv => AlignedBySelectedMetric
  BY MetricsHolders DEF MInv, Aligned, AlignedBySelectedMetric
<1> QED
  BY <1>1, MetricsInvariant, PTL
=============================================================================
