----------------------------- MODULE RunsTable -----------------------------
(***************************************************************************)
(* The runs explorer of the web UI: services/models/explorer/              *)
(* runsModelMethods.ts with the search bar and the table that drive it,    *)
(* on top of the live update (LiveService) and of the search endpoint.     *)
(*                                                                         *)
(* A run is its position in the order the server lists runs in, newest     *)
(* first: a larger number is a newer run.  The columns and values of a row *)
(* are left out; what counts is which runs the page holds, where they came *)
(* from, and which version of its configuration the page keeps.            *)
(***************************************************************************)
EXTENDS Naturals, Sequences, FiniteSets, SequencesExt

CONSTANTS
  UserQueries, \* the queries the user may search for
  Matches(_),  \* the runs that satisfy a query
  InitialRuns, \* the runs of the repository at the start
  MaxRun,      \* bound: runs ever created
  PAGE,        \* pagination.limit: 45 in the code
  Selectable,  \* bound: the runs the user ever selects
  MaxEdits,    \* bound: edits of the configuration
  MaxAsked     \* bound: requests of the page for runs

ASSUME RunsBounds == {MaxRun, PAGE, MaxEdits, MaxAsked} \subseteq Nat /\ PAGE > 0
ASSUME RunsInitial == Selectable \subseteq 1..MaxRun /\ \E n \in 0..MaxRun : InitialRuns = 1..n
ASSUME RunsMatch == \A q \in UserQueries : Matches(q) \subseteq 1..MaxRun

VARIABLES
  db,          \* the runs of the repository
  newest,      \* the newest run ever created
  asked,       \* ghost: requests made so far
  query,       \* config.select.query
  config,      \* version of the rest of config
  stored,      \* version of config.table in localStorage
  isLatest,    \* config.pagination.isLatest
  rawData,     \* rawData
  tableData,   \* the runs of data and tableData
  selected,    \* the runs of selectedRows
  infinite,    \* infiniteIsPending
  status,      \* requestStatus
  ticking,     \* updateTableTimeoutId: the deferred update of the table widget
  request,     \* the newest call of getRunsData, while it has not settled
  failing,     \* the queries of aborted calls whose readers have yet to fail
  live,        \* the page has a live update service
  sources,     \* the queries LiveService may still deliver a result of
  skipped,     \* ghost: the server did not know the offset it was given
  failed       \* ghost: the newest request ended early and left its flag up

pageVars == <<query, config, stored, isLatest, rawData, tableData, selected,
              infinite, status, ticking, live>>
requestVars == <<request, failing>>
ghosts == <<asked, skipped, failed>>
dbVars == <<db, newest>>
rtVars == <<dbVars, pageVars, requestVars, sources, ghosts>>

Runs == 1..MaxRun
Rows == UNION {[1..n -> Runs] : n \in 0..MaxRun * 2}

\* A request: the state prepareModelStateToCall returned it (its config, and
\* whether its array of rows is still the model's), the rows it has received
\* and those still in the stream.
Requests == [q : UserQueries, initial : BOOLEAN, reset : BOOLEAN, config : 0..MaxEdits,
             shared : BOOLEAN, after : 0..MaxRun, got : Seq(Runs), rest : Seq(Runs),
             count : Nat, phase : {"fetching", "streaming"}]
NoRequest == [phase |-> "none"]

RTTypeOK ==
  /\ db \subseteq Runs /\ {newest, asked} \subseteq Nat
  /\ query \in UserQueries
  /\ {config, stored} \subseteq 0..MaxEdits
  /\ {isLatest, infinite, ticking, live, skipped, failed} \subseteq BOOLEAN
  /\ {rawData, tableData} \subseteq Seq(Runs)
  /\ selected \subseteq Runs
  /\ status \in {"NotRequested", "Pending", "Ok", "BadRequest"}
  /\ request \in Requests \cup {NoRequest} /\ failing \subseteq UserQueries
  /\ sources \subseteq UserQueries

\* The i-th run of a set in this order has i - 1 newer ones in the set.
NewestFirst(S) ==
  [i \in 1..Cardinality(S) |-> CHOOSE r \in S : Cardinality({x \in S : x > r}) = i - 1]

Take(s, n) == SubSeq(s, 1, IF Len(s) < n THEN Len(s) ELSE n)

-----------------------------------------------------------------------------
(* The server *)

\* Mutant: the query is not applied.
ServerPage_AnyRun(q, after) ==
  Take(NewestFirst({r \in db : after \in db => r < after}), PAGE)

\* runs/search/run: the first PAGE matching runs after the offset, which is a
\* run the page knows (0: none).  An offset the server does not know any more
\* is taken for none.
ServerPage(q, after) ==
  LET older == {r \in db \cap Matches(q) : after \in db => r < after}
  IN Take(NewestFirst(older), PAGE)

OthersCreateRun ==
  /\ newest < MaxRun
  /\ newest' = newest + 1
  /\ db' = db \cup {newest'}
  /\ UNCHANGED <<pageVars, requestVars, sources, ghosts>>

OthersDeleteRun ==
  /\ \E r \in db : db' = db \ {r}
  /\ UNCHANGED <<newest, pageVars, requestVars, sources, ghosts>>

-----------------------------------------------------------------------------
(* The page's own operations *)

\* LiveService as the page sees it: the queries it was started with.  Results may
\* come arbitrarily late, so that no query is ever known to be silent.

\* liveUpdateInstance?.start, with the query of the request that ends.
LiveStart(q) == sources' = IF live THEN sources \cup {q} ELSE sources

\* Mutant: the selection is left as it is.
ProcessData_AllSelected(rows) == tableData' = rows /\ UNCHANGED selected

\* processData: rows of the given runs, and of the selection those among them.
ProcessData(rows) ==
  /\ tableData' = rows
  /\ selected' = selected \cap Range(rows)

\* getRunsData up to its first await, with prepareModelStateToCall: the previous
\* request is aborted.  While it waits for the response its promise then never
\* settles; while it streams, its reader fails (ReaderFails).
Abort ==
  failing' = failing \cup (IF request.phase = "streaming" THEN {request.q} ELSE {})

GetRunsData(initial, reset, q, after) ==
  /\ Abort
  /\ request' = [q |-> q, initial |-> initial, reset |-> reset, config |-> config,
                 shared |-> ~initial, after |-> after,
                 got |-> IF initial THEN <<>> ELSE rawData, rest |-> <<>>,
                 count |-> 0, phase |-> "fetching"]
  /\ query' = q
  /\ infinite' = ~initial
  /\ status' = IF initial THEN "Pending" ELSE "Ok"
  /\ IF initial
     THEN rawData' = <<>> /\ tableData' = <<>> /\ isLatest' = FALSE
     ELSE UNCHANGED <<rawData, tableData, isLatest>>
  /\ asked < MaxAsked /\ asked' = asked + 1
  /\ failed' = FALSE
  /\ UNCHANGED <<config, stored, selected, ticking, live, skipped>>

\* The search button, which is a cancel button while the status is Pending.
Search ==
  /\ status # "Pending"
  /\ \E q \in UserQueries : GetRunsData(TRUE, TRUE, q, 0)
  /\ UNCHANGED <<dbVars, sources>>

\* getLastRunsData, from a downward scroll of a table that has rows.  With rows
\* of a live result and no rawData the code throws before it does anything.
GetLastRunsData ==
  /\ tableData # <<>> /\ ~infinite /\ ~isLatest
  /\ rawData # <<>>
  /\ GetRunsData(FALSE, FALSE, query, Last(rawData))
  /\ UNCHANGED <<dbVars, sources>>

\* The response begins: the server has chosen the page of runs.
ResponseBegins ==
  /\ request.phase = "fetching"
  /\ request' = [request EXCEPT !.phase = "streaming", !.after = 0,
                               !.rest = ServerPage(request.q, request.after)]
  /\ skipped' = (skipped \/ (~request.initial /\ request.after \notin db))
  /\ UNCHANGED <<dbVars, pageVars, failing, sources, asked, failed>>

\* One row is pushed.  A request for more rows pushes into the model's own array
\* unless the model has replaced it since.
RowArrives ==
  /\ request.phase = "streaming" /\ request.rest # <<>>
  /\ LET got == Append(request.got, Head(request.rest))
     IN /\ request' = [request EXCEPT !.got = got, !.rest = Tail(@), !.count = @ + 1]
        /\ rawData' = IF request.shared THEN got ELSE rawData
  /\ UNCHANGED <<dbVars, query, config, stored, isLatest, tableData, selected, infinite,
                 status, ticking, live, failing, sources, ghosts>>

\* Mutant: a full page is taken for the last one.
Exhausted_FullPage(r) == ~r.initial /\ r.count <= PAGE

\* A request for more rows that got fewer than it asked for.
Exhausted(r) == ~r.initial /\ r.count < PAGE

\* The stream is at its end: the rest of getRunsData.  The configuration becomes
\* again the one the request began with; the live update starts.
RequestCompletes ==
  /\ request.phase = "streaming" /\ request.rest = <<>>
  /\ request' = NoRequest
  /\ rawData' = request.got
  /\ tableData' = request.got
  /\ selected' = IF request.reset THEN {} ELSE selected \cap Range(request.got)
  /\ infinite' = FALSE
  /\ config' = request.config
  /\ query' = request.q
  /\ isLatest' = Exhausted(request)
  /\ ticking' = TRUE
  /\ LiveStart(request.q)
  /\ UNCHANGED <<dbVars, failing, stored, status, live, ghosts>>

\* The reader of an aborted request fails.  The rows received so far stay in the
\* array; the live update starts with the request's own query.
ReaderFails ==
  /\ \E q \in failing : failing' = failing \ {q} /\ LiveStart(q)
  /\ UNCHANGED <<dbVars, pageVars, request, ghosts>>

\* The same when the connection breaks while the rows are streamed.
StreamBreaks ==
  /\ request.phase = "streaming"
  /\ request' = NoRequest
  /\ failed' = TRUE
  /\ LiveStart(request.q)
  /\ UNCHANGED <<dbVars, pageVars, failing, asked, skipped>>

\* No connection, or a status of 400 or more, whose body is read twice (api.ts):
\* exceptionHandler, a rejected promise, the live update starts.
RequestFails ==
  /\ request.phase = "fetching"
  /\ request' = NoRequest
  /\ status' = "BadRequest"
  /\ failed' = ~request.initial
  /\ LiveStart(request.q)
  /\ UNCHANGED <<dbVars, failing, query, config, stored, isLatest, rawData, tableData, selected,
                 infinite, ticking, live, asked, skipped>>

\* Mutant: the status stays.
AbortRequest_StaysPending ==
  /\ status = "Pending"
  /\ Abort
  /\ request' = NoRequest
  /\ UNCHANGED <<dbVars, pageVars, sources, ghosts>>

\* The cancel button: abortRequest.
AbortRequest ==
  /\ status = "Pending"
  /\ Abort
  /\ request' = NoRequest
  /\ status' = "Ok"
  /\ UNCHANGED <<dbVars, query, config, stored, isLatest, rawData, tableData, selected,
                 infinite, ticking, live, sources, ghosts>>

\* The timer of updateTableData.
UpdateTable ==
  /\ ticking
  /\ ticking' = FALSE
  /\ status' = "Ok"
  /\ UNCHANGED <<dbVars, query, config, stored, isLatest, rawData, tableData, selected,
                 infinite, live, requestVars, sources, ghosts>>

\* updateModelData: everything is computed again from rawData.
UpdateModelData ==
  /\ ProcessData(rawData)
  /\ ticking' = TRUE
  /\ UNCHANGED <<isLatest, rawData, infinite, status>>

\* Mutant: the change is not saved.
EditTableConfig_NotSaved ==
  /\ config < MaxEdits
  /\ config' = config + 1
  /\ UpdateModelData
  /\ UNCHANGED <<dbVars, query, stored, live, requestVars, sources, ghosts>>

\* A change of the columns, their order, their widths, the metric values or the
\* sort fields: a new config object, saved in localStorage.
EditTableConfig ==
  /\ config < MaxEdits /\ stored < MaxEdits
  /\ config' = IF config < stored THEN stored + 1 ELSE config + 1
  /\ stored' = config'
  /\ UpdateModelData
  /\ UNCHANGED <<dbVars, query, live, requestVars, sources, ghosts>>

\* onRunsTagsChange: rawData is a new array, the requests keep the old one.
ChangeTags ==
  /\ rawData # <<>>
  /\ request' = IF request = NoRequest THEN NoRequest
                ELSE [request EXCEPT !.shared = FALSE]
  /\ UpdateModelData
  /\ UNCHANGED <<dbVars, query, config, stored, live, failing, sources, ghosts>>

\* onRowSelect: one row of the table, all of them, or none of them.
SelectRows ==
  /\ LET shown == Range(tableData) \cap Selectable
     IN \/ \E r \in shown : selected' = IF r \in selected THEN selected \ {r}
                                        ELSE selected \cup {r}
        \/ selected' = selected \cup shown
        \/ selected' = selected \ shown
  /\ UNCHANGED <<dbVars, query, config, stored, isLatest, rawData, tableData, infinite,
                 status, ticking, live, requestVars, sources, ghosts>>

\* archiveRuns and deleteRuns: when the response arrives the page searches again,
\* whatever it does at that time.  The server's part is OthersDeleteRun.
RunsRemoved ==
  /\ GetRunsData(TRUE, TRUE, query, 0)
  /\ UNCHANGED <<dbVars, sources>>

\* updateData, the listener of the live update.  A result without runs throws
\* before the state is set.  The new rows do not become rawData: the code sets
\* a field rowData.  How many rows are asked for was decided at the start.
LiveUpdateArrives ==
  /\ \E q \in sources, limit \in {PAGE, 2 * PAGE} :
       LET rows == Take(NewestFirst(db \cap Matches(q)), limit)
       IN IF rows = <<>>
          THEN UNCHANGED <<tableData, selected, status, infinite, isLatest>>
          ELSE /\ ProcessData(rows)
               /\ status' = "Ok" /\ infinite' = FALSE /\ isLatest' = FALSE
  /\ UNCHANGED <<dbVars, query, config, stored, rawData, ticking, live,
                 requestVars, sources, ghosts>>

\* changeLiveUpdateConfig: a new service starts with the query of the
\* configuration, or the service is cleared, which its worker learns later.  The
\* bar with the switch is disabled while the progress bar shows.
SwitchLiveUpdate ==
  /\ status # "Pending"
  /\ live' = ~live
  /\ sources' = IF live THEN sources ELSE sources \cup {query}
  /\ UNCHANGED <<dbVars, query, config, stored, isLatest, rawData, tableData, selected,
                 infinite, status, ticking, requestVars, ghosts>>

-----------------------------------------------------------------------------
(* initialize: the first search starts at once. *)
FirstRequest(q, version) ==
  [q |-> q, initial |-> TRUE, reset |-> FALSE, config |-> version, shared |-> FALSE,
   after |-> 0, got |-> <<>>, rest |-> <<>>, count |-> 0, phase |-> "fetching"]

RTInit ==
  /\ db = InitialRuns /\ newest = Cardinality(InitialRuns)
  /\ query \in UserQueries
  /\ config = 0 /\ stored = 0 /\ isLatest = FALSE
  /\ rawData = <<>> /\ tableData = <<>> /\ selected = {}
  /\ infinite = FALSE /\ status = "Pending" /\ ticking = FALSE
  /\ live \in BOOLEAN
  /\ sources = {}
  /\ request = FirstRequest(query, 0) /\ failing = {}
  /\ asked = 1 /\ skipped = FALSE /\ failed = FALSE

\* destroy, and initialize when the page is opened again: the request and the
\* service are dropped, the state starts over, the table's configuration is read
\* back from localStorage and the query from the URL.
Reinitialize ==
  /\ request' = FirstRequest(query, stored)
  /\ failing' = {}
  /\ config' = stored /\ isLatest' = FALSE
  /\ rawData' = <<>> /\ tableData' = <<>> /\ selected' = {}
  /\ infinite' = FALSE /\ status' = "Pending"
  /\ asked < MaxAsked /\ asked' = asked + 1
  /\ failed' = FALSE
  /\ UNCHANGED <<dbVars, query, stored, ticking, live, sources, skipped>>

RTNext ==
  \/ OthersCreateRun \/ OthersDeleteRun
  \/ Search \/ GetLastRunsData \/ AbortRequest
  \/ ResponseBegins \/ RowArrives \/ RequestCompletes
  \/ ReaderFails \/ StreamBreaks \/ RequestFails
  \/ UpdateTable \/ EditTableConfig \/ ChangeTags \/ SelectRows
  \/ RunsRemoved
  \/ LiveUpdateArrives \/ SwitchLiveUpdate
  \/ Reinitialize

RTSpec == RTInit /\ [][RTNext]_rtVars

-----------------------------------------------------------------------------
\* What the page has loaded page by page is one stretch of the query's runs:
\* newest first, none twice, none left out, whatever requests were aborted,
\* overtaken or failed on the way.
LoadedWithoutGaps ==
  ~skipped /\ rawData # <<>> =>
    /\ \A i, j \in DOMAIN rawData : i < j => rawData[i] > rawData[j]
    /\ Range(rawData) \subseteq Matches(query)
    /\ \A r \in db \cap Matches(query) :
         Last(rawData) < r /\ r < Head(rawData) => r \in Range(rawData)

\* The table stops asking for more only when the last run has been loaded.
LatestMeansLast ==
  ~skipped /\ isLatest =>
    /\ rawData # <<>>
    /\ \A r \in db \cap Matches(query) : Last(rawData) <= r

\* The pages that have been loaded are the beginning of the query's runs: nothing
\* is missing between them, and the last one is known for the last.
PagesFit == RTTypeOK /\ LoadedWithoutGaps /\ LatestMeansLast

\* Batch actions work on what the user sees: the selection holds rows of the
\* table only, through searches, live updates and the removal of runs.
SelectionIsShown == tableData # <<>> => selected \subseteq Range(tableData)

\* A loading indicator stands for a request that is under way, unless the newest
\* request broke: then the code leaves the indicator on.
LoadingHasRequest ==
  ~failed =>
    /\ status = "Pending" => ticking \/ request # NoRequest
    /\ infinite => request # NoRequest /\ ~request.initial

\* Runs that do not match the query get into the table only with a result of a
\* live update that was started for another query.
OnlyLiveUpdateMixesQueries ==
  [][ \/ Range(tableData') \subseteq Matches(query')
      \/ Range(tableData') = Range(tableData)
      \/ \E q \in sources \ {query} : Range(tableData') \subseteq Matches(q) ]_rtVars

\* An edit of the table is undone only by a request that was under way when it
\* was made, and is in localStorage even then.
EditsAreKept ==
  [][ config' < config => /\ stored' >= config
                          /\ request.phase = "streaming" /\ request.config = config' ]_rtVars
=============================================================================
