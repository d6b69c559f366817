----------------------------- MODULE LiveUpdate -----------------------------
(***************************************************************************)
(* The live update of an explorer page: the web worker that polls a search *)
(* (services/live-update/Worker.ts), the bridge of the page to it          *)
(* (examples/LiveUpdateBridge.example.js, which index.ts exports) and the  *)
(* request wrapper of services/api/api.ts as far as the worker sees it.    *)
(*                                                                         *)
(* Page and worker are two threads.  The page's calls travel to the worker *)
(* in order; the answer of a call and the results travel back over two     *)
(* ports of their own.  Inside the worker one task runs at a time: a       *)
(* message, a timer or a network event, together with the promise          *)
(* continuations it releases, is one step.                                 *)
(***************************************************************************)
EXTENDS Naturals, Sequences, FiniteSets

CONSTANTS
  Queries,    \* the queries a search is started with
  None,       \* no query, no timer
  MaxTimers,  \* bound: timer ids of the worker; an id no one holds is reused
  MaxCalls,   \* bound: calls of one worker in flight at a time
  MaxStarts,  \* bound: starts of the polling
  MaxPending  \* bound: calls, answers or results under way on one port

ASSUME NoneIsNoQuery == None \notin Queries \cup (1..MaxTimers)
ASSUME LUBounds == {MaxTimers, MaxCalls, MaxStarts, MaxPending} \subseteq Nat

VARIABLES
  inProgress, \* the bridge's flag
  waiting,    \* the bridge's calls of the worker's stop that wait for the answer
  toWorker,   \* the port to the worker
  acks,       \* answers of stop under way to the page
  results,    \* results under way to the page
  api,        \* apiMethods: the query it streams, None for null
  schedule,   \* schedule: the timer the worker can clear
  timers,     \* timers the event loop of the worker still holds
  calls,      \* activations of startUpdateCall that wait for the server
  open,       \* FALSE once the worker has closed itself
  starts,     \* ghost: starts the bridge has sent
  lost        \* ghost: a start, a stop or a second call met a call in flight

bridgeVars == <<inProgress, waiting, starts>>
ports == <<toWorker, acks, results>>
workerVars == <<api, schedule, timers, calls, open, lost>>
luVars == <<bridgeVars, ports, workerVars>>

Timers == 1..MaxTimers

\* A call: the timer it set for its successor, the query of its stream, whether
\* that stream is still apiMethods, and how far the server's answer has come.
Calls == [timer : Timers, q : Queries, current : BOOLEAN,
          phase : {"fetching", "reading", "aborted"}]

Commands == [cmd : {"start"}, q : Queries] \cup [cmd : {"stop", "close"}]

LUTypeOK ==
  /\ inProgress \in BOOLEAN
  /\ waiting \in Seq({"stop", "clear"})
  /\ toWorker \in Seq(Commands)
  /\ acks \in Nat
  /\ results \in Seq(Queries)
  /\ api \in Queries \cup {None}
  /\ schedule \in [timerId : Timers \cup {None}, inProgress : BOOLEAN]
  /\ timers \subseteq Timers
  /\ calls \subseteq Calls
  /\ open \in BOOLEAN /\ lost \in BOOLEAN
  /\ starts \in Nat

Idle == [timerId |-> None, inProgress |-> FALSE]

LUInit ==
  /\ inProgress = FALSE /\ waiting = <<>> /\ starts = 0
  /\ toWorker = <<>> /\ acks = 0 /\ results = <<>>
  /\ api = None /\ schedule = Idle /\ timers = {} /\ calls = {}
  /\ open = TRUE /\ lost = FALSE

-----------------------------------------------------------------------------
(* The bridge *)

Send(message) ==
  /\ Len(toWorker) < MaxPending
  /\ toWorker' = Append(toWorker, message)

\* UpdateService.start
BridgeStart(q) ==
  /\ starts < MaxStarts
  /\ inProgress' = TRUE
  /\ starts' = starts + 1
  /\ Send([cmd |-> "start", q |-> q])
  /\ UNCHANGED <<waiting, acks, results, workerVars>>

\* UpdateService.stop up to its await, and UpdateService.clear, which closes the
\* worker when the stop has settled.  With the flag down stop returns at once.
BridgeStop(kind) ==
  \/ /\ inProgress
     /\ Send([cmd |-> "stop"])
     /\ waiting' = Append(waiting, kind)
     /\ UNCHANGED <<inProgress, starts, acks, results, workerVars>>
  \/ /\ ~inProgress
     /\ IF kind = "clear" THEN Send([cmd |-> "close"]) ELSE UNCHANGED toWorker
     /\ UNCHANGED <<bridgeVars, acks, results, workerVars>>

\* The rest of stop, and of clear, when the worker's answer arrives.
BridgeStopped ==
  /\ acks > 0
  /\ acks' = acks - 1
  /\ inProgress' = FALSE
  /\ waiting' = Tail(waiting)
  /\ IF Head(waiting) = "clear" THEN Send([cmd |-> "close"]) ELSE UNCHANGED toWorker
  /\ UNCHANGED <<starts, results, workerVars>>

\* UpdateService.responseHandler hands the oldest result to the page.
BridgeDeliver ==
  /\ results # <<>>
  /\ results' = Tail(results)
  /\ UNCHANGED <<bridgeVars, toWorker, acks, workerVars>>

-----------------------------------------------------------------------------
(* The worker *)

Held == timers \cup {schedule.timerId} \cup {c.timer : c \in calls}
Fresh(t) == t \in Timers \ Held /\ \A u \in Timers \ Held : t <= u

updateSchedule(t) == schedule' = [timerId |-> t, inProgress |-> TRUE]

\* start: a new stream replaces the old one, which is not aborted, and a first
\* timer replaces the one of the schedule, which is not cleared.
WorkerStart ==
  /\ open /\ toWorker # <<>> /\ Head(toWorker).cmd = "start"
  /\ toWorker' = Tail(toWorker)
  /\ api' = Head(toWorker).q
  /\ \E t \in Timers :
       /\ Fresh(t)
       /\ timers' = timers \cup {t}
       /\ schedule' = [timerId |-> t, inProgress |-> FALSE]
  /\ calls' = {[c EXCEPT !.current = FALSE] : c \in calls}
  /\ lost' = (lost \/ timers # {} \/ calls # {})
  /\ UNCHANGED <<bridgeVars, acks, results, open>>

\* clearScheduler, then the abort of the stream.  A call that waits for the
\* response never settles any more; one that reads the body gets the abort as
\* an error of its reader (ReadFails).
WorkerStop ==
  /\ open /\ toWorker # <<>> /\ Head(toWorker).cmd = "stop"
  /\ acks < MaxPending
  /\ toWorker' = Tail(toWorker)
  /\ acks' = acks + 1
  /\ timers' = timers \ {schedule.timerId}
  /\ schedule' = Idle
  /\ api' = None
  /\ LET mine == {c \in calls : c.current}
     IN calls' = (calls \ mine) \cup
                 {[c EXCEPT !.phase = "aborted", !.current = FALSE] :
                    c \in {d \in mine : d.phase = "reading"}}
  /\ lost' = (lost \/ calls # {})
  /\ UNCHANGED <<bridgeVars, results, open>>

\* close: self.close() ends the worker with its timers and calls.
WorkerClose ==
  /\ open /\ toWorker # <<>> /\ Head(toWorker).cmd = "close"
  /\ toWorker' = Tail(toWorker)
  /\ open' = FALSE
  /\ timers' = {} /\ calls' = {} /\ schedule' = Idle /\ api' = None
  /\ UNCHANGED <<bridgeVars, acks, results, lost>>

\* Mutant: no timer is set before the call.
StartUpdateCall_NoTimer(t) ==
  /\ open /\ t \in timers /\ api # None
  /\ timers' = timers \ {t}
  /\ Cardinality(calls) < MaxCalls
  /\ calls' = calls \cup {[timer |-> t, q |-> api, current |-> TRUE,
                           phase |-> "fetching"]}
  /\ lost' = (lost \/ calls # {})
  /\ UNCHANGED <<bridgeVars, ports, api, schedule, open>>

\* Mutant: the timer that fires counts on.
StartUpdateCall_KeepsTimer(t) ==
  /\ open /\ t \in timers
  /\ \E n \in Timers :
       /\ Fresh(n)
       /\ timers' = timers \cup {n}
       /\ IF api = None
          THEN updateSchedule(n) /\ UNCHANGED calls
          ELSE /\ Cardinality(calls) < MaxCalls
               /\ calls' = calls \cup {[timer |-> n, q |-> api, current |-> TRUE,
                                        phase |-> "fetching"]}
               /\ UNCHANGED schedule
  /\ lost' = (lost \/ (api # None /\ calls # {}))
  /\ UNCHANGED <<bridgeVars, ports, api, open>>

\* startUpdateCall up to its first await.  The timer of the next call is set
\* first, and the schedule does not learn of it before the call has settled.
\* Without a stream there is nothing to decode: the call fails at once.
StartUpdateCall(t) ==
  /\ open /\ t \in timers
  /\ \E n \in Timers :
       /\ Fresh(n)
       /\ timers' = (timers \ {t}) \cup {n}
       /\ IF api = None
          THEN updateSchedule(n) /\ UNCHANGED calls
          ELSE /\ Cardinality(calls) < MaxCalls
               /\ calls' = calls \cup {[timer |-> n, q |-> api, current |-> TRUE,
                                        phase |-> "fetching"]}
               /\ UNCHANGED schedule
  /\ lost' = (lost \/ (api # None /\ calls # {}))
  /\ UNCHANGED <<bridgeVars, ports, api, open>>

\* The response has begun: call() resolves with the body.
FetchAnswered(c) ==
  /\ c \in calls /\ c.phase = "fetching"
  /\ calls' = (calls \ {c}) \cup {[c EXCEPT !.phase = "reading"]}
  /\ UNCHANGED <<bridgeVars, ports, api, schedule, timers, open, lost>>

\* The network fails before the response, or while the body is read, the server
\* refuses (a status of 400 or more rejects, as its body is read twice in api.ts), or
\* the body was aborted: the catch block notes the timer.
CallFails(c) ==
  /\ c \in calls
  /\ calls' = calls \ {c}
  /\ updateSchedule(c.timer)
  /\ UNCHANGED <<bridgeVars, ports, api, timers, open, lost>>

\* Mutant: what an aborted call has read is posted.
CallSucceeds_Aborted(c) ==
  /\ c \in calls /\ c.phase # "fetching"
  /\ Len(results) < MaxPending
  /\ calls' = calls \ {c}
  /\ results' = Append(results, c.q)
  /\ updateSchedule(c.timer)
  /\ UNCHANGED <<bridgeVars, toWorker, acks, api, timers, open, lost>>

\* The body is read to its end: transferApiCallResponse, updateSchedule.
CallSucceeds(c) ==
  /\ c \in calls /\ c.phase = "reading"
  /\ Len(results) < MaxPending
  /\ calls' = calls \ {c}
  /\ results' = Append(results, c.q)
  /\ updateSchedule(c.timer)
  /\ UNCHANGED <<bridgeVars, toWorker, acks, api, timers, open, lost>>

WorkerCommand == WorkerStart \/ WorkerStop \/ WorkerClose
CallEnds(c) == FetchAnswered(c) \/ CallFails(c) \/ CallSucceeds(c)

WorkerNext ==
  \/ WorkerCommand
  \/ \E t \in Timers : StartUpdateCall(t)
  \/ \E c \in calls : CallEnds(c)

-----------------------------------------------------------------------------
(* A page that starts and stops the polling as it likes and clears the     *)
(* service once.                                                           *)

Cleared ==
  \/ ~open
  \/ \E i \in DOMAIN waiting : waiting[i] = "clear"
  \/ \E i \in DOMAIN toWorker : toWorker[i].cmd = "close"

Page ==
  /\ ~Cleared
  /\ \/ \E q \in Queries : BridgeStart(q)
     \/ /\ Len(waiting) < MaxPending
        /\ \E kind \in {"stop", "clear"} : BridgeStop(kind)

LUNext == Page \/ BridgeStopped \/ BridgeDeliver \/ WorkerNext

\* The event loops run: messages are handled, timers fire, the server or the
\* network ends every call.  Nothing is assumed of the page's user.
LUFairness ==
  /\ WF_luVars(BridgeStopped) /\ WF_luVars(BridgeDeliver)
  /\ WF_luVars(WorkerCommand)
  /\ \A t \in Timers : SF_luVars(StartUpdateCall(t))
  /\ WF_luVars(\E c \in calls : CallFails(c) \/ CallSucceeds(c))

LUSpec == LUInit /\ [][LUNext]_luVars /\ LUFairness

-----------------------------------------------------------------------------
\* A worker whose calls never met a stop, a start or one another knows its timer
\* whenever no call is in flight: this is when stop really pauses the polling.
ScheduleKnowsTimer == ~lost /\ calls = {} => timers \subseteq {schedule.timerId}

\* Polling only multiplies by starts that no stop preceded: there are never more
\* timers than starts, however calls overlap, fail or are refused.
ChainsComeFromStarts == Cardinality(timers) <= starts

\* What the worker knows of its timers, and how many there are.
TimersUnderControl == LUTypeOK /\ ScheduleKnowsTimer /\ ChainsComeFromStarts

\* Polling survives every failure of the server: from a start on the worker
\* calls again and again, unless the page stops or clears it.
PollingContinues == [](api # None => <>(calls # {} \/ api = None))

\* The abstract service: a query can still be heard of while its start is on
\* its way, while it is the worker's stream, and while one of its calls, which
\* nobody has aborted, waits for the server.
Sources ==
  {toWorker[i].q : i \in {j \in DOMAIN toWorker : toWorker[j].cmd = "start" /\ open}}
    \cup ({api} \ {None})
    \cup {c.q : c \in {d \in calls : d.phase # "aborted"}}

Service == INSTANCE LiveService WITH sources <- Sources

\* Worker, bridge and ports implement the service the explorers use.
ImplementsService == Service!LSSpec

\* The README of the service: "w.stop().then().catch()// will pause to call".
\* Violated: the timer that startUpdateCall sets before its call is unknown to
\* the schedule until the call has settled, so a stop meanwhile leaves it, and
\* the polling of a worker without a stream goes on for good.
StopPauses == open /\ api = None => timers = {}
=============================================================================
