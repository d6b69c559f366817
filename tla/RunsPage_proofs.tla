-------------------------- MODULE RunsPage_proofs --------------------------
(***************************************************************************)
(* Theorems about the live update and the runs explorer on top of it, for  *)
(* any queries and any bounds.                                             *)
(*                                                                         *)
(* LiveUpdate: the worker knows its timer whenever no call is in flight,   *)
(* timers come from starts only, and worker, bridge and ports implement    *)
(* the live service.  Timers are counted together with the starts under    *)
(* way to the worker (StartsCounted), and the answers of stop together     *)
(* with the stops under way (StopsCounted): a message that is taken from   *)
(* the port is one less there and one timer, or one answer, more.  An      *)
(* undisturbed worker has one call at most, made for its stream, and no    *)
(* timer but that call's.                                                  *)
(*                                                                         *)
(* RunsTable: the pages it loads fit together, the selection is on the     *)
(* screen, the loading indicators tell the truth, rows of other queries    *)
(* come from live updates only, and edits of the table are not lost.  The  *)
(* inductive invariant RunsInv speaks of stretches: lists of runs of the   *)
(* query, newest first, that leave out no run between their ends.  The     *)
(* rows of the page are one, and so is the whole that a request makes of   *)
(* the rows it has received and those still to come; the server's page     *)
(* lengthens a stretch whose last run it is asked to continue after        *)
(* (PageBehindStretch), rows move within the whole, and the runs created   *)
(* and deleted meanwhile leave a stretch what it is (StretchAsRunsChange). *)
(***************************************************************************)
EXTENDS LiveUpdate, RunsTable, SequenceTheorems, FiniteSetTheorems, TLAPS

\* The places on the port of the messages of one kind.
Marks(port, kind) == {j \in DOMAIN port : port[j].cmd = kind}

StartsCounted == Cardinality(timers) + Cardinality(Marks(toWorker, "start")) <= starts

StopsCounted == acks + Cardinality(Marks(toWorker, "stop")) <= Len(waiting)

OneCallAtMost ==
  ~lost => \A c \in calls : /\ api # None
                            /\ calls = {c}
                            /\ timers \subseteq {c.timer}

LUInv == LUTypeOK /\ StartsCounted /\ StopsCounted /\ ScheduleKnowsTimer /\ OneCallAtMost

-----------------------------------------------------------------------------
(* Lemmas on the messages of one kind *)

(* Marks are finitely many. *)
LEMMA MarksFinite ==
  ASSUME NEW port \in Seq(Commands), NEW kind
  PROVE  IsFiniteSet(Marks(port, kind)) /\ Cardinality(Marks(port, kind)) \in Nat
<1>1. DOMAIN port = 1..Len(port) /\ Len(port) \in Nat
  OBVIOUS
<1>2. IsFiniteSet(1..Len(port))
  BY <1>1, FS_Interval
<1>3. Marks(port, kind) \in SUBSET (1..Len(port))
  BY <1>1 DEF Marks
<1>4. IsFiniteSet(Marks(port, kind))
  BY <1>2, <1>3, FS_Subset
<1> QED
  BY <1>4, FS_CardinalityType

(* A message that is sent is one more of its kind. *)
LEMMA MarksAppend ==
  ASSUME NEW port \in Seq(Commands), NEW m \in Commands, NEW kind
  PROVE  Cardinality(Marks(Append(port, m), kind))
           = Cardinality(Marks(port, kind)) + (IF m.cmd = kind THEN 1 ELSE 0)
<1> DEFINE n == Len(port) + 1
<1>1. /\ DOMAIN Append(port, m) = 1..n
      /\ DOMAIN port = 1..Len(port)
      /\ Len(port) \in Nat
      /\ \A j \in 1..Len(port) : Append(port, m)[j] = port[j]
      /\ Append(port, m)[n] = m
  OBVIOUS
<1>2. IsFiniteSet(Marks(port, kind)) /\ Cardinality(Marks(port, kind)) \in Nat
  BY MarksFinite
<1>3. n \notin Marks(port, kind)
  BY <1>1 DEF Marks
<1>4. CASE m.cmd = kind
  <2>1. Marks(Append(port, m), kind) = Marks(port, kind) \cup {n}
    BY <1>1, <1>4 DEF Marks
  <2>2. Cardinality(Marks(port, kind) \cup {n}) = Cardinality(Marks(port, kind)) + 1
    BY <1>2, <1>3, FS_AddElement
  <2> QED
    BY <2>1, <2>2, <1>4
<1>5. CASE m.cmd # kind
  <2>1. Marks(Append(port, m), kind) = Marks(port, kind)
    BY <1>1, <1>5 DEF Marks
  <2> QED
    BY <2>1, <1>5, <1>2
<1> QED
  BY <1>4, <1>5

(* A message that is taken is one less of its kind. *)
LEMMA MarksTail ==
  ASSUME NEW port \in Seq(Commands), port # <<>>, NEW kind
  PROVE  /\ Cardinality(Marks(Tail(port), kind)) <= Cardinality(Marks(port, kind))
         /\ Head(port).cmd = kind =>
              Cardinality(Marks(Tail(port), kind)) + 1 <= Cardinality(Marks(port, kind))
<1> DEFINE rest == Marks(port, kind) \ {1}
           left == Marks(Tail(port), kind)
           f == [j \in rest |-> j - 1]
<1>1. /\ DOMAIN Tail(port) = 1..(Len(port) - 1)
      /\ DOMAIN port = 1..Len(port)
      /\ Len(port) \in Nat \ {0}
      /\ \A j \in 1..(Len(port) - 1) : Tail(port)[j] = port[j + 1]
      /\ Head(port) = port[1]
  OBVIOUS
<1>2. IsFiniteSet(Marks(port, kind)) /\ Cardinality(Marks(port, kind)) \in Nat
  BY MarksFinite
<1>3. /\ IsFiniteSet(rest)
      /\ Cardinality(rest) = IF 1 \in Marks(port, kind) THEN Cardinality(Marks(port, kind)) - 1
                             ELSE Cardinality(Marks(port, kind))
  BY <1>2, FS_RemoveElement
<1>4. f \in Surjection(rest, left)
  <2>1. \A j \in rest : j - 1 \in left
    BY <1>1 DEF Marks
  <2>2. \A i \in left : i + 1 \in rest /\ (i + 1) - 1 = i
    BY <1>1 DEF Marks
  <2>3. f \in [rest -> left]
    BY <2>1
  <2>4. \A i \in left : \E j \in rest : f[j] = i
    BY <2>2
  <2> QED
    BY <2>3, <2>4 DEF Surjection
<1>5. Cardinality(left) <= Cardinality(rest) /\ IsFiniteSet(left)
  BY <1>3, <1>4, FS_Surjection
<1>6. Cardinality(left) \in Nat
  BY <1>5, FS_CardinalityType
<1>7. Head(port).cmd = kind => 1 \in Marks(port, kind)
  BY <1>1 DEF Marks
<1> QED
  BY <1>2, <1>3, <1>5, <1>6, <1>7

(* The timers are finitely many. *)
LEMMA TimersFinite ==
  ASSUME LUTypeOK
  PROVE  IsFiniteSet(timers) /\ Cardinality(timers) \in Nat
<1>1. MaxTimers \in Nat
  BY LUBounds
<1>2. IsFiniteSet(Timers)
  BY <1>1, FS_Interval DEF Timers
<1>3. timers \in SUBSET Timers
  BY DEF LUTypeOK
<1>4. IsFiniteSet(timers)
  BY <1>2, <1>3, FS_Subset
<1> QED
  BY <1>4, FS_CardinalityType

(* A timer that fires and sets its successor does not change their number. *)
LEMMA TimersReplaced ==
  ASSUME LUTypeOK, NEW t \in timers, NEW n
  PROVE  Cardinality((timers \ {t}) \cup {n}) <= Cardinality(timers)
<1>1. IsFiniteSet(timers) /\ Cardinality(timers) \in Nat
  BY TimersFinite
<1>2. IsFiniteSet(timers \ {t}) /\ Cardinality(timers \ {t}) = Cardinality(timers) - 1
  BY <1>1, FS_RemoveElement
<1>3. Cardinality((timers \ {t}) \cup {n})
        = IF n \in timers \ {t} THEN Cardinality(timers) - 1 ELSE Cardinality(timers) - 1 + 1
  BY <1>2, FS_AddElement
<1> QED
  BY <1>1, <1>3

-----------------------------------------------------------------------------
(* Every variable keeps its type.  A stop is answered, and its answer taken, *)
(* only while a call of the bridge waits for it.                             *)
BridgeTyped ==
  /\ inProgress \in BOOLEAN
  /\ waiting \in Seq({"stop", "clear"})
  /\ starts \in Nat

PortsTyped ==
  /\ toWorker \in Seq(Commands)
  /\ acks \in Nat
  /\ results \in Seq(Queries)

WorkerTyped ==
  /\ api \in Queries \cup {None}
  /\ schedule \in [timerId : Timers \cup {None}, inProgress : BOOLEAN]
  /\ timers \subseteq Timers
  /\ calls \subseteq Calls

LEMMA TypeParts ==
  LUTypeOK <=> BridgeTyped /\ PortsTyped /\ WorkerTyped /\ open \in BOOLEAN /\ lost \in BOOLEAN
BY DEF LUTypeOK, BridgeTyped, PortsTyped, WorkerTyped

(* The messages a worker is sent. *)
LEMMA Messages ==
  /\ [cmd |-> "stop"] \in Commands
  /\ [cmd |-> "close"] \in Commands
  /\ \A q \in Queries : [cmd |-> "start", q |-> q] \in Commands
  /\ \A m \in Commands : m.cmd = "start" => m.q \in Queries
BY DEF Commands

(* A step that leaves the worker alone has only bridge and ports to type. *)
LEMMA WorkerRests ==
  ASSUME LUTypeOK, UNCHANGED workerVars, BridgeTyped', PortsTyped'
  PROVE  LUTypeOK'
<1>1. WorkerTyped /\ open \in BOOLEAN /\ lost \in BOOLEAN
  BY DEF LUTypeOK, WorkerTyped
<1>2. WorkerTyped' /\ open' \in BOOLEAN /\ lost' \in BOOLEAN
  BY <1>1 DEF workerVars, WorkerTyped
<1> QED
  BY <1>2 DEF LUTypeOK, WorkerTyped, BridgeTyped, PortsTyped

(* A message of the bridge leaves the port typed. *)
LEMMA SendTyped ==
  ASSUME PortsTyped, NEW m \in Commands, Send(m)
  PROVE  toWorker' \in Seq(Commands)
BY DEF Send, PortsTyped

(* Types at the steps of the bridge. *)
LEMMA BridgeKeepsTypes ==
  ASSUME LUTypeOK, StopsCounted, Page \/ BridgeStopped \/ BridgeDeliver
  PROVE  LUTypeOK'
<1>0. BridgeTyped /\ PortsTyped
  BY TypeParts
<1>1. ASSUME NEW q \in Queries, BridgeStart(q) PROVE LUTypeOK'
  <2>1. toWorker' \in Seq(Commands)
    BY <1>0, <1>1, SendTyped, Messages DEF BridgeStart
  <2>2. inProgress' \in BOOLEAN /\ starts' \in Nat
    BY <1>0, <1>1 DEF BridgeStart, BridgeTyped
  <2>3. BridgeTyped' /\ PortsTyped'
    BY <1>0, <1>1, <2>1, <2>2 DEF BridgeStart, BridgeTyped, PortsTyped
  <2> QED
    BY <1>1, <2>3, WorkerRests DEF BridgeStart
<1>2. ASSUME NEW kind \in {"stop", "clear"}, BridgeStop(kind) PROVE LUTypeOK'
  <2>1. toWorker' \in Seq(Commands)
    <3>1. CASE Send([cmd |-> "stop"]) \/ Send([cmd |-> "close"])
      BY <1>0, <3>1, SendTyped, Messages
    <3>2. CASE UNCHANGED toWorker
      BY <1>0, <3>2 DEF PortsTyped
    <3> QED
      BY <1>2, <3>1, <3>2 DEF BridgeStop
  <2>2. waiting' \in Seq({"stop", "clear"})
    <3>1. CASE waiting' = Append(waiting, kind)
      BY <1>0, <3>1 DEF BridgeTyped
    <3>2. CASE waiting' = waiting
      BY <1>0, <3>2 DEF BridgeTyped
    <3> QED
      BY <1>2, <3>1, <3>2 DEF BridgeStop, bridgeVars
  <2>3. UNCHANGED <<inProgress, starts, acks, results, workerVars>>
    BY <1>2 DEF BridgeStop, bridgeVars
  <2>4. BridgeTyped' /\ PortsTyped'
    BY <1>0, <2>1, <2>2, <2>3 DEF BridgeTyped, PortsTyped
  <2> QED
    BY <2>3, <2>4, WorkerRests
<1>3. CASE BridgeStopped
  <2>1. Cardinality(Marks(toWorker, "stop")) \in Nat
    BY <1>0, MarksFinite DEF PortsTyped
  <2>2. Len(waiting) > 0
    BY <1>0, <1>3, <2>1 DEF BridgeStopped, StopsCounted, BridgeTyped, PortsTyped
  <2>3. Tail(waiting) \in Seq({"stop", "clear"})
    BY <1>0, <2>2 DEF BridgeTyped
  <2>4. toWorker' \in Seq(Commands)
    <3>1. CASE Send([cmd |-> "close"])
      BY <1>0, <3>1, SendTyped, Messages
    <3>2. CASE UNCHANGED toWorker
      BY <1>0, <3>2 DEF PortsTyped
    <3> QED
      BY <1>3, <3>1, <3>2 DEF BridgeStopped
  <2>5. PortsTyped'
    BY <1>0, <1>3, <2>4 DEF BridgeStopped, PortsTyped
  <2>6. BridgeTyped'
    BY <1>0, <1>3, <2>3 DEF BridgeStopped, BridgeTyped
  <2> QED
    BY <1>3, <2>5, <2>6, WorkerRests DEF BridgeStopped
<1>4. CASE BridgeDeliver
  <2>1. results' \in Seq(Queries)
    BY <1>0, <1>4 DEF BridgeDeliver, PortsTyped
  <2>2. BridgeTyped' /\ PortsTyped'
    BY <1>0, <1>4, <2>1 DEF BridgeDeliver, PortsTyped, BridgeTyped, bridgeVars
  <2> QED
    BY <1>4, <2>2, WorkerRests DEF BridgeDeliver
<1> QED
  BY <1>1, <1>2, <1>3, <1>4 DEF Page

(* Schedules and calls as the worker makes and changes them. *)
LEMMA ScheduleTyped ==
  ASSUME NEW n \in Timers \cup {None}, NEW b \in BOOLEAN
  PROVE  [timerId |-> n, inProgress |-> b] \in [timerId : Timers \cup {None}, inProgress : BOOLEAN]
OBVIOUS

LEMMA NewCallTyped ==
  ASSUME NEW n \in Timers, NEW q \in Queries
  PROVE  [timer |-> n, q |-> q, current |-> TRUE, phase |-> "fetching"] \in Calls
BY DEF Calls

LEMMA CallTyped ==
  ASSUME NEW c \in Calls
  PROVE  /\ c.timer \in Timers /\ c.q \in Queries
         /\ [c EXCEPT !.current = FALSE] \in Calls
         /\ [c EXCEPT !.phase = "reading"] \in Calls
         /\ [c EXCEPT !.phase = "aborted", !.current = FALSE] \in Calls
<1>1. c.timer \in Timers /\ c.q \in Queries /\ c.phase \in {"fetching", "reading", "aborted"}
  BY DEF Calls
<1>2. c.current \in BOOLEAN
  BY DEF Calls
<1>3. [c EXCEPT !.current = FALSE] \in Calls
  BY DEF Calls
<1>4. [c EXCEPT !.phase = "reading"] \in Calls
  BY DEF Calls
<1>5. [c EXCEPT !.phase = "aborted", !.current = FALSE] \in Calls
  BY DEF Calls
<1> QED
  BY <1>1, <1>3, <1>4, <1>5

(* A step that leaves the bridge alone has ports and worker to type. *)
LEMMA BridgeRests ==
  ASSUME LUTypeOK, UNCHANGED bridgeVars, PortsTyped', WorkerTyped',
         open' \in BOOLEAN, lost' \in BOOLEAN
  PROVE  LUTypeOK'
<1>1. BridgeTyped'
  BY DEF LUTypeOK, bridgeVars, BridgeTyped
<1> QED
  BY <1>1 DEF LUTypeOK, WorkerTyped, BridgeTyped, PortsTyped

(* Types at the steps of the worker. *)
LEMMA WorkerKeepsTypes ==
  ASSUME LUTypeOK, WorkerNext
  PROVE  LUTypeOK'
<1>0. PortsTyped /\ WorkerTyped /\ open \in BOOLEAN /\ lost \in BOOLEAN
  BY TypeParts
<1>c. \A c \in calls : c \in Calls
  BY <1>0 DEF WorkerTyped
<1>n. None \in Timers \cup {None} /\ FALSE \in BOOLEAN /\ TRUE \in BOOLEAN
  OBVIOUS
<1>s. Idle \in [timerId : Timers \cup {None}, inProgress : BOOLEAN]
  BY <1>n, ScheduleTyped DEF Idle
<1>1. CASE WorkerStart
  <2>1. PortsTyped'
    BY <1>0, <1>1 DEF PortsTyped, WorkerStart
  <2>2. api' \in Queries
    <3>1. Head(toWorker) \in Commands
      BY <1>0, <1>1 DEF PortsTyped, WorkerStart
    <3> QED
      BY <1>1, <3>1, Messages DEF WorkerStart
  <2>3. calls' \subseteq Calls
    BY <1>c, <1>1, CallTyped DEF WorkerStart
  <2>4. timers' \subseteq Timers /\ schedule' \in [timerId : Timers \cup {None}, inProgress : BOOLEAN]
    BY <1>0, <1>1, <1>n, ScheduleTyped DEF WorkerTyped, WorkerStart
  <2>5. open' \in BOOLEAN /\ lost' \in BOOLEAN /\ UNCHANGED bridgeVars
    BY <1>0, <1>1 DEF WorkerStart
  <2>6. WorkerTyped'
    BY <2>2, <2>3, <2>4 DEF WorkerTyped
  <2> QED
    BY <2>1, <2>5, <2>6, BridgeRests
<1>2. CASE WorkerStop
  <2>1. PortsTyped'
    <3>1. /\ toWorker # <<>> /\ toWorker' = Tail(toWorker)
          /\ acks' = acks + 1 /\ results' = results
      BY <1>2 DEF WorkerStop
    <3> QED
      BY <1>0, <3>1 DEF PortsTyped
  <2>2. calls' \subseteq Calls
    <3>1. \A d \in calls' : d \in calls \/ \E c \in calls : d = [c EXCEPT !.phase = "aborted", !.current = FALSE]
      BY <1>2 DEF WorkerStop
    <3> QED
      BY <1>c, <3>1, CallTyped
  <2>3. timers' \subseteq Timers /\ schedule' \in [timerId : Timers \cup {None}, inProgress : BOOLEAN]
    BY <1>0, <1>2, <1>s DEF WorkerTyped, WorkerStop
  <2>4. open' \in BOOLEAN /\ lost' \in BOOLEAN /\ api' = None /\ UNCHANGED bridgeVars
    BY <1>0, <1>2 DEF WorkerStop
  <2>5. WorkerTyped'
    BY <2>2, <2>3, <2>4 DEF WorkerTyped
  <2> QED
    BY <2>1, <2>4, <2>5, BridgeRests
<1>3. CASE WorkerClose
  <2>1. PortsTyped'
    BY <1>0, <1>3 DEF PortsTyped, WorkerClose
  <2>2. WorkerTyped'
    BY <1>3, <1>s DEF WorkerTyped, WorkerClose
  <2>3. open' \in BOOLEAN /\ lost' \in BOOLEAN /\ UNCHANGED bridgeVars
    BY <1>0, <1>3 DEF WorkerClose
  <2> QED
    BY <2>1, <2>2, <2>3, BridgeRests
<1>4. ASSUME NEW t \in Timers, StartUpdateCall(t) PROVE LUTypeOK'
  <2>1. PICK n \in Timers : /\ timers' = (timers \ {t}) \cup {n}
                            /\ IF api = None
                               THEN updateSchedule(n) /\ UNCHANGED calls
                               ELSE /\ calls' = calls \cup {[timer |-> n, q |-> api, current |-> TRUE,
                                                            phase |-> "fetching"]}
                                    /\ UNCHANGED schedule
    BY <1>4 DEF StartUpdateCall
  <2>2. calls' \subseteq Calls
    BY <1>0, <1>c, <2>1, NewCallTyped DEF WorkerTyped
  <2>3. schedule' \in [timerId : Timers \cup {None}, inProgress : BOOLEAN]
    <3>1. CASE api = None
      BY <2>1, <3>1, <1>n, ScheduleTyped DEF updateSchedule
    <3>2. CASE api # None
      BY <1>0, <2>1, <3>2 DEF WorkerTyped
    <3> QED
      BY <3>1, <3>2
  <2>4. timers' \subseteq Timers /\ api' \in Queries \cup {None}
    BY <1>0, <1>4, <2>1 DEF WorkerTyped, StartUpdateCall
  <2>5. open' \in BOOLEAN /\ lost' \in BOOLEAN /\ UNCHANGED bridgeVars
    BY <1>0, <1>4 DEF StartUpdateCall
  <2>6. PortsTyped'
    BY <1>0, <1>4 DEF StartUpdateCall, ports, PortsTyped
  <2>7. WorkerTyped'
    BY <2>2, <2>3, <2>4 DEF WorkerTyped
  <2> QED
    BY <2>5, <2>6, <2>7, BridgeRests
<1>5. ASSUME NEW c \in calls, CallEnds(c) PROVE LUTypeOK'
  <2> USE DEF CallEnds, FetchAnswered, CallFails, CallSucceeds
  <2>1. c \in Calls /\ c.timer \in Timers /\ c.q \in Queries /\ [c EXCEPT !.phase = "reading"] \in Calls
    BY <1>c, CallTyped
  <2>2. calls' \subseteq Calls
    BY <1>c, <1>5, <2>1
  <2>3. schedule' \in [timerId : Timers \cup {None}, inProgress : BOOLEAN]
    <3>1. CASE schedule' = schedule
      BY <1>0, <3>1 DEF WorkerTyped
    <3>2. CASE updateSchedule(c.timer)
      BY <2>1, <3>2, <1>n, ScheduleTyped DEF updateSchedule
    <3> QED
      BY <1>5, <3>1, <3>2
  <2>4. results' \in Seq(Queries)
    <3>1. CASE results' = results
      BY <1>0, <3>1 DEF PortsTyped
    <3>2. CASE results' = Append(results, c.q)
      BY <1>0, <2>1, <3>2 DEF PortsTyped
    <3> QED
      BY <1>5, <3>1, <3>2 DEF ports
  <2>5. UNCHANGED <<bridgeVars, toWorker, acks, api, timers, open>>
    BY <1>5 DEF ports
  <2>6. open' \in BOOLEAN /\ lost' \in BOOLEAN
    BY <1>0, <1>5
  <2>7. PortsTyped'
    BY <1>0, <2>4, <2>5 DEF PortsTyped
  <2>8. WorkerTyped'
    BY <1>0, <2>2, <2>3, <2>5 DEF WorkerTyped
  <2> QED
    BY <2>5, <2>6, <2>7, <2>8, BridgeRests
<1> QED
  BY <1>1, <1>2, <1>3, <1>4, <1>5 DEF WorkerNext, WorkerCommand

-----------------------------------------------------------------------------
(* Starts and stops on the port *)

(* What a message that is sent, or taken, does to the marks of its kind. *)
LEMMA SendMarks ==
  ASSUME PortsTyped, NEW m \in Commands, Send(m), NEW kind
  PROVE  Cardinality(Marks(toWorker', kind))
           = Cardinality(Marks(toWorker, kind)) + (IF m.cmd = kind THEN 1 ELSE 0)
<1>1. toWorker \in Seq(Commands) /\ toWorker' = Append(toWorker, m)
  BY DEF PortsTyped, Send
<1> QED
  BY <1>1, MarksAppend

LEMMA CountsAreNumbers ==
  ASSUME LUTypeOK
  PROVE  /\ toWorker \in Seq(Commands) /\ toWorker' \in Seq(Commands) =>
              /\ Cardinality(Marks(toWorker, "start")) \in Nat
              /\ Cardinality(Marks(toWorker, "stop")) \in Nat
              /\ Cardinality(Marks(toWorker', "start")) \in Nat
              /\ Cardinality(Marks(toWorker', "stop")) \in Nat
         /\ Cardinality(timers) \in Nat /\ starts \in Nat /\ acks \in Nat /\ Len(waiting) \in Nat
<1>1. Cardinality(timers) \in Nat
  BY TimersFinite
<1>2. starts \in Nat /\ acks \in Nat /\ Len(waiting) \in Nat
  BY DEF LUTypeOK
<1> QED
  BY <1>1, <1>2, MarksFinite

(* Starts and stops are counted at the steps of the bridge. *)
LEMMA BridgeCounts ==
  ASSUME LUTypeOK, LUTypeOK', StartsCounted, StopsCounted, Page \/ BridgeStopped \/ BridgeDeliver
  PROVE  StartsCounted' /\ StopsCounted'
<1> DEFINE nStart == Cardinality(Marks(toWorker, "start"))
           nStop == Cardinality(Marks(toWorker, "stop"))
           nStart1 == Cardinality(Marks(toWorker', "start"))
           nStop1 == Cardinality(Marks(toWorker', "stop"))
<1>0. PortsTyped /\ PortsTyped'
  BY DEF LUTypeOK, PortsTyped
<1>t. /\ nStart \in Nat /\ nStop \in Nat /\ nStart1 \in Nat /\ nStop1 \in Nat
      /\ Cardinality(timers) \in Nat /\ starts \in Nat /\ acks \in Nat /\ Len(waiting) \in Nat
  BY <1>0, CountsAreNumbers DEF PortsTyped
<1>h. Cardinality(timers) + nStart <= starts /\ acks + nStop <= Len(waiting)
  BY DEF StartsCounted, StopsCounted
<1> SUFFICES /\ Cardinality(timers') + nStart1 <= starts'
             /\ acks' + nStop1 <= Len(waiting')
  BY DEF StartsCounted, StopsCounted
<1> HIDE DEF nStart, nStop, nStart1, nStop1
<1>s. ASSUME Send([cmd |-> "stop"])
      PROVE  nStart1 = nStart /\ nStop1 = nStop + 1
  <2>1. nStart1 = nStart + (IF "stop" = "start" THEN 1 ELSE 0)
    BY <1>0, <1>s, Messages, SendMarks DEF nStart, nStart1
  <2>2. nStop1 = nStop + (IF "stop" = "stop" THEN 1 ELSE 0)
    BY <1>0, <1>s, Messages, SendMarks DEF nStop, nStop1
  <2> QED
    BY <2>1, <2>2, <1>t
<1>c. ASSUME Send([cmd |-> "close"])
      PROVE  nStart1 = nStart /\ nStop1 = nStop
  <2>1. nStart1 = nStart + (IF "close" = "start" THEN 1 ELSE 0)
    BY <1>0, <1>c, Messages, SendMarks DEF nStart, nStart1
  <2>2. nStop1 = nStop + (IF "close" = "stop" THEN 1 ELSE 0)
    BY <1>0, <1>c, Messages, SendMarks DEF nStop, nStop1
  <2> QED
    BY <2>1, <2>2, <1>t
<1>u. ASSUME UNCHANGED toWorker
      PROVE  nStart1 = nStart /\ nStop1 = nStop
  BY <1>u DEF nStart, nStart1, nStop, nStop1
<1>1. ASSUME NEW q \in Queries, BridgeStart(q)
      PROVE  /\ Cardinality(timers') + nStart1 <= starts'
             /\ acks' + nStop1 <= Len(waiting')
  <2>1. Send([cmd |-> "start", q |-> q])
    BY <1>1 DEF BridgeStart
  <2>2. nStart1 = nStart + (IF "start" = "start" THEN 1 ELSE 0)
    BY <1>0, <2>1, Messages, SendMarks DEF nStart, nStart1
  <2>3. nStop1 = nStop + (IF "start" = "stop" THEN 1 ELSE 0)
    BY <1>0, <2>1, Messages, SendMarks DEF nStop, nStop1
  <2>4. timers' = timers /\ starts' = starts + 1 /\ acks' = acks /\ waiting' = waiting
    BY <1>1 DEF BridgeStart, workerVars
  <2> QED
    BY <1>t, <1>h, <2>2, <2>3, <2>4
<1>2. ASSUME NEW kind \in {"stop", "clear"}, BridgeStop(kind)
      PROVE  /\ Cardinality(timers') + nStart1 <= starts'
             /\ acks' + nStop1 <= Len(waiting')
  <2>0. timers' = timers /\ starts' = starts /\ acks' = acks
    BY <1>2 DEF BridgeStop, workerVars, bridgeVars
  <2>1. CASE Send([cmd |-> "stop"]) /\ waiting' = Append(waiting, kind)
    <3>1. Len(waiting') = Len(waiting) + 1
      BY <2>1 DEF LUTypeOK
    <3> QED
      BY <1>t, <1>h, <1>s, <2>0, <2>1, <3>1
  <2>2. CASE Send([cmd |-> "close"]) /\ waiting' = waiting
    BY <1>t, <1>h, <1>c, <2>0, <2>2
  <2>3. CASE UNCHANGED toWorker /\ waiting' = waiting
    BY <1>t, <1>h, <1>u, <2>0, <2>3
  <2> QED
    BY <1>2, <2>1, <2>2, <2>3 DEF BridgeStop, bridgeVars
<1>3. CASE BridgeStopped
  <2>0. timers' = timers /\ starts' = starts /\ acks' = acks - 1 /\ acks > 0
    BY <1>3 DEF BridgeStopped, workerVars
  <2>1. Len(waiting') = Len(waiting) - 1
    <3>1. waiting # <<>>
      BY <1>t, <1>h, <2>0
    <3> QED
      BY <1>3, <3>1 DEF BridgeStopped, LUTypeOK
  <2>2. nStart1 = nStart /\ nStop1 = nStop
    BY <1>3, <1>c, <1>u DEF BridgeStopped
  <2> QED
    BY <1>t, <1>h, <2>0, <2>1, <2>2
<1>4. CASE BridgeDeliver
  <2>1. /\ timers' = timers /\ starts' = starts /\ acks' = acks /\ waiting' = waiting
        /\ UNCHANGED toWorker
    BY <1>4 DEF BridgeDeliver, workerVars, bridgeVars
  <2> QED
    BY <1>t, <1>h, <1>u, <2>1
<1> QED
  BY <1>1, <1>2, <1>3, <1>4 DEF Page

(* Starts and stops are counted at the steps of the worker: a start taken is *)
(* one timer more, a stop taken one answer more.                             *)
LEMMA WorkerCounts ==
  ASSUME LUTypeOK, LUTypeOK', StartsCounted, StopsCounted, WorkerNext
  PROVE  StartsCounted' /\ StopsCounted'
<1> DEFINE nStart == Cardinality(Marks(toWorker, "start"))
           nStop == Cardinality(Marks(toWorker, "stop"))
           nStart1 == Cardinality(Marks(toWorker', "start"))
           nStop1 == Cardinality(Marks(toWorker', "stop"))
<1>0. PortsTyped /\ PortsTyped'
  BY DEF LUTypeOK, PortsTyped
<1>t. /\ nStart \in Nat /\ nStop \in Nat /\ nStart1 \in Nat /\ nStop1 \in Nat
      /\ Cardinality(timers) \in Nat /\ starts \in Nat /\ acks \in Nat /\ Len(waiting) \in Nat
  BY <1>0, CountsAreNumbers DEF PortsTyped
<1>f. IsFiniteSet(timers)
  BY TimersFinite
<1>h. Cardinality(timers) + nStart <= starts /\ acks + nStop <= Len(waiting)
  BY DEF StartsCounted, StopsCounted
<1> SUFFICES /\ Cardinality(timers') + nStart1 <= starts'
             /\ acks' + nStop1 <= Len(waiting')
  BY DEF StartsCounted, StopsCounted
<1>m. ASSUME toWorker # <<>>, toWorker' = Tail(toWorker)
      PROVE  /\ nStart1 <= nStart /\ nStop1 <= nStop
             /\ Head(toWorker).cmd = "start" => nStart1 + 1 <= nStart
             /\ Head(toWorker).cmd = "stop" => nStop1 + 1 <= nStop
  BY <1>0, <1>m, MarksTail DEF PortsTyped
<1>u. ASSUME UNCHANGED toWorker
      PROVE  nStart1 = nStart /\ nStop1 = nStop
  BY <1>u
<1> HIDE DEF nStart, nStop, nStart1, nStop1
<1>1. CASE WorkerStart
  <2>1. /\ toWorker # <<>> /\ toWorker' = Tail(toWorker) /\ Head(toWorker).cmd = "start"
        /\ UNCHANGED <<bridgeVars, acks>>
    BY <1>1 DEF WorkerStart
  <2>2. PICK t \in Timers : timers' = timers \cup {t}
    BY <1>1 DEF WorkerStart
  <2>3. Cardinality(timers \cup {t}) = IF t \in timers THEN Cardinality(timers) ELSE Cardinality(timers) + 1
    BY <1>f, FS_AddElement
  <2> QED
    BY <1>t, <1>h, <1>m, <2>1, <2>2, <2>3 DEF bridgeVars
<1>2. CASE WorkerStop
  <2>1. /\ toWorker # <<>> /\ toWorker' = Tail(toWorker) /\ Head(toWorker).cmd = "stop"
        /\ acks' = acks + 1 /\ timers' = timers \ {schedule.timerId} /\ UNCHANGED bridgeVars
    BY <1>2 DEF WorkerStop
  <2>2. Cardinality(timers') <= Cardinality(timers) /\ Cardinality(timers') \in Nat
    <3>1. timers' \in SUBSET timers
      BY <2>1
    <3>2. IsFiniteSet(timers')
      BY <1>f, <3>1, FS_Subset
    <3> QED
      BY <1>f, <3>1, <3>2, FS_Subset, FS_CardinalityType
  <2> QED
    BY <1>t, <1>h, <1>m, <2>1, <2>2 DEF bridgeVars
<1>3. CASE WorkerClose
  <2>1. /\ toWorker # <<>> /\ toWorker' = Tail(toWorker) /\ timers' = {}
        /\ UNCHANGED <<bridgeVars, acks>>
    BY <1>3 DEF WorkerClose
  <2>2. Cardinality({}) = 0
    BY FS_EmptySet
  <2> QED
    BY <1>t, <1>h, <1>m, <2>1, <2>2 DEF bridgeVars
<1>4. ASSUME NEW t \in Timers, StartUpdateCall(t)
      PROVE  /\ Cardinality(timers') + nStart1 <= starts'
             /\ acks' + nStop1 <= Len(waiting')
  <2>1. t \in timers /\ UNCHANGED <<bridgeVars, toWorker, acks>>
    BY <1>4 DEF StartUpdateCall, ports
  <2>2. PICK n \in Timers : timers' = (timers \ {t}) \cup {n}
    BY <1>4 DEF StartUpdateCall
  <2>3. Cardinality(timers') <= Cardinality(timers)
    BY <2>1, <2>2, TimersReplaced
  <2>4. Cardinality(timers') \in Nat
    <3>1. IsFiniteSet(timers \ {t})
      BY <1>f, FS_RemoveElement
    <3>2. IsFiniteSet(timers')
      BY <2>2, <3>1, FS_AddElement
    <3> QED
      BY <3>2, FS_CardinalityType
  <2> QED
    BY <1>t, <1>h, <1>u, <2>1, <2>3, <2>4 DEF bridgeVars
<1>5. ASSUME NEW c \in calls, CallEnds(c)
      PROVE  /\ Cardinality(timers') + nStart1 <= starts'
             /\ acks' + nStop1 <= Len(waiting')
  <2>1. UNCHANGED <<bridgeVars, toWorker, acks, timers>>
    BY <1>5 DEF CallEnds, FetchAnswered, CallFails, CallSucceeds, ports
  <2> QED
    BY <1>t, <1>h, <1>u, <2>1 DEF bridgeVars
<1> QED
  BY <1>1, <1>2, <1>3, <1>4, <1>5 DEF WorkerNext, WorkerCommand

-----------------------------------------------------------------------------
(* The timer of an undisturbed worker *)

(* The steps of bridge and page do not touch the worker. *)
LEMMA BridgeSchedule ==
  ASSUME ScheduleKnowsTimer, OneCallAtMost, UNCHANGED workerVars
  PROVE  (ScheduleKnowsTimer /\ OneCallAtMost)'
BY DEF ScheduleKnowsTimer, OneCallAtMost, workerVars

LEMMA WorkerSchedule ==
  ASSUME LUTypeOK, ScheduleKnowsTimer, OneCallAtMost, WorkerNext
  PROVE  (ScheduleKnowsTimer /\ OneCallAtMost)'
<1> USE DEF ScheduleKnowsTimer, OneCallAtMost
<1>1. CASE WorkerStart
  <2>1. /\ (timers = {} /\ calls = {}) \/ lost'
        /\ calls' = {[c EXCEPT !.current = FALSE] : c \in calls}
        /\ \E t \in Timers : timers' = timers \cup {t} /\ schedule' = [timerId |-> t, inProgress |-> FALSE]
    BY <1>1 DEF WorkerStart
  <2> QED
    BY <2>1
<1>2. CASE WorkerStop
  <2>1. /\ lost' = (lost \/ calls # {}) /\ timers' = timers \ {schedule.timerId}
        /\ calls = {} => calls' = {}
    BY <1>2 DEF WorkerStop
  <2> QED
    BY <2>1
<1>3. CASE WorkerClose
  BY <1>3 DEF WorkerClose
<1>4. ASSUME NEW t \in Timers, StartUpdateCall(t)
      PROVE  (ScheduleKnowsTimer /\ OneCallAtMost)'
  <2>1. PICK n \in Timers : /\ timers' = (timers \ {t}) \cup {n}
                            /\ IF api = None
                               THEN updateSchedule(n) /\ UNCHANGED calls
                               ELSE /\ calls' = calls \cup {[timer |-> n, q |-> api, current |-> TRUE,
                                                            phase |-> "fetching"]}
                                    /\ UNCHANGED schedule
    BY <1>4 DEF StartUpdateCall
  <2>2. t \in timers /\ api' = api /\ lost' = (lost \/ (api # None /\ calls # {}))
    BY <1>4 DEF StartUpdateCall
  <2>3. CASE ~lost' /\ api = None
    <3>0. ~lost
      BY <2>2, <2>3
    <3>1. calls = {} /\ timers \subseteq {schedule.timerId}
      BY <2>3, <3>0
    <3>2. timers' = {n}
      BY <2>1, <2>2, <3>1
    <3>3. schedule'.timerId = n /\ calls' = {}
      BY <2>1, <2>3, <3>1 DEF updateSchedule
    <3> QED
      BY <3>2, <3>3
  <2>4. CASE ~lost' /\ api # None
    <3>0. ~lost /\ calls = {}
      BY <2>2, <2>4
    <3>1. timers \subseteq {schedule.timerId}
      BY <3>0
    <3>2. timers' = {n}
      BY <2>1, <2>2, <3>1
    <3>3. \A c \in calls' : calls' = {c} /\ c.timer = n
      <4> DEFINE new == [timer |-> n, q |-> api, current |-> TRUE, phase |-> "fetching"]
      <4>1. calls' = {new}
        BY <2>1, <2>4, <3>0
      <4>2. new.timer = n
        OBVIOUS
      <4> QED
        BY <4>1, <4>2
    <3>4. calls' # {} /\ api' # None
      BY <2>1, <2>2, <2>4
    <3> QED
      BY <3>2, <3>3, <3>4
  <2> QED
    BY <2>3, <2>4
<1>5. ASSUME NEW c \in calls, CallEnds(c)
      PROVE  (ScheduleKnowsTimer /\ OneCallAtMost)'
  <2>1. UNCHANGED <<api, timers>>
    BY <1>5 DEF CallEnds, FetchAnswered, CallFails, CallSucceeds, ports
  <2>2. CASE lost'
    BY <2>2
  <2>3. CASE ~lost' /\ FetchAnswered(c)
    <3>1. ~lost /\ calls = {c} /\ calls' = {[c EXCEPT !.phase = "reading"]}
      BY <2>3 DEF FetchAnswered
    <3>2. c \in Calls
      BY <3>1 DEF LUTypeOK
    <3>3. [c EXCEPT !.phase = "reading"].timer = c.timer
      BY <3>2 DEF Calls
    <3> QED
      BY <2>1, <3>1, <3>3
  <2>4. CASE ~lost' /\ (CallFails(c) \/ CallSucceeds(c))
    <3>1. ~lost /\ calls = {c} /\ calls' = {} /\ schedule'.timerId = c.timer
      BY <2>4 DEF CallFails, CallSucceeds, updateSchedule
    <3> QED
      BY <2>1, <3>1
  <2> QED
    BY <1>5, <2>2, <2>3, <2>4 DEF CallEnds
<1> QED
  BY <1>1, <1>2, <1>3, <1>4, <1>5 DEF WorkerNext, WorkerCommand

-----------------------------------------------------------------------------
(* The invariant holds at the start and is kept. *)
LEMMA LiveInit == LUInit => LUInv
<1> SUFFICES ASSUME LUInit PROVE LUInv
  OBVIOUS
<1>1. LUTypeOK
  <2>0. inProgress = FALSE /\ waiting = <<>> /\ toWorker = <<>> /\ results = <<>> /\ starts = 0 /\ acks = 0
    BY DEF LUInit
  <2>a. <<>> \in Seq({"stop", "clear"}) /\ <<>> \in Seq(Commands) /\ <<>> \in Seq(Queries)
    OBVIOUS
  <2>b. inProgress \in BOOLEAN
    BY <2>0
  <2>1. BridgeTyped /\ PortsTyped
    BY <2>0, <2>a, <2>b DEF BridgeTyped, PortsTyped
  <2>2. schedule \in [timerId : Timers \cup {None}, inProgress : BOOLEAN]
    BY ScheduleTyped DEF LUInit, Idle
  <2>3. WorkerTyped
    BY <2>2 DEF LUInit, WorkerTyped
  <2> QED
    BY <2>1, <2>3, TypeParts DEF LUInit
<1>2. StartsCounted /\ StopsCounted
  <2>1. Marks(toWorker, "start") = {} /\ Marks(toWorker, "stop") = {} /\ timers = {}
    BY DEF LUInit, Marks
  <2>2. starts = 0 /\ acks = 0 /\ waiting = <<>>
    BY DEF LUInit
  <2>3. Cardinality({}) = 0 /\ Len(<<>>) = 0
    BY FS_EmptySet
  <2>4. Cardinality(timers) = 0 /\ Cardinality(Marks(toWorker, "start")) = 0
        /\ Cardinality(Marks(toWorker, "stop")) = 0 /\ Len(waiting) = 0
    BY <2>1, <2>2, <2>3
  <2> QED
    BY <2>2, <2>4 DEF StartsCounted, StopsCounted
<1>3. ScheduleKnowsTimer /\ OneCallAtMost
  BY DEF LUInit, ScheduleKnowsTimer, OneCallAtMost
<1> QED
  BY <1>1, <1>2, <1>3 DEF LUInv

LEMMA LiveStep == LUInv /\ [LUNext]_luVars => LUInv'
<1> SUFFICES ASSUME LUInv, [LUNext]_luVars PROVE LUInv'
  OBVIOUS
<1> USE DEF LUInv
<1>1. CASE Page \/ BridgeStopped \/ BridgeDeliver
  <2>1. UNCHANGED workerVars
    BY <1>1 DEF Page, BridgeStart, BridgeStop, BridgeStopped, BridgeDeliver
  <2>2. LUTypeOK'
    BY <1>1, BridgeKeepsTypes
  <2> QED
    BY <1>1, <2>1, <2>2, BridgeCounts, BridgeSchedule
<1>2. CASE WorkerNext
  <2>1. LUTypeOK'
    BY <1>2, WorkerKeepsTypes
  <2> QED
    BY <1>2, <2>1, WorkerCounts, WorkerSchedule
<1>3. CASE UNCHANGED luVars
  <2> USE <1>3 DEF luVars, bridgeVars, ports, workerVars
  <2>1. LUTypeOK'
    BY DEF LUTypeOK
  <2>2. StartsCounted' /\ StopsCounted'
    BY DEF StartsCounted, StopsCounted
  <2>3. ScheduleKnowsTimer' /\ OneCallAtMost'
    BY DEF ScheduleKnowsTimer, OneCallAtMost
  <2> QED
    BY <2>1, <2>2, <2>3
<1> QED
  BY <1>1, <1>2, <1>3 DEF LUNext

(* The polling of a worker, for any number of queries, timers, calls and     *)
(* starts: its schedule knows the one timer there is unless calls overlapped *)
(* with a start, a stop or one another (startUpdateCall, clearScheduler),    *)
(* and there are never more timers than starts.                              *)
THEOREM PollingUnderControl == LUSpec => []TimersUnderControl
<1>1. LUInv => TimersUnderControl
  <2> SUFFICES ASSUME LUInv PROVE Cardinality(timers) <= starts
    BY DEF LUInv, TimersUnderControl, ChainsComeFromStarts
  <2>1. LUTypeOK /\ PortsTyped
    BY DEF LUInv, LUTypeOK, PortsTyped
  <2>2. Cardinality(Marks(toWorker, "start")) \in Nat /\ Cardinality(timers) \in Nat /\ starts \in Nat
    BY <2>1, MarksFinite, TimersFinite DEF PortsTyped, LUTypeOK
  <2> QED
    BY <2>2 DEF LUInv, StartsCounted
<1> QED
  BY LiveInit, LiveStep, <1>1, PTL DEF LUSpec

-----------------------------------------------------------------------------
(* The live service *)

(* A step of bridge or page is a start, a delivery, or nothing to the service. *)
LEMMA BridgeServes ==
  ASSUME LUTypeOK, Page \/ BridgeStopped \/ BridgeDeliver
  PROVE  Service!LSNext \/ UNCHANGED <<Sources, results>>
<1>1. UNCHANGED workerVars
  BY DEF Page, BridgeStart, BridgeStop, BridgeStopped, BridgeDeliver
<1>2. ASSUME NEW m \in Commands, m.cmd # "start", Send(m) PROVE UNCHANGED Sources
  <2>1. /\ toWorker \in Seq(Commands) /\ toWorker' = Append(toWorker, m)
        /\ DOMAIN toWorker' = 1..(Len(toWorker) + 1) /\ DOMAIN toWorker = 1..Len(toWorker)
        /\ Len(toWorker) \in Nat
        /\ \A j \in 1..Len(toWorker) : toWorker'[j] = toWorker[j]
        /\ toWorker'[Len(toWorker) + 1] = m
    BY <1>2 DEF Send, LUTypeOK
  <2>2. {j \in DOMAIN toWorker' : toWorker'[j].cmd = "start" /\ open'}
          = {j \in DOMAIN toWorker : toWorker[j].cmd = "start" /\ open}
    BY <1>1, <1>2, <2>1 DEF workerVars
  <2>3. \A j \in DOMAIN toWorker : toWorker'[j] = toWorker[j]
    BY <2>1
  <2> QED
    BY <1>1, <2>2, <2>3 DEF Sources, workerVars
<1>3. ASSUME UNCHANGED toWorker PROVE UNCHANGED Sources
  BY <1>1, <1>3 DEF Sources, workerVars
<1>4. ASSUME NEW q \in Queries, BridgeStart(q)
      PROVE  Service!LSNext \/ UNCHANGED <<Sources, results>>
  <2> DEFINE m == [cmd |-> "start", q |-> q]
             n == Len(toWorker) + 1
  <2>1. /\ toWorker \in Seq(Commands) /\ m \in Commands /\ toWorker' = Append(toWorker, m)
    BY <1>4, Messages DEF BridgeStart, Send, LUTypeOK
  <2>2. /\ DOMAIN toWorker' = 1..n /\ DOMAIN toWorker = 1..Len(toWorker)
        /\ Len(toWorker) \in Nat
        /\ \A j \in 1..Len(toWorker) : toWorker'[j] = toWorker[j]
        /\ toWorker'[n] = m
    BY <2>1
  <2>3. results' = results
    BY <1>4 DEF BridgeStart
  <2>4. CASE open
    <3>1. {j \in DOMAIN toWorker' : toWorker'[j].cmd = "start" /\ open'}
            = {j \in DOMAIN toWorker : toWorker[j].cmd = "start" /\ open} \cup {n}
      BY <1>1, <2>2, <2>4 DEF workerVars
    <3>2. \A j \in DOMAIN toWorker : toWorker'[j] = toWorker[j]
      BY <2>2
    <3>3. toWorker'[n].q = q
      BY <2>2
    <3>4. Sources' = Sources \cup {q}
      BY <1>1, <3>1, <3>2, <3>3 DEF Sources, workerVars
    <3> QED
      BY <2>3, <3>4 DEF Service!LSNext, Service!Start
  <2>5. CASE ~open
    <3>1. Sources' = Sources
      BY <1>1, <2>5 DEF Sources, workerVars
    <3> QED
      BY <2>3, <3>1
  <2> QED
    BY <2>4, <2>5
<1>5. ASSUME NEW kind \in {"stop", "clear"}, BridgeStop(kind)
      PROVE  UNCHANGED <<Sources, results>>
  BY <1>2, <1>3, <1>5, Messages DEF BridgeStop
<1>6. CASE BridgeStopped
  BY <1>2, <1>3, <1>6, Messages DEF BridgeStopped
<1>7. CASE BridgeDeliver
  <2>1. UNCHANGED Sources /\ results # <<>> /\ results' = Tail(results)
    BY <1>3, <1>7 DEF BridgeDeliver
  <2> QED
    BY <2>1 DEF Service!LSNext, Service!Deliver
<1> QED
  BY <1>4, <1>5, <1>6, <1>7 DEF Page

(* A step of the worker silences queries, posts a result of one, or is       *)
(* nothing to the service; it never makes a query heard of that was not.     *)
LEMMA WorkerServes ==
  ASSUME LUTypeOK, WorkerNext
  PROVE  Service!LSNext \/ UNCHANGED <<Sources, results>>
<1> DEFINE Sent(port, on) == {port[i].q : i \in {j \in DOMAIN port : port[j].cmd = "start" /\ on}}
           Heard(set) == {c.q : c \in {d \in set : d.phase # "aborted"}}
<1>0. /\ Sources = Sent(toWorker, open) \cup ({api} \ {None}) \cup Heard(calls)
      /\ Sources' = Sent(toWorker', open') \cup ({api'} \ {None}) \cup Heard(calls')
  BY DEF Sources
<1>q. ASSUME Sources' \subseteq Sources, UNCHANGED results
      PROVE  Service!LSNext
  BY <1>q DEF Service!LSNext, Service!Silence
<1>m. ASSUME toWorker # <<>>, toWorker' = Tail(toWorker), open' => open
      PROVE  Sent(toWorker', open') \subseteq Sent(toWorker, open)
  <2>1. /\ toWorker \in Seq(Commands)
        /\ DOMAIN toWorker' = 1..(Len(toWorker) - 1) /\ DOMAIN toWorker = 1..Len(toWorker)
        /\ Len(toWorker) \in Nat
        /\ \A j \in 1..(Len(toWorker) - 1) : toWorker'[j] = toWorker[j + 1]
    BY <1>m DEF LUTypeOK
  <2>2. ASSUME NEW j \in DOMAIN toWorker', toWorker'[j].cmd = "start", open'
        PROVE  toWorker'[j].q \in Sent(toWorker, open)
    <3>1. j + 1 \in DOMAIN toWorker /\ toWorker'[j] = toWorker[j + 1]
      BY <2>1
    <3> QED
      BY <1>m, <2>2, <3>1
  <2> QED
    BY <2>2
<1>h. ASSUME NEW set, \A d \in set : d.phase # "aborted" => \E c \in calls : c.phase # "aborted" /\ c.q = d.q
      PROVE  Heard(set) \subseteq Heard(calls)
  BY <1>h
<1>1. CASE WorkerStart
  <2>1. /\ toWorker # <<>> /\ toWorker' = Tail(toWorker) /\ open' = open /\ open
        /\ api' = Head(toWorker).q /\ Head(toWorker).cmd = "start" /\ results' = results
        /\ calls' = {[c EXCEPT !.current = FALSE] : c \in calls}
    BY <1>1 DEF WorkerStart
  <2>2. api' \in Sent(toWorker, open)
    <3>1. 1 \in DOMAIN toWorker /\ Head(toWorker) = toWorker[1]
      BY <2>1 DEF LUTypeOK
    <3> QED
      BY <2>1, <3>1
  <2>3. \A c \in calls : [c EXCEPT !.current = FALSE].phase = c.phase /\ [c EXCEPT !.current = FALSE].q = c.q
    BY DEF LUTypeOK, Calls
  <2>4. Heard(calls') \subseteq Heard(calls)
    <3>1. \A d \in calls' : \E c \in calls : d = [c EXCEPT !.current = FALSE]
      BY <2>1
    <3>2. \A d \in calls' : d.phase # "aborted" => \E c \in calls : c.phase # "aborted" /\ c.q = d.q
      BY <2>3, <3>1
    <3> HIDE DEF Heard
    <3> QED
      BY <1>h, <3>2
  <2> HIDE DEF Sent, Heard
  <2> QED
    BY <1>0, <1>q, <1>m, <2>1, <2>2, <2>4
<1>2. CASE WorkerStop
  <2>1. /\ toWorker # <<>> /\ toWorker' = Tail(toWorker) /\ open' = open /\ api' = None /\ results' = results
    BY <1>2 DEF WorkerStop
  <2>2. \A d \in calls' : d \in calls \/ \E c \in calls : d = [c EXCEPT !.phase = "aborted", !.current = FALSE]
    BY <1>2 DEF WorkerStop
  <2>3. \A c \in calls : [c EXCEPT !.phase = "aborted", !.current = FALSE].phase = "aborted"
    BY DEF LUTypeOK, Calls
  <2>4. Heard(calls') \subseteq Heard(calls)
    BY <1>h, <2>2, <2>3
  <2> HIDE DEF Sent, Heard
  <2> QED
    BY <1>0, <1>q, <1>m, <2>1, <2>4
<1>3. CASE WorkerClose
  <2>1. /\ toWorker # <<>> /\ toWorker' = Tail(toWorker) /\ open' = FALSE /\ api' = None /\ results' = results
        /\ calls' = {}
    BY <1>3 DEF WorkerClose
  <2>2. Heard(calls') = {}
    BY <2>1
  <2> HIDE DEF Sent, Heard
  <2> QED
    BY <1>0, <1>q, <1>m, <2>1, <2>2
<1>4. ASSUME NEW t \in Timers, StartUpdateCall(t)
      PROVE  Service!LSNext
  <2>1. UNCHANGED <<toWorker, open, api, results>>
    BY <1>4 DEF StartUpdateCall, ports
  <2>2. \A d \in calls' : d \in calls \/ (d.q = api /\ api # None)
    <3>1. \E n \in Timers : calls' = calls \/
            (api # None /\ calls' = calls \cup {[timer |-> n, q |-> api, current |-> TRUE, phase |-> "fetching"]})
      BY <1>4 DEF StartUpdateCall
    <3>2. \A n \in Timers : [timer |-> n, q |-> api, current |-> TRUE, phase |-> "fetching"].q = api
      OBVIOUS
    <3> QED
      BY <3>1, <3>2
  <2>3. Heard(calls') \subseteq Heard(calls) \cup ({api} \ {None})
    BY <2>2
  <2>4. Sent(toWorker', open') = Sent(toWorker, open)
    BY <2>1
  <2> HIDE DEF Sent, Heard
  <2> QED
    BY <1>0, <1>q, <2>1, <2>3, <2>4
<1>5. ASSUME NEW c \in calls, CallEnds(c)
      PROVE  Service!LSNext
  <2> USE DEF CallEnds, FetchAnswered, CallFails, CallSucceeds, ports
  <2>1. UNCHANGED <<toWorker, open, api>>
    BY <1>5
  <2>2. Sent(toWorker', open') = Sent(toWorker, open)
    BY <2>1
  <2>3. c \in Calls /\ c.q \in Queries /\ [c EXCEPT !.phase = "reading"].q = c.q
    BY DEF LUTypeOK, Calls
  <2>4. \A d \in calls' : d \in calls \/ (d.q = c.q /\ c.phase # "aborted")
    BY <1>5, <2>3
  <2>5. Heard(calls') \subseteq Heard(calls)
    <3>1. \A d \in calls' : d.phase # "aborted" => \E e \in calls : e.phase # "aborted" /\ e.q = d.q
      BY <2>4
    <3> HIDE DEF Heard
    <3> QED
      BY <1>h, <3>1
  <2>6. c.phase # "aborted" => c.q \in Heard(calls)
    OBVIOUS
  <2>7. results' = results \/ (results' = Append(results, c.q) /\ c.phase = "reading")
    BY <1>5
  <2> HIDE DEF Sent, Heard
  <2>8. Sources' \subseteq Sources /\ (c.phase # "aborted" => c.q \in Sources)
    BY <1>0, <2>1, <2>2, <2>5, <2>6
  <2>9. CASE results' = results
    BY <1>q, <2>8, <2>9
  <2>10. CASE results' = Append(results, c.q) /\ c.phase = "reading"
    BY <2>3, <2>8, <2>10 DEF Service!LSNext, Service!Post
  <2> QED
    BY <2>7, <2>9, <2>10
<1> QED
  BY <1>1, <1>2, <1>3, <1>4, <1>5 DEF WorkerNext, WorkerCommand

(* Worker, bridge and ports implement the live service, for any number of    *)
(* queries, timers and overlapping calls: a page gets results of queries it  *)
(* has started, and none of a query that has fallen silent.                  *)
THEOREM ServiceImplemented == LUSpec => ImplementsService
<1>1. LUInit => Service!LSInit
  <2> SUFFICES ASSUME LUInit PROVE Service!LSInit
    OBVIOUS
  <2>1. toWorker = <<>> /\ api = None /\ calls = {} /\ results = <<>>
    BY DEF LUInit
  <2>2. Sources = {}
    BY <2>1 DEF Sources
  <2> QED
    BY <2>1, <2>2 DEF Service!LSInit
<1>2. LUInv /\ [LUNext]_luVars => [Service!LSNext]_<<Sources, results>>
  <2> SUFFICES ASSUME LUInv, [LUNext]_luVars PROVE Service!LSNext \/ UNCHANGED <<Sources, results>>
    OBVIOUS
  <2>1. LUTypeOK
    BY DEF LUInv
  <2>2. CASE UNCHANGED luVars
    BY <2>2 DEF luVars, ports, workerVars, Sources
  <2> QED
    BY <2>1, <2>2, BridgeServes, WorkerServes DEF LUNext
<1> QED
  BY LiveInit, LiveStep, <1>1, <1>2, PTL DEF LUSpec, ImplementsService, Service!LSSpec

-----------------------------------------------------------------------------
(* The runs explorer: what the server lists. *)

Descending(s) == \A i, j \in DOMAIN s : i < j => s[i] > s[j]

(* The newer runs of a set, of a newer run, are fewer. *)
LEMMA NewerAreFewer ==
  ASSUME NEW S \in SUBSET Nat, IsFiniteSet(S), NEW r \in S, NEW t \in S, r < t
  PROVE  Cardinality({x \in S : x > t}) < Cardinality({x \in S : x > r})
<1> DEFINE A == {x \in S : x > t}
           B == {x \in S : x > r}
<1>0. r \in Nat /\ t \in Nat /\ \A x \in S : x \in Nat /\ (x > t => x > r)
  OBVIOUS
<1>1. A \subseteq B /\ B \subseteq S /\ t \in B /\ t \notin A
  <2>1. A \subseteq B
    BY <1>0
  <2>2. t \in B /\ ~(t > t)
    BY <1>0
  <2> QED
    BY <2>1, <2>2
<1> HIDE DEF A, B
<1>2. IsFiniteSet(B) /\ IsFiniteSet(A) /\ Cardinality(A) <= Cardinality(B)
      /\ (Cardinality(B) = Cardinality(A) => B = A)
  BY <1>1, FS_Subset
<1>3. Cardinality(A) \in Nat /\ Cardinality(B) \in Nat
  BY <1>2, FS_CardinalityType
<1>4. Cardinality(A) < Cardinality(B)
  BY <1>1, <1>2, <1>3
<1> QED
  BY <1>4 DEF A, B

(* Every place from the newest on is taken by one run of the set. *)
LEMMA EveryRank ==
  ASSUME NEW S \in SUBSET Nat, IsFiniteSet(S)
  PROVE  /\ Cardinality(S) \in Nat
         /\ \A r \in S : Cardinality({x \in S : x > r}) \in 0..(Cardinality(S) - 1)
         /\ \A k \in 0..(Cardinality(S) - 1) : \E r \in S : Cardinality({x \in S : x > r}) = k
<1> DEFINE rank == [r \in S |-> Cardinality({x \in S : x > r})]
           places == 0..(Cardinality(S) - 1)
<1>1. Cardinality(S) \in Nat
  BY FS_CardinalityType
<1>2. ASSUME NEW r \in S PROVE Cardinality({x \in S : x > r}) \in 0..(Cardinality(S) - 1)
  <2> DEFINE B == {x \in S : x > r}
  <2>1. B \subseteq S /\ r \notin B
    OBVIOUS
  <2> HIDE DEF B
  <2>2. IsFiniteSet(B) /\ Cardinality(B) <= Cardinality(S) /\ (Cardinality(S) = Cardinality(B) => S = B)
    BY <2>1, FS_Subset
  <2>3. Cardinality(B) \in Nat
    BY <2>2, FS_CardinalityType
  <2>4. Cardinality(B) \in 0..(Cardinality(S) - 1)
    BY <1>1, <2>1, <2>2, <2>3
  <2> QED
    BY <2>4 DEF B
<1>3. rank \in [S -> places]
  BY <1>2
<1>4. ASSUME NEW r \in S, NEW t \in S, rank[r] = rank[t] PROVE r = t
  <2>1. rank[r] = Cardinality({x \in S : x > r}) /\ rank[t] = Cardinality({x \in S : x > t})
    OBVIOUS
  <2>2. rank[r] \in Int /\ rank[t] \in Int
    BY <1>3
  <2>3. r < t => rank[t] < rank[r]
    BY <2>1, NewerAreFewer
  <2>4. t < r => rank[r] < rank[t]
    BY <2>1, NewerAreFewer
  <2>5. r \in Nat /\ t \in Nat
    OBVIOUS
  <2> HIDE DEF rank
  <2> QED
    BY <1>4, <2>2, <2>3, <2>4, <2>5
<1>5. IsFiniteSet(places) /\ Cardinality(places) = Cardinality(S)
  <2>1. PICK n \in Nat : n = Cardinality(S)
    BY <1>1
  <2>2. IsFiniteSet(0..(n - 1)) /\ Cardinality(0..(n - 1)) = n
    BY FS_Interval
  <2> QED
    BY <2>1, <2>2
<1>6. rank \in Surjection(S, places)
  <2>1. rank \in Injection(S, places)
    BY <1>3, <1>4 DEF Injection, IsInjective
  <2> HIDE DEF rank, places
  <2> QED
    BY <1>5, <2>1, FS_Injection
<1>7. \A k \in places : \E r \in S : rank[r] = k
  BY <1>6 DEF Surjection
<1> QED
  BY <1>1, <1>2, <1>7

(* The list of a set holds the runs of the set, each once, newest first. *)
LEMMA ListedNewestFirst ==
  ASSUME NEW S \in SUBSET Runs
  PROVE  /\ NewestFirst(S) \in Seq(S) /\ Descending(NewestFirst(S))
         /\ \A r \in S : \E i \in DOMAIN NewestFirst(S) : NewestFirst(S)[i] = r
<1> DEFINE n == Cardinality(S)
           Rank(r) == Cardinality({x \in S : x > r})
           list == NewestFirst(S)
<1>1. S \in SUBSET Nat /\ IsFiniteSet(S)
  <2>1. IsFiniteSet(1..MaxRun) /\ Runs \subseteq Nat
    BY RunsBounds, FS_Interval DEF Runs
  <2> QED
    BY <2>1, FS_Subset DEF Runs
<1>2. /\ n \in Nat
      /\ \A r \in S : Rank(r) \in 0..(n - 1)
      /\ \A k \in 0..(n - 1) : \E r \in S : Rank(r) = k
  BY <1>1, EveryRank
<1>3. \A r, t \in S : r < t => Rank(t) < Rank(r)
  BY <1>1, NewerAreFewer
<1>4. list = [i \in 1..n |-> CHOOSE r \in S : Rank(r) = i - 1]
  BY DEF NewestFirst
<1> HIDE DEF n, Rank, list
<1>5. ASSUME NEW i \in 1..n PROVE list[i] \in S /\ Rank(list[i]) = i - 1
  <2>1. i - 1 \in 0..(n - 1)
    BY <1>2
  <2>2. \E r \in S : Rank(r) = i - 1
    BY <1>2, <2>1
  <2> QED
    BY <1>4, <2>2
<1>6. DOMAIN list = 1..n /\ list \in Seq(S)
  <2>1. list \in [1..n -> S]
    BY <1>4, <1>5
  <2> QED
    BY <1>2, <2>1
<1>7. ASSUME NEW i \in DOMAIN list, NEW j \in DOMAIN list, i < j PROVE list[i] > list[j]
  <2>1. /\ list[i] \in Nat /\ list[j] \in Nat /\ list[i] \in S /\ list[j] \in S
        /\ Rank(list[i]) = i - 1 /\ Rank(list[j]) = j - 1 /\ i \in Int /\ j \in Int
    <3>1. i \in 1..n /\ j \in 1..n
      BY <1>6
    <3>2. list[i] \in S /\ list[j] \in S /\ Rank(list[i]) = i - 1 /\ Rank(list[j]) = j - 1
      BY <1>5, <3>1
    <3>3. list[i] \in Nat /\ list[j] \in Nat /\ i \in Int /\ j \in Int
      <4>1. \A k \in 1..n : k \in Int
        BY <1>2
      <4>2. \A r \in S : r \in Nat
        BY <1>1
      <4> QED
        BY <3>1, <3>2, <4>1, <4>2
    <3> QED
      BY <3>2, <3>3
  <2>2. list[i] # list[j]
    BY <1>7, <2>1
  <2>3. ~(list[i] < list[j])
    BY <1>3, <1>7, <2>1
  <2> QED
    BY <2>1, <2>2, <2>3
<1>8. ASSUME NEW r \in S PROVE \E i \in DOMAIN list : list[i] = r
  <2>1. Rank(r) + 1 \in 1..n /\ Rank(r) \in Int
    BY <1>2
  <2>2. list[Rank(r) + 1] \in S /\ Rank(list[Rank(r) + 1]) = Rank(r)
    BY <1>5, <2>1
  <2>3. r \in Nat /\ list[Rank(r) + 1] \in Nat
    BY <1>1, <2>2
  <2>4. list[Rank(r) + 1] = r
    BY <1>3, <2>1, <2>2, <2>3
  <2> QED
    BY <1>6, <2>1, <2>4
<1> QED
  BY <1>6, <1>7, <1>8 DEF Descending, list

-----------------------------------------------------------------------------
(* Stretches of what the server lists.  A page is loaded behind a stretch    *)
(* that ends with the run it was asked to start after.                       *)

Stretch(D, M, s) ==
  /\ Descending(s) /\ Range(s) \subseteq M
  /\ \A r \in D \cap M : s # << >> /\ Last(s) < r /\ r < Head(s) => r \in Range(s)

(* The page of a set of runs: newest first, and full unless it has them all. *)
LEMMA PageOfSet ==
  ASSUME NEW S \in SUBSET Runs
  PROVE  LET page == Take(NewestFirst(S), PAGE) IN
         /\ page \in Seq(S) /\ Len(page) <= PAGE /\ Descending(page)
         /\ \A r \in S : r \in Range(page) \/ (Len(page) = PAGE /\ \A i \in DOMAIN page : page[i] > r)
<1> DEFINE list == NewestFirst(S)
           m == IF Len(list) < PAGE THEN Len(list) ELSE PAGE
           page == Take(list, PAGE)
<1>1. /\ list \in Seq(S) /\ Descending(list)
      /\ \A r \in S : \E i \in DOMAIN list : list[i] = r
  BY ListedNewestFirst
<1>0. PAGE \in Nat /\ PAGE > 0
  BY RunsBounds
<1> HIDE DEF list
<1>2. DOMAIN list = 1..Len(list) /\ Len(list) \in Nat /\ \A i \in DOMAIN list : list[i] \in S
  BY <1>1, LenProperties
<1>3. m \in 0..Len(list) /\ m <= PAGE /\ m \in Nat
  BY <1>0, <1>2
<1>4. page = SubSeq(list, 1, m)
  BY DEF Take
<1> HIDE DEF m, page
<1>5. page \in Seq(S) /\ Len(page) = m /\ DOMAIN page = 1..m /\ \A i \in 1..m : page[i] = list[i]
  <2>1. page = [i \in 1..m |-> list[i]]
    BY <1>2, <1>3, <1>4
  <2>2. page \in [1..m -> S]
    BY <1>2, <1>3, <2>1
  <2> QED
    BY <1>3, <2>1, <2>2, LenProperties
<1>6. Descending(page)
  BY <1>1, <1>2, <1>3, <1>5 DEF Descending
<1>7. ASSUME NEW r \in S, r \notin Range(page)
      PROVE  Len(page) = PAGE /\ \A i \in DOMAIN page : page[i] > r
  <2>1. PICK k \in DOMAIN list : list[k] = r
    BY <1>1
  <2>2. k \notin 1..m
    BY <1>5, <1>7, <2>1 DEF Range
  <2>3. k > m /\ m < Len(list)
    BY <1>2, <1>3, <2>2
  <2>4. m = PAGE
    BY <2>3 DEF m
  <2>5. \A i \in 1..m : list[i] > list[k]
    BY <1>1, <1>2, <1>3, <2>1, <2>3 DEF Descending
  <2> QED
    BY <1>5, <2>1, <2>4, <2>5
<1> QED
  BY <1>3, <1>5, <1>6, <1>7 DEF page, list

(* The last and the first run of a list are its oldest and its newest. *)
LEMMA EndsOfList ==
  ASSUME NEW s \in Seq(Runs), s # << >>, Descending(s)
  PROVE  /\ Last(s) \in Range(s) /\ Head(s) \in Range(s) /\ Last(s) \in Runs /\ Head(s) \in Runs
         /\ Last(s) = s[Len(s)] /\ Head(s) = s[1] /\ Len(s) \in DOMAIN s /\ 1 \in DOMAIN s
         /\ \A t \in Range(s) : t \in Runs /\ Last(s) <= t /\ t <= Head(s)
<1>1. DOMAIN s = 1..Len(s) /\ Len(s) \in Nat /\ Len(s) > 0 /\ \A i \in DOMAIN s : s[i] \in Runs
  BY LenProperties, EmptySeq
<1>2. Last(s) = s[Len(s)] /\ Head(s) = s[1] /\ Len(s) \in DOMAIN s /\ 1 \in DOMAIN s
  BY <1>1, HeadTailProperties DEF Last
<1>3. Runs \subseteq Nat
  BY DEF Runs
<1>4. ASSUME NEW i \in DOMAIN s PROVE s[Len(s)] <= s[i] /\ s[i] <= s[1]
  <2>1. s[i] \in Nat /\ s[1] \in Nat /\ s[Len(s)] \in Nat
    BY <1>1, <1>2, <1>3
  <2>2. i < Len(s) => s[i] > s[Len(s)]
    BY <1>2 DEF Descending
  <2>3. 1 < i => s[1] > s[i]
    BY <1>2 DEF Descending
  <2> QED
    BY <1>1, <2>1, <2>2, <2>3
<1> QED
  BY <1>1, <1>2, <1>4 DEF Range

(* The places of two lists one behind the other. *)
LEMMA PlacesOfTwo ==
  ASSUME NEW s \in Seq(Runs), NEW t \in Seq(Runs)
  PROVE  /\ s \o t \in Seq(Runs) /\ Len(s \o t) = Len(s) + Len(t)
         /\ Len(s) \in Nat /\ Len(t) \in Nat
         /\ DOMAIN s = 1..Len(s) /\ DOMAIN t = 1..Len(t) /\ DOMAIN (s \o t) = 1..(Len(s) + Len(t))
         /\ \A i \in DOMAIN s : (s \o t)[i] = s[i] /\ i \in DOMAIN (s \o t)
         /\ \A i \in DOMAIN t : (s \o t)[Len(s) + i] = t[i] /\ Len(s) + i \in DOMAIN (s \o t)
         /\ \A i \in DOMAIN (s \o t) : i \notin DOMAIN s => i - Len(s) \in DOMAIN t /\ (s \o t)[i] = t[i - Len(s)]
         /\ Range(s \o t) = Range(s) \cup Range(t)
<1>1. s \o t \in Seq(Runs) /\ Len(s \o t) = Len(s) + Len(t) /\ Len(s) \in Nat /\ Len(t) \in Nat
  BY ConcatProperties, LenProperties
<1>2. DOMAIN s = 1..Len(s) /\ DOMAIN t = 1..Len(t) /\ DOMAIN (s \o t) = 1..(Len(s) + Len(t))
  BY <1>1, LenProperties
<1>3. \A k \in 1..(Len(s) + Len(t)) : (s \o t)[k] = IF k <= Len(s) THEN s[k] ELSE t[k - Len(s)]
  BY <1>1, ConcatProperties
<1> DEFINE w == s \o t
<1>4. \A i \in DOMAIN s : w[i] = s[i] /\ i \in DOMAIN w
  BY <1>1, <1>2, <1>3
<1>5. \A i \in DOMAIN t : w[Len(s) + i] = t[i] /\ Len(s) + i \in DOMAIN w
  BY <1>1, <1>2, <1>3
<1>6. \A i \in DOMAIN w : i \notin DOMAIN s => i - Len(s) \in DOMAIN t /\ w[i] = t[i - Len(s)]
  BY <1>1, <1>2, <1>3
<1> HIDE DEF w
<1>7. Range(w) = Range(s) \cup Range(t)
  <2>1. ASSUME NEW x \in Range(s) PROVE x \in Range(w)
    BY <1>4 DEF Range
  <2>2. ASSUME NEW x \in Range(t) PROVE x \in Range(w)
    BY <1>5 DEF Range
  <2>3. ASSUME NEW x \in Range(w) PROVE x \in Range(s) \cup Range(t)
    BY <1>4, <1>6 DEF Range
  <2> QED
    BY <2>1, <2>2, <2>3
<1> QED
  BY <1>1, <1>2, <1>4, <1>5, <1>6, <1>7 DEF w

(* What has been received of a stretch is a stretch. *)
LEMMA BeginningOfStretch ==
  ASSUME NEW D \in SUBSET Runs, NEW M, NEW s \in Seq(Runs), NEW t \in Seq(Runs), Stretch(D, M, s \o t)
  PROVE  Stretch(D, M, s)
<1> DEFINE w == s \o t
<1>1. /\ w \in Seq(Runs) /\ Range(w) = Range(s) \cup Range(t)
      /\ \A i \in DOMAIN s : w[i] = s[i] /\ i \in DOMAIN w
      /\ \A i \in DOMAIN w : i \notin DOMAIN s => i - Len(s) \in DOMAIN t /\ w[i] = t[i - Len(s)]
      /\ DOMAIN s = 1..Len(s) /\ Len(s) \in Nat /\ DOMAIN w = 1..(Len(s) + Len(t)) /\ Len(t) \in Nat
  BY PlacesOfTwo
<1>2. Stretch(D, M, w)
  OBVIOUS
<1> HIDE DEF w
<1>3. Descending(s)
  BY <1>1, <1>2 DEF Stretch, Descending
<1>4. Range(s) \subseteq M
  BY <1>1, <1>2 DEF Stretch
<1>5. ASSUME NEW r \in D \cap M, s # << >>, Last(s) < r, r < Head(s) PROVE r \in Range(s)
  <2>1. /\ Last(s) = s[Len(s)] /\ Head(s) = s[1] /\ Len(s) \in DOMAIN s /\ 1 \in DOMAIN s
        /\ Last(s) \in Runs
    BY <1>3, <1>5, EndsOfList
  <2>2. w # << >>
    BY <1>1, <2>1
  <2>3. /\ Last(w) \in Runs /\ Head(w) = w[1] /\ \A x \in Range(w) : x \in Runs /\ Last(w) <= x
    BY <1>1, <1>2, <2>2, EndsOfList DEF Stretch
  <2>4. Head(w) = Head(s) /\ Last(w) <= Last(s)
    <3>1. Last(s) \in Range(w)
      BY <1>1, <2>1 DEF Range
    <3> QED
      BY <1>1, <2>1, <2>3, <3>1
  <2>5. Last(w) < r
    <3>1. Last(w) \in Int /\ Last(s) \in Int
      BY <2>1, <2>3 DEF Runs
    <3>2. r \in Int
      BY DEF Runs
    <3> QED
      BY <1>5, <2>4, <3>1, <3>2
  <2>6. r \in Range(w)
    BY <1>2, <1>5, <2>2, <2>4, <2>5 DEF Stretch
  <2>7. PICK k \in DOMAIN w : w[k] = r
    BY <2>6 DEF Range
  <2>8. k \in DOMAIN s
    <3>1. ASSUME k \notin DOMAIN s PROVE FALSE
      <4>1. Len(s) < k /\ Len(s) \in DOMAIN w
        BY <1>1, <2>1, <3>1
      <4>2. w[Len(s)] > w[k]
        BY <1>2, <4>1 DEF Stretch, Descending
      <4>3. Last(s) > r /\ Last(s) \in Int /\ r \in Int
        BY <1>1, <2>1, <2>7, <4>2 DEF Runs
      <4> QED
        BY <1>5, <4>3
    <3> QED
      BY <3>1
  <2> QED
    BY <1>1, <2>7, <2>8 DEF Range
<1> QED
  BY <1>3, <1>4, <1>5 DEF Stretch

(* A page loaded behind a stretch lengthens it; a page that is not full ends *)
(* it with the oldest run there is.                                          *)
LEMMA PageBehindStretch ==
  ASSUME NEW D \in SUBSET Runs, NEW M, NEW s \in Seq(Runs), Stretch(D, M, s),
         NEW S \in SUBSET Runs,
         S = {r \in D \cap M : s = << >> \/ r < Last(s)}
  PROVE  LET page == Take(NewestFirst(S), PAGE) IN
         /\ page \in Seq(Runs) /\ Len(page) <= PAGE
         /\ Stretch(D, M, s \o page)
         /\ s # << >> /\ Len(page) < PAGE =>
              s \o page # << >> /\ \A r \in D \cap M : Last(s \o page) <= r
<1> DEFINE page == Take(NewestFirst(S), PAGE)
           w == s \o page
<1>1. /\ page \in Seq(S) /\ Len(page) <= PAGE /\ Descending(page)
      /\ \A r \in S : r \in Range(page) \/ (Len(page) = PAGE /\ \A i \in DOMAIN page : page[i] > r)
  BY PageOfSet
<1> HIDE DEF page
<1>2. page \in Seq(Runs) /\ Range(page) \subseteq S
  <2>1. DOMAIN page = 1..Len(page) /\ Len(page) \in Nat /\ \A i \in DOMAIN page : page[i] \in S
    BY <1>1, LenProperties
  <2>2. page \in [1..Len(page) -> Runs]
    BY <1>1, <2>1
  <2> QED
    BY <2>1, <2>2 DEF Range
<1>3. /\ w \in Seq(Runs) /\ Len(s) \in Nat /\ Len(page) \in Nat
      /\ DOMAIN s = 1..Len(s) /\ DOMAIN page = 1..Len(page) /\ DOMAIN w = 1..(Len(s) + Len(page))
      /\ \A i \in DOMAIN s : w[i] = s[i] /\ i \in DOMAIN w
      /\ \A i \in DOMAIN page : w[Len(s) + i] = page[i] /\ Len(s) + i \in DOMAIN w
      /\ \A i \in DOMAIN w : i \notin DOMAIN s => i - Len(s) \in DOMAIN page /\ w[i] = page[i - Len(s)]
      /\ Range(w) = Range(s) \cup Range(page)
  BY <1>2, PlacesOfTwo
<1> HIDE DEF w
<1>4. \A r \in Range(page) : r \in D \cap M /\ (s # << >> => r < Last(s))
  BY <1>2
<1>5. Descending(s) /\ Range(s) \subseteq M
  BY DEF Stretch
<1>6. ASSUME s # << >> PROVE /\ Last(s) \in Runs /\ \A t \in Range(s) : t \in Runs /\ Last(s) <= t
                            /\ Last(s) \in Range(s) /\ Head(s) = s[1] /\ 1 \in DOMAIN s
  BY <1>5, <1>6, EndsOfList
<1>7. Range(page) \subseteq Nat /\ Range(s) \subseteq Nat
  <2>1. Range(s) \subseteq Runs
    BY <1>3 DEF Range
  <2> QED
    BY <1>2, <2>1 DEF Runs
<1>8. Descending(w)
  <2> SUFFICES ASSUME NEW i \in DOMAIN w, NEW j \in DOMAIN w, i < j PROVE w[i] > w[j]
    BY DEF Descending
  <2>1. CASE j \in DOMAIN s
    <3>1. i \in DOMAIN s
      BY <1>3, <2>1
    <3> QED
      BY <1>3, <1>5, <2>1, <3>1 DEF Descending
  <2>2. CASE i \notin DOMAIN s
    <3>1. j \notin DOMAIN s
      BY <1>3, <2>2
    <3>2. i - Len(s) < j - Len(s) /\ i - Len(s) \in DOMAIN page /\ j - Len(s) \in DOMAIN page
      BY <1>3, <2>2, <3>1
    <3>3. page[i - Len(s)] > page[j - Len(s)]
      BY <1>1, <3>2 DEF Descending
    <3> QED
      BY <1>3, <2>2, <3>1, <3>3
  <2>3. CASE i \in DOMAIN s /\ j \notin DOMAIN s
    <3>1. w[i] \in Range(s) /\ w[j] \in Range(page) /\ s # << >>
      BY <1>3, <2>3 DEF Range
    <3>2. w[j] < Last(s) /\ Last(s) <= w[i] /\ Last(s) \in Nat /\ w[i] \in Nat /\ w[j] \in Nat
      BY <1>4, <1>6, <1>7, <3>1 DEF Runs
    <3> QED
      BY <3>2
  <2> QED
    BY <2>1, <2>2, <2>3
<1>9. Range(w) \subseteq M
  BY <1>3, <1>4, <1>5
<1>10. ASSUME w # << >>
       PROVE  /\ Last(w) \in Nat /\ Head(w) \in Nat /\ Head(w) = w[1]
              /\ \A t \in Range(w) : t \in Nat /\ Last(w) <= t /\ t <= Head(w)
  BY <1>3, <1>8, <1>10, EndsOfList DEF Runs
<1>11. ASSUME NEW r \in S, r \notin Range(page), page # << >> PROVE w # << >> /\ Last(w) > r
  <2>1. Len(page) \in DOMAIN page /\ page[Len(page)] > r
    BY <1>1, <1>3, <1>11, EmptySeq
  <2>2. w # << >> /\ Len(w) \in DOMAIN w /\ Last(w) = w[Len(w)]
    <3>1. w # << >>
      BY <1>3, <2>1
    <3> QED
      BY <1>3, <1>8, <3>1, EndsOfList
  <2>3. Len(w) = Len(s) + Len(page)
    BY <1>3, LenProperties
  <2> QED
    BY <1>3, <2>1, <2>2, <2>3
<1>12. ASSUME NEW r \in D \cap M, w # << >>, Last(w) < r, r < Head(w) PROVE r \in Range(w)
  <2>0. r \in Nat /\ Last(w) \in Nat /\ Head(w) \in Nat
    BY <1>10, <1>12 DEF Runs
  <2>1. CASE r \in S
    <3>1. CASE page = << >>
      <4>1. Len(page) = 0 /\ PAGE > 0 /\ PAGE \in Nat
        BY <3>1, RunsBounds
      <4> QED
        BY <1>1, <1>3, <2>1, <4>1
    <3>2. CASE page # << >>
      <4>1. r \notin Range(page) => Last(w) > r
        BY <1>11, <2>1, <3>2
      <4> QED
        BY <1>3, <1>12, <2>0, <4>1
    <3> QED
      BY <3>1, <3>2
  <2>2. CASE r \notin S
    <3>1. s # << >> /\ ~(r < Last(s))
      BY <1>12, <2>2
    <3>2. Last(s) \in Nat /\ Head(s) = s[1] /\ 1 \in DOMAIN s /\ Last(s) \in Range(s)
      BY <1>6, <3>1 DEF Runs
    <3>3. Head(w) = Head(s)
      BY <1>3, <1>10, <1>12, <3>2
    <3>4. CASE r = Last(s)
      BY <1>3, <3>2, <3>4
    <3>5. CASE Last(s) < r
      BY <1>3, <1>12, <3>1, <3>3, <3>5 DEF Stretch
    <3> QED
      BY <2>0, <3>1, <3>2, <3>4, <3>5
  <2> QED
    BY <2>1, <2>2
<1>13. ASSUME s # << >>, Len(page) < PAGE PROVE w # << >> /\ \A r \in D \cap M : Last(w) <= r
  <2>1. w # << >> /\ Last(s) \in Range(w)
    <3>1. 1 \in DOMAIN w /\ Last(s) \in Range(w)
      BY <1>3, <1>6, <1>13
    <3> QED
      BY <3>1
  <2>2. ASSUME NEW r \in D \cap M PROVE Last(w) <= r
    <3>0. r \in Nat /\ Last(w) \in Nat /\ Last(s) \in Nat /\ Last(w) <= Last(s)
      BY <1>6, <1>10, <1>13, <2>1 DEF Runs
    <3>1. CASE r \in S
      <4>1. Len(page) # PAGE
        <5>1. PAGE \in Nat /\ Len(page) \in Nat
          BY <1>3, RunsBounds
        <5> QED
          BY <1>13, <5>1
      <4>2. r \in Range(page)
        BY <1>1, <3>1, <4>1
      <4> QED
        BY <1>3, <1>10, <2>1, <4>2
    <3>2. CASE r \notin S
      <4>1. Last(s) <= r
        BY <1>13, <3>0, <3>2
      <4> QED
        BY <3>0, <4>1
    <3> QED
      BY <3>1, <3>2
  <2> QED
    BY <2>1, <2>2
<1>14. Stretch(D, M, w)
  BY <1>8, <1>9, <1>12 DEF Stretch
<1> QED
  BY <1>1, <1>2, <1>13, <1>14 DEF page, w

(* A stretch stays one when a run newer than all of it is created, or runs   *)
(* are deleted.                                                              *)
LEMMA StretchAsRunsChange ==
  ASSUME NEW D \in SUBSET Runs, NEW E \in SUBSET Runs, NEW M, NEW s \in Seq(Runs), Stretch(D, M, s),
         \A r \in E : r \in D \/ \A t \in Range(s) : t < r
  PROVE  Stretch(E, M, s)
<1>1. Descending(s) /\ Range(s) \subseteq M
  BY DEF Stretch
<1>2. ASSUME NEW r \in E \cap M, s # << >>, Last(s) < r, r < Head(s) PROVE r \in Range(s)
  <2>1. Head(s) \in Range(s) /\ Head(s) \in Runs
    BY <1>1, <1>2, EndsOfList
  <2>2. ~(Head(s) < r)
    BY <1>2, <2>1 DEF Runs
  <2>3. r \in D
    BY <2>1, <2>2
  <2> QED
    BY <1>2, <2>3 DEF Stretch
<1> QED
  BY <1>1, <1>2 DEF Stretch

-----------------------------------------------------------------------------
(* The invariant.  What is loaded is a stretch; so is what a request has     *)
(* received together with what it will still receive.                        *)

Known(s) == \A i \in DOMAIN s : s[i] <= newest
Waiting == request # NoRequest
Found == Matches(request.q)
Whole == request.got \o request.rest

(* No run the page knows is newer than the newest one created. *)
RunsKnown ==
  /\ newest <= MaxRun /\ \A r \in db : r <= newest
  /\ Known(rawData)
  /\ Waiting => Known(Whole)

(* The rows of a request and of the page are runs of the query. *)
RowsMatch ==
  /\ Range(rawData) \subseteq Matches(query)
  /\ Waiting => request.q = query /\ Range(Whole) \subseteq Found

(* A version of the configuration that is in use is in localStorage. *)
Saved == config <= stored /\ (Waiting => request.config <= stored)

(* Where a request stands. *)
RequestSound ==
  /\ isLatest => ~Waiting
  /\ failed => ~Waiting
  /\ status = "Pending" => ~infinite
  /\ Waiting =>
       /\ request.shared => request.got = rawData
       /\ request.phase = "fetching" => request.rest = << >> /\ request.count = 0
       /\ request.initial /\ request.phase = "fetching" => request.got = << >> /\ request.after = 0
       /\ ~request.initial => Whole # << >>
       /\ ~request.initial /\ request.phase = "fetching" => request.after = Last(request.got)

(* The rows are stretches, and a short page was the last one. *)
StretchesLoaded ==
  ~skipped =>
    /\ Stretch(db, Matches(query), rawData)
    /\ Waiting =>
         /\ Stretch(db, Found, Whole)
         /\ request.phase = "streaming" /\ ~request.initial /\ request.count + Len(request.rest) < PAGE =>
              \A r \in db \cap Found : Last(Whole) <= r

RunsInv == RTTypeOK /\ RunsKnown /\ RowsMatch /\ Saved /\ RequestSound /\ StretchesLoaded /\ LatestMeansLast

-----------------------------------------------------------------------------
(* The sorts of steps, by what they do to the rows and the request. *)

RepoStep == OthersCreateRun \/ OthersDeleteRun

FreshRequest(q, reset, version) ==
  [q |-> q, initial |-> TRUE, reset |-> reset, config |-> version, shared |-> FALSE,
   after |-> 0, got |-> << >>, rest |-> << >>, count |-> 0, phase |-> "fetching"]

(* A request from the first page on. *)
StartsOver ==
  /\ \E q \in UserQueries, version \in 0..MaxEdits, reset \in BOOLEAN :
       /\ request' = FreshRequest(q, reset, version)
       /\ query' = q
       /\ version \in {config, stored}
  /\ rawData' = << >> /\ tableData' = << >> /\ isLatest' = FALSE /\ infinite' = FALSE /\ status' = "Pending" /\ failed' = FALSE
  /\ config' \in {config, stored} /\ stored' = stored
  /\ UNCHANGED <<dbVars, skipped>>

(* No row comes or goes. *)
Quiet ==
  /\ request' = request \/ request' = NoRequest
       \/ (request # NoRequest /\ request' = [request EXCEPT !.shared = FALSE])
  /\ isLatest' = isLatest \/ isLatest' = FALSE
  /\ UNCHANGED <<dbVars, rawData, query, skipped>>

(* A search from the first page on, by the user, after a removal or at the *)
(* opening of the page.                                                      *)
LEMMA OverStarts ==
  ASSUME RTTypeOK, Search \/ RunsRemoved \/ Reinitialize
  PROVE  StartsOver
<1> USE DEF pageVars, requestVars, ghosts, dbVars
<1>1. ASSUME NEW q \in UserQueries, GetRunsData(TRUE, TRUE, q, 0), UNCHANGED dbVars PROVE StartsOver
  <2>1. request' = FreshRequest(q, TRUE, config)
    <3>1. request' = [q |-> q, initial |-> TRUE, reset |-> TRUE, config |-> config, shared |-> ~TRUE, after |-> 0,
                      got |-> IF TRUE THEN << >> ELSE rawData, rest |-> << >>, count |-> 0, phase |-> "fetching"]
      BY <1>1 DEF GetRunsData
    <3>2. (~TRUE) = FALSE /\ (IF TRUE THEN << >> ELSE rawData) = << >>
      OBVIOUS
    <3> QED
      BY <3>1, <3>2 DEF FreshRequest
  <2>2. config \in 0..MaxEdits /\ TRUE \in BOOLEAN
    BY DEF RTTypeOK
  <2> QED
    BY <1>1, <2>1, <2>2 DEF GetRunsData, StartsOver
<1>2. ASSUME Search \/ RunsRemoved PROVE StartsOver
  BY <1>1, <1>2 DEF Search, RunsRemoved, RTTypeOK
<1>3. ASSUME Reinitialize PROVE StartsOver
  <2>1. request' = FreshRequest(query, FALSE, stored)
    BY <1>3 DEF Reinitialize, FirstRequest, FreshRequest
  <2>2. query \in UserQueries /\ stored \in 0..MaxEdits /\ FALSE \in BOOLEAN
    BY DEF RTTypeOK
  <2> QED
    BY <1>3, <2>1, <2>2 DEF Reinitialize, StartsOver
<1> QED
  BY <1>2, <1>3

(* Every step is of one of these sorts. *)
LEMMA SortsOfSteps ==
  ASSUME RTTypeOK, [RTNext]_rtVars
  PROVE  \/ RepoStep \/ StartsOver \/ GetLastRunsData
         \/ ResponseBegins \/ RowArrives \/ RequestCompletes \/ Quiet
<1> USE DEF pageVars, requestVars, ghosts, dbVars
<1>4. ASSUME AbortRequest \/ ReaderFails \/ StreamBreaks \/ RequestFails PROVE Quiet
  BY <1>4 DEF AbortRequest, ReaderFails, StreamBreaks, RequestFails, Quiet
<1>5. ASSUME UpdateTable \/ EditTableConfig \/ SelectRows \/ SwitchLiveUpdate PROVE Quiet
  BY <1>5 DEF UpdateTable, EditTableConfig, UpdateModelData, SelectRows, SwitchLiveUpdate, Quiet
<1>6. ASSUME ChangeTags PROVE Quiet
  BY <1>6 DEF ChangeTags, UpdateModelData, Quiet
<1>7. ASSUME LiveUpdateArrives PROVE Quiet
  BY <1>7 DEF LiveUpdateArrives, Quiet
<1>8. ASSUME UNCHANGED rtVars PROVE Quiet
  BY <1>8 DEF rtVars, Quiet
<1> QED
  BY OverStarts, <1>4, <1>5, <1>6, <1>7, <1>8 DEF RTNext, RepoStep

-----------------------------------------------------------------------------
(* Every variable keeps its type. *)

(* The bounds are natural numbers, and runs are positive. *)
LEMMA Bounds ==
  /\ MaxRun \in Nat /\ PAGE \in Nat /\ PAGE > 0 /\ MaxEdits \in Nat
  /\ \A r \in Runs : r \in Nat /\ r > 0 /\ r <= MaxRun
  /\ \A q \in UserQueries : Matches(q) \subseteq Runs
<1>1. MaxRun \in Nat /\ PAGE \in Nat /\ PAGE > 0 /\ MaxEdits \in Nat
  BY RunsBounds
<1>2. \A r \in Runs : r \in Nat /\ r > 0 /\ r <= MaxRun
  BY <1>1 DEF Runs
<1> QED
  BY <1>1, <1>2, RunsMatch DEF Runs

(* The fields of a request have their types. *)
LEMMA RequestFields ==
  ASSUME RTTypeOK, Waiting
  PROVE  /\ request \in Requests
         /\ request.q \in UserQueries /\ request.config \in 0..MaxEdits /\ request.after \in 0..MaxRun
         /\ request.got \in Seq(Runs) /\ request.rest \in Seq(Runs) /\ request.count \in Nat
         /\ request.phase \in {"fetching", "streaming"}
         /\ request.initial \in BOOLEAN /\ request.shared \in BOOLEAN /\ request.reset \in BOOLEAN
<1>1. request \in Requests
  BY DEF RTTypeOK, Waiting
<1>2. request.q \in UserQueries /\ request.config \in 0..MaxEdits /\ request.after \in 0..MaxRun
  BY <1>1 DEF Requests
<1>3. request.got \in Seq(Runs) /\ request.rest \in Seq(Runs) /\ request.count \in Nat
  BY <1>1 DEF Requests
<1>4. request.phase \in {"fetching", "streaming"}
  BY <1>1 DEF Requests
<1>5. request.initial \in BOOLEAN /\ request.shared \in BOOLEAN /\ request.reset \in BOOLEAN
  BY <1>1 DEF Requests
<1> QED
  BY <1>1, <1>2, <1>3, <1>4, <1>5

(* A phase tells whether there is a request. *)
LEMMA PhaseTells ==
  ASSUME RTTypeOK
  PROVE  Waiting <=> request.phase \in {"fetching", "streaming"}
<1>1. ASSUME request = NoRequest PROVE request.phase = "none"
  BY <1>1 DEF NoRequest
<1> QED
  BY <1>1, RequestFields DEF Waiting

(* What the server answers is a list of runs of the query. *)
LEMMA PageTyped ==
  ASSUME RTTypeOK, NEW q \in UserQueries, NEW after \in 0..MaxRun
  PROVE  /\ ServerPage(q, after) \in Seq(Runs)
         /\ Range(ServerPage(q, after)) \subseteq db \cap Matches(q)
<1> DEFINE S == {r \in db \cap Matches(q) : after \in db => r < after}
<1>1. S \in SUBSET Runs /\ db \subseteq Runs
  BY DEF RTTypeOK
<1>2. ServerPage(q, after) = Take(NewestFirst(S), PAGE)
  BY DEF ServerPage
<1> DEFINE page == Take(NewestFirst(S), PAGE)
<1>3. page \in Seq(S)
  BY <1>1, PageOfSet
<1>4. S \subseteq db \cap Matches(q)
  OBVIOUS
<1> HIDE DEF S, page
<1>5. DOMAIN page = 1..Len(page) /\ Len(page) \in Nat /\ \A i \in DOMAIN page : page[i] \in S
  BY <1>3, LenProperties
<1>6. page \in [1..Len(page) -> Runs]
  BY <1>1, <1>3, <1>5
<1> QED
  BY <1>2, <1>4, <1>5, <1>6 DEF Range, page

(* The rows a live update brings. *)
LEMMA LiveRows ==
  ASSUME RTTypeOK, NEW q \in UserQueries, NEW n \in Nat
  PROVE  /\ Take(NewestFirst(db \cap Matches(q)), n) \in Seq(Runs)
         /\ Range(Take(NewestFirst(db \cap Matches(q)), n)) \subseteq db \cap Matches(q)
<1> DEFINE S == db \cap Matches(q)
           list == NewestFirst(S)
           m == IF Len(list) < n THEN Len(list) ELSE n
           rows == Take(list, n)
<1>1. S \in SUBSET Runs
  BY DEF RTTypeOK
<1>2. list \in Seq(S)
  BY <1>1, ListedNewestFirst
<1> HIDE DEF list, S
<1>3. DOMAIN list = 1..Len(list) /\ Len(list) \in Nat /\ \A i \in DOMAIN list : list[i] \in S
  BY <1>2, LenProperties
<1>4. m \in 0..Len(list) /\ rows = SubSeq(list, 1, m)
  BY <1>3 DEF Take
<1> HIDE DEF m, rows
<1>5. rows = [i \in 1..m |-> list[i]] /\ m \in Nat
  BY <1>3, <1>4
<1>6. DOMAIN rows = 1..m /\ \A i \in DOMAIN rows : rows[i] \in S
  <2>1. \A i \in 1..m : i \in DOMAIN list
    BY <1>3, <1>4
  <2> QED
    BY <1>3, <1>5, <2>1
<1>7. rows \in [1..m -> Runs]
  BY <1>1, <1>5, <1>6
<1>8. rows \in Seq(Runs)
  BY <1>5, <1>7
<1>9. Range(rows) \subseteq S
  BY <1>6 DEF Range
<1> QED
  BY <1>8, <1>9 DEF rows, list, S

(* A request at its start. *)
LEMMA FreshTyped ==
  ASSUME NEW q \in UserQueries, NEW version \in 0..MaxEdits, NEW reset \in BOOLEAN
  PROVE  FreshRequest(q, reset, version) \in Requests
<1>1. TRUE \in BOOLEAN /\ FALSE \in BOOLEAN /\ << >> \in Seq(Runs) /\ 0 \in 0..MaxRun /\ 0 \in Nat
      /\ "fetching" \in {"fetching", "streaming"}
  BY Bounds
<1> QED
  BY <1>1, Zenon DEF FreshRequest, Requests

(* The request and the rows keep their types. *)
LEMMA RequestTyped ==
  ASSUME RTTypeOK, [RTNext]_rtVars
  PROVE  request' \in Requests \cup {NoRequest} /\ rawData' \in Seq(Runs)
<1> USE DEF pageVars, requestVars, ghosts, dbVars
<1>0. rawData \in Seq(Runs) /\ request \in Requests \cup {NoRequest}
  BY DEF RTTypeOK
<1>1. CASE RepoStep
  BY <1>0, <1>1 DEF RepoStep, OthersCreateRun, OthersDeleteRun
<1>2. CASE StartsOver
  BY <1>2, FreshTyped DEF StartsOver
<1>3. CASE GetLastRunsData
  <2>1. /\ rawData # << >> /\ rawData' = rawData
        /\ request' = [q |-> query, initial |-> FALSE, reset |-> FALSE, config |-> config, shared |-> ~FALSE,
                       after |-> Last(rawData), got |-> IF FALSE THEN << >> ELSE rawData, rest |-> << >>,
                       count |-> 0, phase |-> "fetching"]
    BY <1>3 DEF GetLastRunsData, GetRunsData
  <2>2. Last(rawData) \in 0..MaxRun
    <3>1. Last(rawData) \in Runs
      BY <1>0, <2>1, LenProperties, EmptySeq DEF Last
    <3> QED
      BY <3>1, Bounds
  <2>3. (~FALSE) = TRUE /\ (IF FALSE THEN << >> ELSE rawData) = rawData
    OBVIOUS
  <2>4. query \in UserQueries /\ config \in 0..MaxEdits /\ FALSE \in BOOLEAN /\ TRUE \in BOOLEAN
        /\ << >> \in Seq(Runs) /\ 0 \in Nat /\ "fetching" \in {"fetching", "streaming"}
    BY DEF RTTypeOK
  <2>5. request' = [q |-> query, initial |-> FALSE, reset |-> FALSE, config |-> config, shared |-> TRUE,
                    after |-> Last(rawData), got |-> rawData, rest |-> << >>, count |-> 0, phase |-> "fetching"]
    BY <2>1, <2>3
  <2>6. request' \in Requests
    BY <1>0, <2>2, <2>4, <2>5, Zenon DEF Requests
  <2> QED
    BY <1>0, <2>1, <2>6
<1>4. CASE ResponseBegins
  <2>1. /\ Waiting /\ rawData' = rawData
        /\ request' = [request EXCEPT !.phase = "streaming", !.after = 0,
                                      !.rest = ServerPage(request.q, request.after)]
    BY <1>4, PhaseTells DEF ResponseBegins
  <2>2. PICK page \in Seq(Runs) : page = ServerPage(request.q, request.after)
    BY <2>1, RequestFields, PageTyped
  <2>3. request' = [request EXCEPT !.phase = "streaming", !.after = 0, !.rest = page]
    BY <2>1, <2>2
  <2>4. request \in Requests /\ 0 \in 0..MaxRun
    BY <2>1, RequestFields, Bounds
  <2>5. request' \in Requests
    BY <2>3, <2>4 DEF Requests
  <2> QED
    BY <1>0, <2>1, <2>5
<1>5. CASE RowArrives
  <2>1. /\ Waiting /\ request.rest # << >>
        /\ request' = [request EXCEPT !.got = Append(request.got, Head(request.rest)),
                                      !.rest = Tail(request.rest), !.count = request.count + 1]
        /\ rawData' = IF request.shared THEN Append(request.got, Head(request.rest)) ELSE rawData
    BY <1>5, PhaseTells DEF RowArrives
  <2>2. PICK got \in Seq(Runs), rest \in Seq(Runs), count \in Nat :
          got = Append(request.got, Head(request.rest)) /\ rest = Tail(request.rest) /\ count = request.count + 1
    <3>1. request.got \in Seq(Runs) /\ request.rest \in Seq(Runs) /\ request.count \in Nat
      BY <2>1, RequestFields
    <3>2. Head(request.rest) \in Runs /\ Tail(request.rest) \in Seq(Runs)
      BY <2>1, <3>1, HeadTailProperties
    <3>3. Append(request.got, Head(request.rest)) \in Seq(Runs) /\ request.count + 1 \in Nat
      BY <3>1, <3>2, AppendProperties
    <3> QED
      BY <3>2, <3>3
  <2>3. request' = [request EXCEPT !.got = got, !.rest = rest, !.count = count]
    BY <2>1, <2>2
  <2>4. request \in Requests
    BY <2>1, RequestFields
  <2>5. request' \in Requests
    BY <2>3, <2>4 DEF Requests
  <2> QED
    BY <1>0, <2>1, <2>2, <2>5
<1>6. CASE RequestCompletes
  BY <1>6, PhaseTells, RequestFields DEF RequestCompletes
<1>7. CASE Quiet
  <2>1. rawData' = rawData
    BY <1>7 DEF Quiet
  <2>2. ASSUME request # NoRequest, request' = [request EXCEPT !.shared = FALSE] PROVE request' \in Requests
    BY <1>0, <2>2 DEF Requests
  <2> QED
    BY <1>0, <1>7, <2>1, <2>2 DEF Quiet
<1> QED
  BY <1>1, <1>2, <1>3, <1>4, <1>5, <1>6, <1>7, SortsOfSteps

(* The rest of the type invariant, action by action. *)
LEMMA TypesKept ==
  ASSUME RTTypeOK, RunsKnown, [RTNext]_rtVars
  PROVE  RTTypeOK'
<1> USE DEF pageVars, requestVars, ghosts, dbVars
<1>1. request' \in Requests \cup {NoRequest} /\ rawData' \in Seq(Runs)
  BY RequestTyped
<1>2. db' \subseteq Runs /\ newest' \in Nat /\ asked' \in Nat
  <2>0. db \subseteq Runs /\ newest \in Nat /\ asked \in Nat
    BY DEF RTTypeOK
  <2>1. CASE OthersCreateRun
    <3>1. newest < MaxRun /\ newest' = newest + 1 /\ db' = db \cup {newest'} /\ asked' = asked
      BY <2>1 DEF OthersCreateRun
    <3>2. newest' \in Runs
      BY <2>0, <3>1, Bounds DEF Runs
    <3> QED
      BY <2>0, <3>1, <3>2
  <2>2. CASE OthersDeleteRun
    BY <2>0, <2>2 DEF OthersDeleteRun
  <2>3. ASSUME ~RepoStep PROVE UNCHANGED dbVars
    BY <2>3, SortsOfSteps DEF StartsOver, GetLastRunsData, ResponseBegins, RowArrives, RequestCompletes, Quiet
  <2>4. ASSUME ~RepoStep PROVE asked' = asked \/ asked' = asked + 1
    BY <2>4 DEF RTNext, RepoStep, Search, GetLastRunsData, GetRunsData, AbortRequest, ResponseBegins, RowArrives,
                RequestCompletes, ReaderFails, StreamBreaks, RequestFails, UpdateTable,
                EditTableConfig, ChangeTags, SelectRows, RunsRemoved, LiveUpdateArrives, SwitchLiveUpdate,
                Reinitialize, rtVars
  <2> QED
    BY <2>0, <2>1, <2>2, <2>3, <2>4 DEF RepoStep
<1>3. query' \in UserQueries /\ config' \in 0..MaxEdits /\ stored' \in 0..MaxEdits
  <2>0. query \in UserQueries /\ config \in 0..MaxEdits /\ stored \in 0..MaxEdits
    BY DEF RTTypeOK
  <2>1. CASE EditTableConfig
    <3>1. /\ query' = query /\ stored' = config' /\ config < MaxEdits /\ stored < MaxEdits
          /\ config' = stored + 1 \/ config' = config + 1
      BY <2>1 DEF EditTableConfig, UpdateModelData
    <3> QED
      BY <2>0, <3>1, Bounds
  <2>2. CASE RequestCompletes
    <3>1. Waiting /\ query' = request.q /\ config' = request.config /\ stored' = stored
      BY <2>2, PhaseTells DEF RequestCompletes
    <3> QED
      BY <2>0, <3>1, RequestFields
  <2>3. CASE Search \/ GetLastRunsData \/ RunsRemoved
    BY <2>0, <2>3 DEF Search, GetLastRunsData, RunsRemoved, GetRunsData
  <2>4. CASE Reinitialize
    BY <2>0, <2>4 DEF Reinitialize
  <2>5. ASSUME ~EditTableConfig, ~RequestCompletes, ~(Search \/ GetLastRunsData \/ RunsRemoved), ~Reinitialize
        PROVE  UNCHANGED <<query, config, stored>>
    BY <2>5 DEF RTNext, OthersCreateRun, OthersDeleteRun, AbortRequest, ResponseBegins, RowArrives,
                ReaderFails, StreamBreaks, RequestFails, UpdateTable,
                ChangeTags, UpdateModelData, SelectRows, LiveUpdateArrives, SwitchLiveUpdate, rtVars
  <2> QED
    BY <2>0, <2>1, <2>2, <2>3, <2>4, <2>5
<1>4. {isLatest, infinite, ticking, live, skipped, failed}' \subseteq BOOLEAN
  <2>0. {isLatest, infinite, ticking, live, skipped, failed} \subseteq BOOLEAN
    BY DEF RTTypeOK
  <2> USE <2>0 DEF RTNext, OthersCreateRun, OthersDeleteRun, Search, GetLastRunsData, GetRunsData, AbortRequest,
              ResponseBegins, RowArrives, RequestCompletes, Exhausted, ReaderFails, StreamBreaks, RequestFails,
              UpdateTable, EditTableConfig, ChangeTags, UpdateModelData, SelectRows, RunsRemoved,
              LiveUpdateArrives, SwitchLiveUpdate, Reinitialize, rtVars
  <2>1. isLatest' \in BOOLEAN
    OBVIOUS
  <2>2. infinite' \in BOOLEAN
    OBVIOUS
  <2>3. ticking' \in BOOLEAN
    OBVIOUS
  <2>4. live' \in BOOLEAN
    OBVIOUS
  <2>5. skipped' \in BOOLEAN
    OBVIOUS
  <2>6. failed' \in BOOLEAN
    OBVIOUS
  <2> QED
    BY <2>1, <2>2, <2>3, <2>4, <2>5, <2>6
<1>5. tableData' \in Seq(Runs)
  <2>0. tableData \in Seq(Runs) /\ rawData \in Seq(Runs) /\ sources \subseteq UserQueries
    BY DEF RTTypeOK
  <2>1. CASE LiveUpdateArrives
    <3>1. \/ tableData' = tableData
          \/ \E q \in sources, n \in {PAGE, 2 * PAGE} : tableData' = Take(NewestFirst(db \cap Matches(q)), n)
      BY <2>1 DEF LiveUpdateArrives, ProcessData
    <3>2. PAGE \in Nat /\ 2 * PAGE \in Nat
      BY Bounds
    <3> QED
      BY <2>0, <3>1, <3>2, LiveRows
  <2>2. CASE RequestCompletes
    BY <2>2, PhaseTells, RequestFields DEF RequestCompletes
  <2>3. CASE EditTableConfig \/ ChangeTags
    BY <2>0, <2>3 DEF EditTableConfig, ChangeTags, UpdateModelData, ProcessData
  <2>4. CASE Search \/ GetLastRunsData \/ RunsRemoved \/ Reinitialize
    <3>1. tableData' = << >> \/ tableData' = tableData
      BY <2>4 DEF Search, GetLastRunsData, RunsRemoved, GetRunsData, Reinitialize
    <3>2. << >> \in Seq(Runs)
      OBVIOUS
    <3> QED
      BY <2>0, <3>1, <3>2
  <2>5. ASSUME ~LiveUpdateArrives, ~RequestCompletes, ~(EditTableConfig \/ ChangeTags),
               ~(Search \/ GetLastRunsData \/ RunsRemoved \/ Reinitialize)
        PROVE  tableData' = tableData
    BY <2>5 DEF RTNext, OthersCreateRun, OthersDeleteRun, AbortRequest, ResponseBegins, RowArrives, ReaderFails,
                StreamBreaks, RequestFails, UpdateTable, SelectRows, SwitchLiveUpdate, rtVars
  <2> QED
    BY <2>0, <2>1, <2>2, <2>3, <2>4, <2>5
<1>6. selected' \subseteq Runs
  <2>0. selected \subseteq Runs /\ Selectable \subseteq Runs
    BY RunsInitial DEF RTTypeOK, Runs
  <2>1. CASE SelectRows
    BY <2>0, <2>1 DEF SelectRows
  <2>2. ASSUME ~SelectRows PROVE selected' \subseteq selected
    BY <2>2 DEF RTNext, OthersCreateRun, OthersDeleteRun, Search, GetLastRunsData, GetRunsData, AbortRequest,
                ResponseBegins, RowArrives, RequestCompletes, ReaderFails, StreamBreaks, RequestFails,
                UpdateTable, EditTableConfig, ChangeTags, UpdateModelData, ProcessData, RunsRemoved,
                LiveUpdateArrives, SwitchLiveUpdate, Reinitialize, rtVars
  <2> QED
    BY <2>0, <2>1, <2>2
<1>7. status' \in {"NotRequested", "Pending", "Ok", "BadRequest"}
  <2>0. status \in {"NotRequested", "Pending", "Ok", "BadRequest"}
    BY DEF RTTypeOK
  <2> QED
    BY <2>0 DEF RTNext, OthersCreateRun, OthersDeleteRun, Search, GetLastRunsData, GetRunsData, AbortRequest,
                ResponseBegins, RowArrives, RequestCompletes, ReaderFails, StreamBreaks, RequestFails,
                UpdateTable, EditTableConfig, ChangeTags, UpdateModelData, SelectRows, RunsRemoved,
                LiveUpdateArrives, SwitchLiveUpdate, Reinitialize, rtVars
<1>8. failing' \subseteq UserQueries
  <2>0. failing \subseteq UserQueries /\ (Waiting => request.q \in UserQueries)
    BY RequestFields DEF RTTypeOK
  <2>1. ASSUME Abort PROVE failing' \subseteq UserQueries
    BY <2>0, <2>1, PhaseTells DEF Abort
  <2>2. CASE Search \/ GetLastRunsData \/ RunsRemoved \/ AbortRequest
    BY <2>1, <2>2 DEF Search, GetLastRunsData, RunsRemoved, GetRunsData, AbortRequest
  <2>3. ASSUME ~(Search \/ GetLastRunsData \/ RunsRemoved \/ AbortRequest) PROVE failing' \subseteq failing
    BY <2>3 DEF RTNext, OthersCreateRun, OthersDeleteRun, ResponseBegins, RowArrives, RequestCompletes, ReaderFails,
                StreamBreaks, RequestFails, UpdateTable, EditTableConfig, ChangeTags,
                UpdateModelData, SelectRows, LiveUpdateArrives, SwitchLiveUpdate, Reinitialize, rtVars
  <2> QED
    BY <2>0, <2>2, <2>3
<1>9. sources' \subseteq UserQueries
  <2>0. sources \subseteq UserQueries /\ failing \subseteq UserQueries /\ query \in UserQueries /\ (Waiting => request.q \in UserQueries)
    BY RequestFields DEF RTTypeOK
  <2>1. CASE RequestCompletes \/ StreamBreaks \/ RequestFails
    BY <2>0, <2>1, PhaseTells DEF RequestCompletes, StreamBreaks, RequestFails, LiveStart
  <2>2. CASE ReaderFails \/ SwitchLiveUpdate
    BY <2>0, <2>2 DEF ReaderFails, SwitchLiveUpdate, LiveStart
  <2>3. ASSUME ~(RequestCompletes \/ StreamBreaks \/ RequestFails), ~(ReaderFails \/ SwitchLiveUpdate)
        PROVE  sources' = sources
    BY <2>3 DEF RTNext, OthersCreateRun, OthersDeleteRun, Search, GetLastRunsData, GetRunsData, AbortRequest,
                ResponseBegins, RowArrives, UpdateTable, EditTableConfig, ChangeTags,
                UpdateModelData, SelectRows, RunsRemoved, LiveUpdateArrives, Reinitialize, rtVars
  <2> QED
    BY <2>0, <2>1, <2>2, <2>3
<1>10. {newest, asked}' \subseteq Nat /\ {config, stored}' \subseteq 0..MaxEdits /\ {rawData, tableData}' \subseteq Seq(Runs)
  BY <1>1, <1>2, <1>3, <1>5
<1> QED
  BY <1>1, <1>2, <1>3, <1>4, <1>6, <1>7, <1>8, <1>9, <1>10 DEF RTTypeOK

-----------------------------------------------------------------------------
(* What each sort of step does to the rows of the page and of the request. *)

(* A list is its first row and then the rest. *)
LEMMA FirstAndRest ==
  ASSUME NEW q \in Seq(Runs), q # << >>
  PROVE  q = <<Head(q)>> \o Tail(q)
<1>1. Head(q) \in Runs /\ Tail(q) \in Seq(Runs)
  BY HeadTailProperties
<1>2. <<Head(q)>> \in Seq(Runs) /\ Len(<<Head(q)>>) = 1
  BY <1>1
<1> DEFINE r == <<Head(q)>> \o Tail(q)
<1>3. r \in Seq(Runs) /\ Len(r) = Len(q)
  BY <1>1, <1>2, ConcatProperties, HeadTailProperties
<1>4. ASSUME NEW i \in 1..Len(q) PROVE r[i] = q[i]
  BY <1>1, <1>2, ConcatProperties, HeadTailProperties
<1> QED
  BY <1>3, <1>4

(* A row moves from the head of what follows to the end of what is before. *)
LEMMA RowMoves ==
  ASSUME NEW s \in Seq(Runs), NEW row \in Runs, NEW rest \in Seq(Runs)
  PROVE  Append(s, row) \o rest = s \o (<<row>> \o rest)
<1>1. <<row>> \in Seq(Runs) /\ Append(s, row) = s \o <<row>>
  BY AppendIsConcat
<1> QED
  BY <1>1, ConcatAssociative

(* A request from the first page on has no rows, and so has the page. *)
LEMMA AtTheStart ==
  ASSUME RTTypeOK, Saved, StartsOver
  PROVE  /\ Waiting' /\ request'.initial /\ ~request'.shared /\ request'.phase = "fetching"
         /\ request'.got = << >> /\ request'.rest = << >> /\ request'.count = 0 /\ request'.after = 0
         /\ request'.q = query' /\ request'.config <= stored'
         /\ (Whole = << >>)' /\ rawData' = << >> /\ isLatest' = FALSE /\ infinite' = FALSE
         /\ UNCHANGED <<db, newest, skipped>>
<1>1. PICK q \in UserQueries, version \in 0..MaxEdits, reset \in BOOLEAN :
        /\ request' = FreshRequest(q, reset, version) /\ query' = q /\ version \in {config, stored}
  BY DEF StartsOver
<1>2. version <= stored'
  BY <1>1 DEF StartsOver, Saved, RTTypeOK
<1>3. /\ request'.initial = TRUE /\ request'.shared = FALSE /\ request'.phase = "fetching"
      /\ request'.got = << >> /\ request'.rest = << >> /\ request'.count = 0 /\ request'.after = 0
      /\ request'.q = q /\ request'.config = version
  BY <1>1 DEF FreshRequest
<1>4. Waiting'
  BY <1>3 DEF Waiting, NoRequest
<1>5. << >> \o << >> = << >>
  OBVIOUS
<1>6. (Whole = << >>)'
  BY <1>3, <1>5 DEF Whole
<1> QED
  BY <1>1, <1>2, <1>3, <1>4, <1>6 DEF StartsOver, dbVars

(* A request for more begins with the rows of the page. *)
LEMMA AtTheLast ==
  ASSUME RTTypeOK, RequestSound, GetLastRunsData
  PROVE  /\ Waiting' /\ ~request'.initial /\ request'.shared /\ request'.phase = "fetching"
         /\ request'.got = rawData /\ request'.rest = << >> /\ request'.count = 0
         /\ request'.after = Last(rawData) /\ rawData # << >>
         /\ request'.q = query /\ query' = query /\ request'.config = config
         /\ Whole' = rawData /\ rawData' = rawData /\ isLatest' = FALSE
         /\ UNCHANGED <<db, newest, skipped>>
<1> USE DEF GetLastRunsData, GetRunsData, dbVars
<1>1. request' = [q |-> query, initial |-> FALSE, reset |-> FALSE, config |-> config, shared |-> ~FALSE,
                  after |-> Last(rawData), got |-> IF FALSE THEN << >> ELSE rawData, rest |-> << >>,
                  count |-> 0, phase |-> "fetching"]
  OBVIOUS
<1>2. /\ request'.initial = FALSE /\ request'.shared = (~FALSE) /\ request'.phase = "fetching"
      /\ request'.got = rawData /\ request'.rest = << >> /\ request'.count = 0
      /\ request'.after = Last(rawData) /\ request'.q = query /\ request'.config = config
  BY <1>1
<1>3. Waiting'
  BY <1>2 DEF Waiting, NoRequest
<1>4. rawData \o << >> = rawData
  BY ConcatEmptySeq DEF RTTypeOK
<1>5. Whole' = rawData
  BY <1>2, <1>4 DEF Whole
<1>6. rawData # << >> /\ rawData' = rawData /\ query' = query /\ isLatest' = FALSE /\ UNCHANGED <<db, newest, skipped>>
  OBVIOUS
<1> QED
  BY <1>2, <1>3, <1>5, <1>6

(* The response adds a page behind the rows of the request. *)
LEMMA AtTheResponse ==
  ASSUME RTTypeOK, RequestSound, ResponseBegins
  PROVE  /\ Waiting /\ Waiting' /\ request.phase = "fetching" /\ request'.phase = "streaming"
         /\ request'.got = request.got /\ request'.rest = ServerPage(request.q, request.after)
         /\ request'.count = 0 /\ request'.initial = request.initial /\ request'.shared = request.shared
         /\ request'.q = request.q /\ request'.config = request.config
         /\ Whole = request.got /\ Whole' = request.got \o ServerPage(request.q, request.after)
         /\ skipped' = (skipped \/ (~request.initial /\ request.after \notin db))
         /\ UNCHANGED <<db, newest, rawData, query, isLatest>>
<1>1. Waiting /\ request.phase = "fetching" /\ request \in Requests
  BY PhaseTells, RequestFields DEF ResponseBegins
<1>2. PICK page : page = ServerPage(request.q, request.after)
  OBVIOUS
<1>3. request' = [request EXCEPT !.phase = "streaming", !.after = 0, !.rest = page]
  BY <1>2 DEF ResponseBegins
<1>4. /\ request'.got = request.got /\ request'.rest = page /\ request'.count = request.count
      /\ request'.phase = "streaming" /\ request'.q = request.q /\ request'.config = request.config
  BY <1>1, <1>3 DEF Requests
<1>5. request'.initial = request.initial /\ request'.shared = request.shared
  BY <1>1, <1>3 DEF Requests
<1>6. Waiting'
  BY <1>4 DEF Waiting, NoRequest
<1>7. request.rest = << >> /\ request.count = 0
  BY <1>1 DEF RequestSound
<1>8. Whole = request.got
  <2>1. request.got \in Seq(Runs)
    BY <1>1, RequestFields
  <2> QED
    BY <1>7, <2>1, ConcatEmptySeq DEF Whole
<1>9. Whole' = request.got \o page
  BY <1>4 DEF Whole
<1>10. UNCHANGED <<db, newest, rawData, query, isLatest>>
  BY DEF ResponseBegins, dbVars, pageVars
<1>11. skipped' = (skipped \/ (~request.initial /\ request.after \notin db))
  BY DEF ResponseBegins
<1> QED
  BY <1>1, <1>2, <1>4, <1>5, <1>6, <1>7, <1>8, <1>9, <1>10, <1>11

(* A row goes from those to come to those received. *)
LEMMA AtARow ==
  ASSUME RTTypeOK, RequestSound, RowArrives
  PROVE  /\ Waiting /\ Waiting' /\ request.phase = "streaming" /\ request'.phase = "streaming"
         /\ request'.got \in Seq(Runs) /\ request'.rest \in Seq(Runs)
         /\ request'.count + Len(request'.rest) = request.count + Len(request.rest)
         /\ request'.initial = request.initial /\ request'.shared = request.shared
         /\ request'.q = request.q /\ request'.config = request.config
         /\ Whole' = Whole /\ Whole' = request'.got \o request'.rest
         /\ rawData' = IF request.shared THEN request'.got ELSE rawData
         /\ UNCHANGED <<db, newest, query, isLatest, skipped>>
<1>1. Waiting /\ request.phase = "streaming" /\ request.rest # << >> /\ request \in Requests
  BY PhaseTells, RequestFields DEF RowArrives
<1>2. request.got \in Seq(Runs) /\ request.rest \in Seq(Runs) /\ request.count \in Nat
  BY <1>1, RequestFields
<1>3. PICK row : row = Head(request.rest)
  OBVIOUS
<1>4. PICK rest : rest = Tail(request.rest)
  OBVIOUS
<1>5. row \in Runs /\ rest \in Seq(Runs) /\ Len(rest) = Len(request.rest) - 1 /\ Len(request.rest) \in Nat
      /\ request.rest = <<row>> \o rest /\ <<row>> \in Seq(Runs)
  BY <1>1, <1>2, <1>3, <1>4, HeadTailProperties, FirstAndRest
<1>6. PICK got : got = Append(request.got, row)
  OBVIOUS
<1>7. got \in Seq(Runs) /\ got = request.got \o <<row>>
  BY <1>2, <1>5, <1>6, AppendProperties, AppendIsConcat
<1>8. request' = [request EXCEPT !.got = got, !.rest = rest, !.count = request.count + 1]
  BY <1>3, <1>4, <1>6 DEF RowArrives
<1>9. /\ request'.got = got /\ request'.rest = rest /\ request'.count = request.count + 1
      /\ request'.phase = "streaming" /\ request'.q = request.q /\ request'.config = request.config
  BY <1>1, <1>8 DEF Requests
<1>10. request'.initial = request.initial /\ request'.shared = request.shared
  BY <1>1, <1>8 DEF Requests
<1>11. Waiting'
  BY <1>9 DEF Waiting, NoRequest
<1>12. Whole' = got \o rest
  BY <1>9 DEF Whole
<1>13. got \o rest = request.got \o request.rest
  <2>1. PICK s \in Seq(Runs) : s = request.got
    BY <1>2
  <2>2. Append(s, row) \o rest = s \o (<<row>> \o rest)
    BY <1>5, RowMoves
  <2> QED
    BY <1>5, <1>6, <2>1, <2>2
<1>14. Whole' = Whole
  BY <1>12, <1>13 DEF Whole
<1>15. UNCHANGED <<db, newest, query, isLatest, skipped>> /\ rawData' = IF request.shared THEN got ELSE rawData
  BY <1>3, <1>6 DEF RowArrives, dbVars, ghosts
<1>16. request'.count + Len(request'.rest) = request.count + Len(request.rest)
  BY <1>2, <1>5, <1>9
<1> QED
  BY <1>1, <1>5, <1>7, <1>9, <1>10, <1>11, <1>12, <1>14, <1>15, <1>16

(* At the end of the stream the rows of the request are those of the page. *)
LEMMA AtTheEnd ==
  ASSUME RTTypeOK, RequestSound, RequestCompletes
  PROVE  /\ Waiting /\ ~Waiting' /\ request.phase = "streaming" /\ rawData' = request.got /\ Whole = request.got
         /\ request.rest = << >> /\ query' = request.q /\ config' = request.config
         /\ isLatest' = (~request.initial /\ request.count < PAGE)
         /\ UNCHANGED <<db, newest, skipped>>
<1>1. Waiting /\ request.phase = "streaming" /\ request.rest = << >>
  BY PhaseTells DEF RequestCompletes
<1>2. request.got \o << >> = request.got
  BY <1>1, RequestFields, ConcatEmptySeq
<1>3. Whole = request.got
  BY <1>1, <1>2 DEF Whole
<1>4. isLatest' = (~request.initial /\ request.count < PAGE)
  BY DEF RequestCompletes, Exhausted
<1>5. ~Waiting' /\ rawData' = request.got /\ query' = request.q /\ config' = request.config
      /\ UNCHANGED <<db, newest, skipped>>
  BY DEF RequestCompletes, Waiting, dbVars, ghosts
<1> QED
  BY <1>1, <1>3, <1>4, <1>5

(* A quiet step keeps the rows of the request or ends it. *)
LEMMA AtRest ==
  ASSUME RTTypeOK, Quiet
  PROVE  /\ Waiting' => /\ Waiting /\ Whole' = Whole /\ request'.got = request.got /\ request'.rest = request.rest
                        /\ request'.q = request.q /\ request'.config = request.config
                        /\ request'.initial = request.initial /\ request'.phase = request.phase
                        /\ request'.count = request.count /\ request'.after = request.after
                        /\ request'.shared => request.shared
         /\ isLatest' => isLatest
         /\ UNCHANGED <<db, newest, rawData, query, skipped>>
<1>1. CASE request' = request
  BY <1>1 DEF Quiet, Waiting, Whole, dbVars
<1>2. CASE request' = NoRequest
  BY <1>2 DEF Quiet, Waiting, dbVars
<1>3. CASE Waiting /\ request' = [request EXCEPT !.shared = FALSE]
  <2>1. request \in Requests
    BY <1>3, RequestFields
  <2>2. /\ request'.got = request.got /\ request'.rest = request.rest
        /\ request'.q = request.q /\ request'.config = request.config
        /\ request'.phase = request.phase /\ request'.count = request.count /\ request'.after = request.after
    BY <1>3, <2>1 DEF Requests
  <2>3. request'.initial = request.initial /\ request'.shared = FALSE
    BY <1>3, <2>1 DEF Requests
  <2>4. Whole' = Whole
    BY <2>2 DEF Whole
  <2>5. (isLatest' => isLatest) /\ UNCHANGED <<db, newest, rawData, query, skipped>>
    BY DEF Quiet, dbVars
  <2> QED
    BY <1>3, <2>2, <2>3, <2>4, <2>5
<1> QED
  BY <1>1, <1>2, <1>3 DEF Quiet, Waiting

-----------------------------------------------------------------------------
(* The parts of the invariant, one after the other. *)

(* No step makes the page know a run newer than the newest one. *)
LEMMA KnownKept ==
  ASSUME RunsInv, RTTypeOK', [RTNext]_rtVars
  PROVE  RunsKnown'
<1> USE DEF RunsInv
<1>0. /\ newest \in Nat /\ newest' \in Nat /\ db \subseteq Runs /\ rawData \in Seq(Runs) /\ rawData' \in Seq(Runs)
      /\ newest <= MaxRun /\ \A r \in db : r <= newest
      /\ \A r \in Range(rawData) : r <= newest
      /\ Waiting => Whole \in Seq(Runs) /\ \A r \in Range(Whole) : r <= newest
  <2>1. /\ newest \in Nat /\ newest' \in Nat /\ db \subseteq Runs /\ rawData \in Seq(Runs) /\ rawData' \in Seq(Runs)
        /\ newest <= MaxRun /\ \A r \in db : r <= newest
    BY DEF RTTypeOK, RunsKnown
  <2>2. \A r \in Range(rawData) : r <= newest
    BY DEF RunsKnown, Known, Range
  <2>3. ASSUME Waiting PROVE Whole \in Seq(Runs)
    BY <2>3, RequestFields, PlacesOfTwo DEF Whole
  <2>4. ASSUME Waiting PROVE \A r \in Range(Whole) : r <= newest
    BY <2>4 DEF RunsKnown, Known, Range
  <2> QED
    BY <2>1, <2>2, <2>3, <2>4
<1>1. ASSUME newest' <= MaxRun, \A r \in db' : r <= newest', \A r \in Range(rawData') : r <= newest',
             Waiting' => \A r \in Range(Whole') : r <= newest'
      PROVE  RunsKnown'
  BY <1>1 DEF RunsKnown, Known, Range
<1>2. CASE RepoStep
  <2>1. UNCHANGED <<rawData, request>> /\ newest' >= newest /\ newest' <= MaxRun
        /\ \A r \in db' : r \in db \/ r = newest'
    BY <1>0, <1>2, Bounds DEF RepoStep, OthersCreateRun, OthersDeleteRun, pageVars, requestVars
  <2>2. Whole' = Whole /\ (Waiting' <=> Waiting)
    BY <2>1 DEF Whole, Waiting
  <2>3. \A r \in Range(rawData) : r <= newest'
    <3>1. \A r \in Range(rawData) : r \in Nat
      BY <1>0, LenProperties, Bounds DEF Range
    <3> QED
      BY <1>0, <2>1, <3>1
  <2>4. ASSUME Waiting PROVE \A r \in Range(Whole) : r <= newest'
    <3>1. \A r \in Range(Whole) : r \in Nat
      BY <1>0, <2>4, LenProperties, Bounds DEF Range
    <3> QED
      BY <1>0, <2>1, <2>4, <3>1
  <2>5. \A r \in db' : r <= newest'
    <3>1. \A r \in db : r \in Nat /\ r <= newest
      BY <1>0, Bounds
    <3> QED
      BY <1>0, <2>1, <3>1
  <2> QED
    BY <1>1, <2>1, <2>2, <2>3, <2>4, <2>5
<1>3. CASE StartsOver
  BY <1>0, <1>1, <1>3, AtTheStart DEF Range
<1>4. CASE GetLastRunsData
  BY <1>0, <1>1, <1>4, AtTheLast
<1>5. CASE ResponseBegins
  <2>1. /\ Waiting /\ Waiting' /\ Whole = request.got /\ UNCHANGED <<db, newest, rawData>>
        /\ Whole' = request.got \o ServerPage(request.q, request.after)
    BY <1>5, AtTheResponse
  <2>2. PICK page : page = ServerPage(request.q, request.after)
    OBVIOUS
  <2>3. page \in Seq(Runs) /\ Range(page) \subseteq db
    BY <2>1, <2>2, RequestFields, PageTyped
  <2>4. Range(request.got \o page) = Range(request.got) \cup Range(page)
    BY <2>1, <2>3, RequestFields, PlacesOfTwo
  <2> QED
    BY <1>0, <1>1, <2>1, <2>2, <2>3, <2>4
<1>6. CASE RowArrives
  <2>1. /\ Waiting /\ Waiting' /\ Whole' = Whole /\ UNCHANGED <<db, newest>>
        /\ request'.got \in Seq(Runs) /\ request'.rest \in Seq(Runs) /\ Whole' = request'.got \o request'.rest
        /\ rawData' = IF request.shared THEN request'.got ELSE rawData
    BY <1>6, AtARow
  <2>2. Range(request'.got) \subseteq Range(Whole)
    BY <2>1, PlacesOfTwo
  <2> QED
    BY <1>0, <1>1, <2>1, <2>2
<1>7. CASE RequestCompletes
  BY <1>0, <1>1, <1>7, AtTheEnd
<1>8. CASE Quiet
  BY <1>0, <1>1, <1>8, AtRest
<1> QED
  BY <1>2, <1>3, <1>4, <1>5, <1>6, <1>7, <1>8, SortsOfSteps

(* A page and its request hold rows of their common query. *)
LEMMA MatchKept ==
  ASSUME RunsInv, RTTypeOK', [RTNext]_rtVars
  PROVE  RowsMatch'
<1> USE DEF RunsInv
<1>0. /\ Range(rawData) \subseteq Matches(query)
      /\ Waiting => request.q = query /\ Range(Whole) \subseteq Matches(query) /\ request.q \in UserQueries
  BY RequestFields DEF RowsMatch, Found
<1>1. ASSUME Range(rawData') \subseteq Matches(query'),
             Waiting' => request'.q = query' /\ Range(Whole') \subseteq Matches(query')
      PROVE  RowsMatch'
  BY <1>1 DEF RowsMatch, Found
<1>2. CASE RepoStep
  <2>1. UNCHANGED <<rawData, request, query>>
    BY <1>2 DEF RepoStep, OthersCreateRun, OthersDeleteRun, pageVars, requestVars
  <2>2. Whole' = Whole /\ (Waiting' <=> Waiting)
    BY <2>1 DEF Whole, Waiting
  <2> QED
    BY <1>0, <1>1, <2>1, <2>2
<1>3. CASE StartsOver
  BY <1>1, <1>3, AtTheStart DEF Range
<1>4. CASE GetLastRunsData
  BY <1>0, <1>1, <1>4, AtTheLast
<1>5. CASE ResponseBegins
  <2>1. /\ Waiting /\ Waiting' /\ Whole = request.got /\ UNCHANGED <<rawData, query>> /\ request'.q = request.q
        /\ Whole' = request.got \o ServerPage(request.q, request.after)
    BY <1>5, AtTheResponse
  <2>2. PICK page : page = ServerPage(request.q, request.after)
    OBVIOUS
  <2>3. page \in Seq(Runs) /\ Range(page) \subseteq Matches(request.q)
    BY <2>1, <2>2, RequestFields, PageTyped
  <2>4. Range(request.got \o page) = Range(request.got) \cup Range(page)
    BY <2>1, <2>3, RequestFields, PlacesOfTwo
  <2> QED
    BY <1>0, <1>1, <2>1, <2>2, <2>3, <2>4
<1>6. CASE RowArrives
  <2>1. /\ Waiting /\ Waiting' /\ Whole' = Whole /\ query' = query /\ request'.q = request.q
        /\ request'.got \in Seq(Runs) /\ request'.rest \in Seq(Runs) /\ Whole' = request'.got \o request'.rest
        /\ rawData' = IF request.shared THEN request'.got ELSE rawData
    BY <1>6, AtARow
  <2>2. Range(request'.got) \subseteq Range(Whole)
    BY <2>1, PlacesOfTwo
  <2> QED
    BY <1>0, <1>1, <2>1, <2>2
<1>7. CASE RequestCompletes
  BY <1>0, <1>1, <1>7, AtTheEnd
<1>8. CASE Quiet
  BY <1>0, <1>1, <1>8, AtRest
<1> QED
  BY <1>2, <1>3, <1>4, <1>5, <1>6, <1>7, <1>8, SortsOfSteps

(* What is in use has been saved: an edit is saved at once, and a request      *)
(* takes up the configuration of its start.                                  *)
LEMMA SavedKept ==
  ASSUME RunsInv, RTTypeOK', [RTNext]_rtVars
  PROVE  Saved'
<1> USE DEF RunsInv
<1>0. config <= stored /\ (Waiting => request.config <= stored) /\ config \in Nat /\ stored \in Nat /\ stored' \in Nat
      /\ (Waiting => request.config \in Nat)
  BY RequestFields DEF Saved, RTTypeOK
<1>1. ASSUME ~EditTableConfig, ~RequestCompletes, ~StartsOver PROVE UNCHANGED <<config, stored>>
  <2>1. ~Search /\ ~RunsRemoved /\ ~Reinitialize
    BY <1>1, OverStarts
  <2> QED
    BY <1>1, <2>1 DEF RTNext, OthersCreateRun, OthersDeleteRun, GetLastRunsData, GetRunsData, AbortRequest,
           ResponseBegins, RowArrives, ReaderFails, StreamBreaks, RequestFails, UpdateTable,
           ChangeTags, UpdateModelData, SelectRows, LiveUpdateArrives, SwitchLiveUpdate, rtVars, pageVars
<1>2. ASSUME EditTableConfig PROVE Saved'
  <2>1. config' = stored' /\ request' = request /\ config' > config /\ config' > stored
    <3>1. config' = IF config < stored THEN stored + 1 ELSE config + 1
      BY <1>2 DEF EditTableConfig
    <3>2. config' = stored' /\ request' = request
      BY <1>2 DEF EditTableConfig, requestVars
    <3> QED
      BY <1>0, <3>1, <3>2
  <2> QED
    BY <1>0, <2>1 DEF Saved, Waiting
<1>3. ASSUME RequestCompletes PROVE Saved'
  <2>1. stored' = stored
    BY <1>3 DEF RequestCompletes
  <2> QED
    BY <1>0, <1>3, <2>1, AtTheEnd DEF Saved
<1>4. ASSUME StartsOver PROVE Saved'
  <2>1. config' \in {config, stored} /\ stored' = stored
    BY <1>4 DEF StartsOver
  <2> QED
    <3>1. request'.config <= stored'
      BY <1>4, AtTheStart
    <3>2. config' <= stored'
      BY <1>0, <2>1
    <3> QED
      BY <3>1, <3>2 DEF Saved
<1>5. ASSUME UNCHANGED <<config, stored>>, ~RequestCompletes, ~StartsOver PROVE Saved'
  <2>1. Waiting' => request'.config = config \/ (Waiting /\ request'.config = request.config)
    <3>1. CASE RepoStep
      BY <3>1 DEF RepoStep, OthersCreateRun, OthersDeleteRun, pageVars, requestVars, Waiting
    <3> QED
      BY <1>5, <3>1, SortsOfSteps, AtTheLast, AtTheResponse, AtARow, AtRest
  <2> QED
    BY <1>0, <1>5, <2>1 DEF Saved
<1> QED
  BY <1>1, <1>2, <1>3, <1>4, <1>5

(* Rows are loaded by one request at a time; a table that knows its end asks *)
(* for no more; the two loading indicators exclude each other.               *)
LEMMA SoundKept ==
  ASSUME RunsInv, RTTypeOK', [RTNext]_rtVars
  PROVE  RequestSound'
<1> USE DEF RunsInv
<1>0. /\ isLatest => ~Waiting
      /\ failed => ~Waiting
      /\ status = "Pending" => ~infinite
  BY DEF RequestSound
<1>1. isLatest' => ~Waiting'
  <2>1. CASE RepoStep
    BY <1>0, <2>1 DEF RepoStep, OthersCreateRun, OthersDeleteRun, pageVars, requestVars, Waiting
  <2> QED
    BY <1>0, <2>1, SortsOfSteps, AtTheStart, AtTheLast, AtTheResponse, AtARow, AtTheEnd, AtRest
<1>2. failed' => ~Waiting'
  <2>1. CASE RepoStep
    BY <1>0, <2>1 DEF RepoStep, OthersCreateRun, OthersDeleteRun, requestVars, ghosts, Waiting
  <2>2. CASE StartsOver
    BY <2>2 DEF StartsOver
  <2>3. CASE GetLastRunsData
    BY <2>3 DEF GetLastRunsData, GetRunsData
  <2>4. CASE ResponseBegins \/ RowArrives
    <3>1. Waiting /\ failed' = failed
      BY <2>4, AtTheResponse, AtARow DEF ResponseBegins, RowArrives, ghosts
    <3> QED
      BY <1>0, <3>1
  <2>5. CASE RequestCompletes
    BY <2>5, AtTheEnd
  <2>6. CASE StreamBreaks \/ RequestFails
    BY <2>6 DEF StreamBreaks, RequestFails, Waiting
  <2>7. ASSUME Quiet, ~(StreamBreaks \/ RequestFails), ~RepoStep, ~StartsOver, ~GetLastRunsData,
               ~(ResponseBegins \/ RowArrives), ~RequestCompletes
        PROVE  failed' = failed
    <3>1. ~Search /\ ~RunsRemoved /\ ~Reinitialize
      BY <2>7, OverStarts
    <3> QED
      BY <2>7, <3>1 DEF RTNext, RepoStep, AbortRequest, ReaderFails, UpdateTable, EditTableConfig, ChangeTags,
             SelectRows, LiveUpdateArrives, SwitchLiveUpdate, rtVars, ghosts
  <2> QED
    BY <1>0, <2>1, <2>2, <2>3, <2>4, <2>5, <2>6, <2>7, SortsOfSteps, AtRest
<1>3. status' = "Pending" => ~infinite'
  <2>1. CASE StartsOver
    BY <2>1 DEF StartsOver
  <2>2. CASE GetLastRunsData
    BY <2>2 DEF GetLastRunsData, GetRunsData
  <2>3. ASSUME ~StartsOver, ~GetLastRunsData
        PROVE  status' # "Pending" \/ UNCHANGED <<status, infinite>> \/ ~infinite'
    <3>1. ~Search /\ ~RunsRemoved /\ ~Reinitialize
      BY <2>3, OverStarts
    <3> QED
      BY <2>3, <3>1 DEF RTNext, OthersCreateRun, OthersDeleteRun, AbortRequest, ResponseBegins, RowArrives,
             RequestCompletes, ReaderFails, StreamBreaks, RequestFails, UpdateTable, EditTableConfig,
             ChangeTags, UpdateModelData, SelectRows, LiveUpdateArrives, SwitchLiveUpdate, rtVars, pageVars
  <2> QED
    BY <1>0, <2>1, <2>2, <2>3
<1>4. ASSUME Waiting'
      PROVE  /\ request'.shared => request'.got = rawData'
             /\ request'.phase = "fetching" => request'.rest = << >> /\ request'.count = 0
             /\ request'.initial /\ request'.phase = "fetching" => request'.got = << >> /\ request'.after = 0
             /\ ~request'.initial => Whole' # << >>
             /\ ~request'.initial /\ request'.phase = "fetching" => request'.after = Last(request'.got)
  <2>0. Waiting =>
          /\ request.shared => request.got = rawData
          /\ request.phase = "fetching" => request.rest = << >> /\ request.count = 0
          /\ request.initial /\ request.phase = "fetching" => request.got = << >> /\ request.after = 0
          /\ ~request.initial => Whole # << >>
          /\ ~request.initial /\ request.phase = "fetching" => request.after = Last(request.got)
    BY DEF RequestSound
  <2>1. CASE RepoStep
    <3>1. UNCHANGED <<request, rawData>>
      BY <2>1 DEF RepoStep, OthersCreateRun, OthersDeleteRun, pageVars, requestVars
    <3>2. Whole' = Whole /\ Waiting
      BY <1>4, <3>1 DEF Whole, Waiting
    <3> QED
      BY <2>0, <3>1, <3>2
  <2>2. CASE StartsOver
    BY <2>2, AtTheStart
  <2>3. CASE GetLastRunsData
    BY <2>3, AtTheLast
  <2>4. CASE ResponseBegins
    <3>1. /\ Waiting /\ request'.phase = "streaming" /\ request'.got = request.got
          /\ request'.initial = request.initial /\ request'.shared = request.shared /\ rawData' = rawData
          /\ Whole = request.got /\ Whole' = request.got \o ServerPage(request.q, request.after)
      BY <2>4, AtTheResponse
    <3>2. ~request.initial => Whole' # << >>
      <4>1. PICK page : page = ServerPage(request.q, request.after)
        OBVIOUS
      <4>2. page \in Seq(Runs) /\ request.got \in Seq(Runs)
        BY <3>1, <4>1, RequestFields, PageTyped
      <4>3. request.got # << >> => request.got \o page # << >>
        BY <4>2, ConcatProperties, LenProperties, EmptySeq
      <4> QED
        BY <2>0, <3>1, <4>1, <4>3
    <3> QED
      BY <2>0, <3>1, <3>2
  <2>5. CASE RowArrives
    BY <2>0, <2>5, AtARow
  <2>6. CASE RequestCompletes
    BY <1>4, <2>6, AtTheEnd
  <2>7. CASE Quiet
    BY <1>4, <2>0, <2>7, AtRest
  <2> QED
    BY <2>1, <2>2, <2>3, <2>4, <2>5, <2>6, <2>7, SortsOfSteps
<1> QED
  BY <1>1, <1>2, <1>3, <1>4 DEF RequestSound

(* Stretches stay stretches: the server continues each behind the last run   *)
(* the page has, and the runs that come and go change none of them.          *)
LEMMA StretchesKept ==
  ASSUME RunsInv, RTTypeOK', RunsKnown', RowsMatch', [RTNext]_rtVars
  PROVE  StretchesLoaded'
<1> USE DEF RunsInv
<1>0. /\ db \in SUBSET Runs /\ db' \in SUBSET Runs /\ rawData \in Seq(Runs) /\ rawData' \in Seq(Runs)
      /\ Waiting => Whole \in Seq(Runs) /\ Matches(query) = Found
  <2>1. ASSUME Waiting PROVE Whole \in Seq(Runs) /\ Matches(query) = Found
    BY <2>1, RequestFields, PlacesOfTwo DEF Whole, Found, RowsMatch
  <2> QED
    BY <2>1 DEF RTTypeOK
<1>1. ~skipped =>
        /\ Stretch(db, Matches(query), rawData)
        /\ Waiting => Stretch(db, Found, Whole)
        /\ Waiting /\ request.phase = "streaming" /\ ~request.initial /\ request.count + Len(request.rest) < PAGE =>
              \A r \in db \cap Found : Last(Whole) <= r
  BY DEF StretchesLoaded
<1>2. skipped => skipped'
  BY DEF RTNext, OthersCreateRun, OthersDeleteRun, Search, GetLastRunsData, GetRunsData, AbortRequest,
         ResponseBegins, RowArrives, RequestCompletes, ReaderFails, StreamBreaks, RequestFails,
         UpdateTable, EditTableConfig, ChangeTags, UpdateModelData, SelectRows, RunsRemoved,
         LiveUpdateArrives, SwitchLiveUpdate, Reinitialize, rtVars, ghosts
<1> SUFFICES ASSUME ~skipped'
             PROVE  /\ Stretch(db', Matches(query'), rawData')
                    /\ Waiting' => Stretch(db', Found', Whole')
                    /\ Waiting' /\ request'.phase = "streaming" /\ ~request'.initial
                         /\ request'.count + Len(request'.rest) < PAGE =>
                           \A r \in db' \cap Found' : Last(Whole') <= r
  BY DEF StretchesLoaded
<1>3. Stretch(db, Matches(query), << >>)
  BY DEF Stretch, Descending, Range
<1>4. CASE RepoStep
  <2>1. UNCHANGED <<request, query, rawData>> /\ \A r \in db' : r \in db \/ r = newest + 1
    BY <1>4 DEF RepoStep, OthersCreateRun, OthersDeleteRun, pageVars, requestVars
  <2>2. Whole' = Whole /\ Found' = Found /\ (Waiting' <=> Waiting)
    BY <2>1 DEF Whole, Found, Waiting
  <2>3. newest \in Nat
    BY DEF RTTypeOK
  <2>4. ASSUME NEW s \in Seq(Runs), Known(s), NEW M, Stretch(db, M, s)
        PROVE  Stretch(db', M, s)
    <3>1. \A t \in Range(s) : t \in Nat /\ t <= newest
      BY <2>4, LenProperties, Bounds DEF Known, Range
    <3>2. \A r \in db' : r \in db \/ \A t \in Range(s) : t < r
      BY <2>1, <2>3, <3>1
    <3> QED
      BY <1>0, <2>4, <3>2, StretchAsRunsChange
  <2>5. Stretch(db', Matches(query), rawData)
    BY <1>0, <1>1, <1>2, <2>4 DEF RunsKnown
  <2>6. Waiting => Stretch(db', Found, Whole)
    BY <1>0, <1>1, <1>2, <2>4 DEF RunsKnown
  <2>7. ASSUME Waiting, ~request.initial, NEW r \in db', \A t \in db \cap Found : Last(Whole) <= t, r \in Found
        PROVE  Last(Whole) <= r
    <3>1. Whole # << >> /\ Whole \in Seq(Runs)
      BY <1>0, <2>7 DEF RequestSound
    <3>2. Last(Whole) \in Range(Whole) /\ Last(Whole) \in Runs
      BY <1>1, <1>2, <2>7, <3>1, EndsOfList DEF Stretch
    <3>3. Last(Whole) <= newest
      BY <2>7, <3>1, <3>2 DEF RunsKnown, Known, Range
    <3>4. Last(Whole) \in Nat
      BY <3>2, Bounds
    <3> QED
      BY <2>1, <2>3, <2>7, <3>3, <3>4
  <2> QED
    BY <1>1, <1>2, <2>1, <2>2, <2>5, <2>6, <2>7
<1>5. CASE StartsOver
  <2>1. /\ request'.initial /\ rawData' = << >> /\ Whole' = << >>
    BY <1>5, AtTheStart
  <2>2. \A D, M : Stretch(D, M, << >>)
    BY DEF Stretch, Descending, Range
  <2> QED
    BY <2>1, <2>2
<1>6. CASE GetLastRunsData
  <2>1. /\ Whole' = rawData /\ rawData' = rawData /\ query' = query /\ db' = db
        /\ request'.phase = "fetching" /\ request'.q = query
    BY <1>6, AtTheLast
  <2> QED
    BY <1>1, <1>2, <2>1 DEF Found
<1>7. CASE ResponseBegins
  <2>1. /\ Waiting /\ Waiting' /\ request.phase = "fetching" /\ UNCHANGED <<db, rawData, query>>
        /\ request'.rest = ServerPage(request.q, request.after) /\ request'.count = 0
        /\ request'.initial = request.initial /\ request'.q = request.q
        /\ Whole = request.got /\ Whole' = request.got \o ServerPage(request.q, request.after)
        /\ request.initial \/ request.after \in db
    BY <1>7, AtTheResponse
  <2>2. PICK s \in Seq(Runs) : s = request.got
    BY <2>1, RequestFields
  <2> DEFINE S == {r \in db \cap Found : request.after \in db => r < request.after}
  <2>3. S = {r \in db \cap Found : s = << >> \/ r < Last(s)}
    <3>1. CASE request.initial
      <4>1. s = << >> /\ request.after = 0
        BY <2>1, <2>2, <3>1 DEF RequestSound
      <4>2. 0 \notin db
        BY <1>0, Bounds
      <4> QED
        BY <4>1, <4>2
    <3>2. CASE ~request.initial
      <4>1. s # << >> /\ request.after = Last(s) /\ request.after \in db
        BY <2>1, <2>2, <3>2 DEF RequestSound
      <4> QED
        BY <4>1
    <3> QED
      BY <3>1, <3>2
  <2>4. S \in SUBSET Runs
    BY <1>0
  <2>5. PICK page : page = Take(NewestFirst(S), PAGE)
    OBVIOUS
  <2>6. ServerPage(request.q, request.after) = page
    BY <2>5 DEF ServerPage, Found
  <2>7. Stretch(db, Found, s)
    BY <1>1, <1>2, <2>1, <2>2
  <2> HIDE DEF S
  <2>8. /\ Stretch(db, Found, s \o page)
        /\ s # << >> /\ Len(page) < PAGE => \A r \in db \cap Found : Last(s \o page) <= r
    BY <1>0, <2>3, <2>4, <2>5, <2>7, PageBehindStretch
  <2>9. Whole' = s \o page /\ Found' = Found
    BY <2>1, <2>2, <2>6 DEF Found
  <2>10. ~request.initial => s # << >>
    BY <2>1, <2>2 DEF RequestSound
  <2>11. Stretch(db', Matches(query'), rawData')
    BY <1>1, <1>2, <2>1
  <2>12. Stretch(db', Found', Whole')
    BY <2>1, <2>8, <2>9
  <2>13. ASSUME ~request'.initial, request'.count + Len(request'.rest) < PAGE
         PROVE  \A r \in db' \cap Found' : Last(Whole') <= r
    <3>1. request'.rest = page /\ request'.count = 0
      BY <2>1, <2>6
    <3>2. page \in Seq(Runs)
      BY <2>1, <2>6, RequestFields, PageTyped
    <3>3. Len(page) < PAGE
      BY <2>13, <3>1, <3>2, LenProperties
    <3> QED
      BY <2>1, <2>8, <2>9, <2>10, <2>13, <3>3
  <2> QED
    BY <2>11, <2>12, <2>13
<1>8. CASE RowArrives
  <2>1. /\ Waiting /\ Waiting' /\ request.phase = "streaming" /\ UNCHANGED <<db, query>>
        /\ request'.got \in Seq(Runs) /\ request'.rest \in Seq(Runs)
        /\ request'.count + Len(request'.rest) = request.count + Len(request.rest)
        /\ request'.initial = request.initial /\ request'.q = request.q
        /\ Whole' = Whole /\ Whole' = request'.got \o request'.rest
        /\ rawData' = IF request.shared THEN request'.got ELSE rawData
    BY <1>8, AtARow
  <2>2. Found' = Found /\ Matches(query') = Found
    BY <1>0, <2>1 DEF Found
  <2>3. Stretch(db, Found, Whole)
    BY <1>1, <1>2, <2>1
  <2>4. Stretch(db, Found, request'.got)
    <3>1. PICK s \in Seq(Runs), t \in Seq(Runs) : s = request'.got /\ t = request'.rest
      BY <2>1
    <3>2. Stretch(db, Found, s \o t)
      BY <2>1, <2>3, <3>1
    <3> QED
      BY <1>0, <3>1, <3>2, BeginningOfStretch
  <2>5. Stretch(db', Matches(query'), rawData')
    BY <1>0, <1>1, <1>2, <2>1, <2>2, <2>4
  <2> QED
    BY <1>1, <1>2, <2>1, <2>2, <2>3, <2>5
<1>9. CASE RequestCompletes
  <2>1. Waiting /\ ~Waiting' /\ rawData' = Whole /\ Matches(query') = Found /\ db' = db
    BY <1>9, AtTheEnd DEF Found
  <2> QED
    BY <1>1, <1>2, <2>1
<1>10. CASE Quiet
  <2>1. UNCHANGED <<db, rawData, query>>
    BY <1>10, AtRest
  <2>2. ASSUME Waiting'
        PROVE  /\ Waiting /\ Whole' = Whole /\ Found' = Found /\ request'.phase = request.phase
               /\ request'.initial = request.initial /\ request'.count = request.count /\ request'.rest = request.rest
    BY <1>10, <2>2, AtRest DEF Found
  <2> QED
    BY <1>1, <1>2, <2>1, <2>2
<1> QED
  BY <1>4, <1>5, <1>6, <1>7, <1>8, <1>9, <1>10, SortsOfSteps

(* The page that was not full was the last, and later runs are newer.        *)
LEMMA LatestKept ==
  ASSUME RunsInv, RTTypeOK', [RTNext]_rtVars
  PROVE  LatestMeansLast'
<1> USE DEF RunsInv
<1>1. ~skipped /\ isLatest =>
        rawData # << >> /\ \A r \in db \cap Matches(query) : Last(rawData) <= r
  BY DEF LatestMeansLast
<1>2. isLatest => ~Waiting
  BY DEF RequestSound
<1> SUFFICES ASSUME ~skipped', isLatest'
             PROVE  rawData' # << >> /\ \A r \in db' \cap Matches(query') : Last(rawData') <= r
  BY DEF LatestMeansLast
<1>3. CASE RepoStep
  <2>1. UNCHANGED <<request, query, rawData, isLatest, skipped>> /\ \A r \in db' : r \in db \/ r = newest + 1
    BY <1>3 DEF RepoStep, OthersCreateRun, OthersDeleteRun, pageVars, requestVars, ghosts
  <2>2. newest \in Nat /\ rawData # << >> /\ rawData \in Seq(Runs)
    BY <1>1, <2>1 DEF RTTypeOK
  <2>3. Last(rawData) \in Range(rawData) /\ Last(rawData) \in Runs
    BY <2>1, <2>2, EndsOfList DEF StretchesLoaded, Stretch
  <2>4. Last(rawData) <= newest
    BY <2>2, <2>3 DEF RunsKnown, Known, Range
  <2>5. Last(rawData) \in Nat
    BY <2>3, Bounds
  <2>6. ASSUME NEW r \in db', r \in Matches(query) PROVE Last(rawData) <= r
    BY <1>1, <2>1, <2>2, <2>4, <2>5, <2>6
  <2> QED
    BY <2>1, <2>2, <2>6
<1>4. CASE RequestCompletes
  <2>1. /\ Waiting /\ request.phase = "streaming" /\ rawData' = Whole /\ request.rest = << >>
        /\ ~request.initial /\ request.count < PAGE /\ query' = request.q /\ UNCHANGED <<db, skipped>>
    BY <1>4, AtTheEnd
  <2>2. request.count + Len(request.rest) < PAGE
    <3>1. Len(request.rest) = 0 /\ request.count \in Nat
      BY <2>1, RequestFields
    <3> QED
      BY <2>1, <3>1
  <2>3. Whole # << >>
    BY <2>1 DEF RequestSound
  <2>4. \A r \in db \cap Matches(request.q) : Last(Whole) <= r
    BY <2>1, <2>2 DEF StretchesLoaded, Found
  <2> QED
    BY <2>1, <2>3, <2>4
<1>5. CASE Quiet
  BY <1>1, <1>5, AtRest
<1>6. CASE StartsOver \/ GetLastRunsData \/ ResponseBegins \/ RowArrives
  BY <1>2, <1>6, AtTheStart, AtTheLast, AtTheResponse, AtARow
<1> QED
  BY <1>3, <1>4, <1>5, <1>6, SortsOfSteps

-----------------------------------------------------------------------------
(* The page starts with a request and no rows. *)
LEMMA RunsStart ==
  ASSUME RTInit
  PROVE  RunsInv
<1>0. PICK n \in 0..MaxRun : InitialRuns = 1..n
  BY RunsInitial
<1>1. IsFiniteSet(1..n) /\ Cardinality(1..n) = n /\ n \in Nat /\ n <= MaxRun
  BY <1>0, FS_Interval, Bounds
<1>2. db = 1..n /\ newest = n /\ db \subseteq Runs /\ \A r \in db : r <= n
  BY <1>0, <1>1, Bounds DEF RTInit, Runs
<1>3. request = FreshRequest(query, FALSE, 0) \/ request = FreshRequest(query, TRUE, 0)
  BY DEF RTInit, FirstRequest, FreshRequest
<1>4. /\ request.initial = TRUE /\ request.shared = FALSE /\ request.phase = "fetching"
      /\ request.got = << >> /\ request.rest = << >> /\ request.count = 0 /\ request.after = 0
      /\ request.q = query /\ request.config = 0
  BY <1>3 DEF FreshRequest
<1>5. Waiting /\ Whole = << >> /\ Found = Matches(query)
  <2>1. << >> \o << >> = << >>
    OBVIOUS
  <2> QED
    BY <1>4, <2>1 DEF Waiting, NoRequest, Whole, Found
<1>6. RTTypeOK
  <2>1. request \in Requests
    <3>1. query \in UserQueries /\ 0 \in 0..MaxEdits /\ TRUE \in BOOLEAN /\ FALSE \in BOOLEAN
      BY Bounds DEF RTInit
    <3> QED
      BY <1>3, <3>1, FreshTyped
  <2>2. db \subseteq Runs /\ newest \in Nat /\ asked \in Nat /\ query \in UserQueries
    BY <1>1, <1>2 DEF RTInit
  <2>3. config \in 0..MaxEdits /\ stored \in 0..MaxEdits
    BY Bounds DEF RTInit
  <2>4. {isLatest, infinite, ticking, live, skipped, failed} \subseteq BOOLEAN
    BY DEF RTInit
  <2>5. rawData \in Seq(Runs) /\ tableData \in Seq(Runs) /\ selected \subseteq Runs
    BY DEF RTInit
  <2>6. status \in {"NotRequested", "Pending", "Ok", "BadRequest"} /\ failing \subseteq UserQueries /\ sources \subseteq UserQueries
    BY DEF RTInit
  <2> QED
    BY <2>1, <2>2, <2>3, <2>4, <2>5, <2>6 DEF RTTypeOK
<1>7. RunsKnown /\ RowsMatch /\ Saved
  <2>1. rawData = << >> /\ config = 0 /\ stored = 0
    BY DEF RTInit
  <2> QED
    BY <1>1, <1>2, <1>4, <1>5, <2>1 DEF RunsKnown, Known, RowsMatch, Range, Saved
<1>8. RequestSound
  BY <1>4, <1>5 DEF RTInit, RequestSound
<1>9. StretchesLoaded /\ LatestMeansLast
  <2>1. \A D, M : Stretch(D, M, << >>)
    BY DEF Stretch, Descending, Range
  <2>2. rawData = << >> /\ isLatest = FALSE
    BY DEF RTInit
  <2> QED
    BY <1>4, <1>5, <2>1, <2>2 DEF StretchesLoaded, LatestMeansLast
<1> QED
  BY <1>6, <1>7, <1>8, <1>9 DEF RunsInv

(* The invariant is inductive. *)
LEMMA RunsInductive ==
  ASSUME RunsInv, [RTNext]_rtVars
  PROVE  RunsInv'
<1>1. RTTypeOK'
  BY TypesKept DEF RunsInv
<1>2. RunsKnown' /\ RowsMatch' /\ Saved' /\ RequestSound' /\ LatestMeansLast'
  BY <1>1, KnownKept, MatchKept, SavedKept, SoundKept, LatestKept
<1>3. StretchesLoaded'
  BY <1>1, <1>2, StretchesKept
<1> QED
  BY <1>1, <1>2, <1>3 DEF RunsInv

(* It holds at every time. *)
LEMMA RunsAlways == RTSpec => []RunsInv
<1>1. RTInit => RunsInv
  BY RunsStart
<1>2. RunsInv /\ [RTNext]_rtVars => RunsInv'
  BY RunsInductive
<1> QED
  BY <1>1, <1>2, PTL DEF RTSpec

-----------------------------------------------------------------------------
(* The pages a runs explorer loads fit together, whatever the requests, the  *)
(* runs and the user do: one stretch of the query's runs without gaps or     *)
(* repetitions, and the table that says it has all of them has the last one. *)
THEOREM PagesAlwaysFit == RTSpec => []PagesFit
<1>1. RunsInv => PagesFit
  <2> SUFFICES ASSUME RunsInv PROVE LoadedWithoutGaps
    BY DEF RunsInv, PagesFit
  <2>1. ~skipped => Stretch(db, Matches(query), rawData)
    BY DEF RunsInv, StretchesLoaded
  <2> QED
    BY <2>1 DEF LoadedWithoutGaps, Stretch, Descending
<1> QED
  BY <1>1, RunsAlways, PTL

(* The steps that put rows into the table, and those that leave it alone.    *)
LEMMA TableSteps ==
  ASSUME RTTypeOK, [RTNext]_rtVars
  PROVE  \/ UNCHANGED tableData /\ (selected' = selected \/ SelectRows)
         \/ tableData' = << >>
         \/ RequestCompletes
         \/ (EditTableConfig \/ ChangeTags) /\ ProcessData(rawData)
         \/ LiveUpdateArrives /\ \E q \in sources, limit \in {PAGE, 2 * PAGE} :
              ProcessData(Take(NewestFirst(db \cap Matches(q)), limit))
<1> USE DEF pageVars, requestVars, ghosts, dbVars
<1>1. CASE Search \/ RunsRemoved \/ Reinitialize
  BY <1>1, OverStarts DEF StartsOver
<1>2. CASE GetLastRunsData
  BY <1>2 DEF GetLastRunsData, GetRunsData
<1>3. CASE EditTableConfig \/ ChangeTags
  BY <1>3 DEF EditTableConfig, ChangeTags, UpdateModelData
<1>4. CASE LiveUpdateArrives
  BY <1>4 DEF LiveUpdateArrives
<1>5. CASE SelectRows
  BY <1>5 DEF SelectRows
<1>6. ASSUME ~(Search \/ RunsRemoved \/ Reinitialize), ~GetLastRunsData, ~(EditTableConfig \/ ChangeTags),
             ~LiveUpdateArrives, ~SelectRows, ~RequestCompletes
      PROVE  UNCHANGED <<tableData, selected>>
  BY <1>6 DEF RTNext, OthersCreateRun, OthersDeleteRun, AbortRequest, ResponseBegins, RowArrives, ReaderFails,
         StreamBreaks, RequestFails, UpdateTable, SwitchLiveUpdate, rtVars
<1> QED
  BY <1>1, <1>2, <1>3, <1>4, <1>5, <1>6

(* Batch actions never work on runs the table does not show.                 *)
THEOREM ShownIsSelected == RTSpec => []SelectionIsShown
<1>1. RTInit => SelectionIsShown
  BY DEF RTInit, SelectionIsShown
<1>2. RunsInv /\ SelectionIsShown /\ [RTNext]_rtVars => SelectionIsShown'
  <2> SUFFICES ASSUME RunsInv, SelectionIsShown, [RTNext]_rtVars PROVE SelectionIsShown'
    OBVIOUS
  <2>1. ASSUME NEW rows, ProcessData(rows) PROVE SelectionIsShown'
    BY <2>1 DEF ProcessData, SelectionIsShown
  <2>2. CASE UNCHANGED tableData /\ (selected' = selected \/ SelectRows)
    BY <2>2 DEF SelectionIsShown, SelectRows
  <2>3. CASE RequestCompletes
    BY <2>3 DEF RequestCompletes, SelectionIsShown
  <2> QED
    BY <2>1, <2>2, <2>3, TableSteps DEF RunsInv, SelectionIsShown
<1> QED
  BY <1>1, <1>2, RunsAlways, PTL DEF RTSpec

(* An indicator that shows is one of a request under way, unless the code    *)
(* lost the request and left the indicator on.                               *)
THEOREM IndicatorsTell == RTSpec => []LoadingHasRequest
<1>1. RTInit => LoadingHasRequest
  <2>1. ASSUME RTInit PROVE Waiting /\ ~infinite
    BY <2>1, RunsStart DEF RTInit, FirstRequest, Waiting, NoRequest
  <2> QED
    BY <2>1 DEF LoadingHasRequest, Waiting
<1>2. RunsInv /\ LoadingHasRequest /\ [RTNext]_rtVars => LoadingHasRequest'
  <2> SUFFICES ASSUME RunsInv, LoadingHasRequest, [RTNext]_rtVars, ~failed'
               PROVE  /\ status' = "Pending" => ticking' \/ Waiting'
                      /\ infinite' => Waiting' /\ ~request'.initial
    BY DEF LoadingHasRequest, Waiting
  <2> USE DEF RunsInv
  <2>1. CASE StartsOver
    BY <2>1, AtTheStart
  <2>2. CASE GetLastRunsData
    BY <2>2, AtTheLast DEF GetLastRunsData, GetRunsData
  <2>3. CASE RequestCompletes
    BY <2>3 DEF RequestCompletes
  <2>4. CASE StreamBreaks
    BY <2>4 DEF StreamBreaks
  <2>5. CASE RequestFails
    <3>1. status' = "BadRequest" /\ infinite' = infinite /\ failed' = ~request.initial /\ Waiting
      BY <2>5, PhaseTells DEF RequestFails, pageVars
    <3>2. ~failed
      BY <3>1 DEF RequestSound
    <3> QED
      BY <3>1, <3>2 DEF LoadingHasRequest
  <2>6. CASE AbortRequest
    BY <2>6 DEF AbortRequest, RequestSound
  <2>7. ASSUME ~StartsOver, ~GetLastRunsData, ~RequestCompletes, ~StreamBreaks, ~RequestFails, ~AbortRequest
        PROVE  /\ failed' = failed
               /\ status' = "Pending" => status = "Pending"
               /\ infinite' => infinite
    <3>1. ~Search /\ ~RunsRemoved /\ ~Reinitialize
      BY <2>7, OverStarts
    <3> USE DEF RTNext, OthersCreateRun, OthersDeleteRun, ResponseBegins, RowArrives, ReaderFails, UpdateTable,
                EditTableConfig, ChangeTags, UpdateModelData, SelectRows, LiveUpdateArrives, SwitchLiveUpdate,
                rtVars, pageVars, ghosts
    <3>2. failed' = failed
      BY <2>7, <3>1
    <3>3. status' = "Pending" => status = "Pending"
      BY <2>7, <3>1
    <3>4. infinite' => infinite
      BY <2>7, <3>1
    <3> QED
      BY <3>2, <3>3, <3>4
  <2>8. ASSUME ~StartsOver, ~GetLastRunsData, ~RequestCompletes, ~StreamBreaks, ~RequestFails, ~AbortRequest
        PROVE  (Waiting' <=> Waiting) /\ (Waiting => request'.initial = request.initial)
    <3>1. ~Search /\ ~RunsRemoved /\ ~Reinitialize
      BY <2>8, OverStarts
    <3>2. CASE ResponseBegins
      BY <3>2, AtTheResponse
    <3>3. CASE RowArrives
      BY <3>3, AtARow
    <3>4. CASE ChangeTags
      <4>1. request' = IF request = NoRequest THEN NoRequest ELSE [request EXCEPT !.shared = FALSE]
        BY <3>4 DEF ChangeTags
      <4>2. ASSUME Waiting PROVE Waiting' /\ request'.initial = request.initial
        <5>1. request \in Requests /\ request' = [request EXCEPT !.shared = FALSE]
          BY <4>1, <4>2, RequestFields DEF Waiting
        <5>2. request'.initial = request.initial
          BY <5>1 DEF Requests
        <5>3. request'.phase = request.phase
          BY <5>1 DEF Requests
        <5>4. request.phase \in {"fetching", "streaming"}
          BY <4>2, RequestFields
        <5> QED
          BY <5>2, <5>3, <5>4 DEF Waiting, NoRequest
      <4> QED
        BY <4>1, <4>2 DEF Waiting
    <3>5. ASSUME ~ResponseBegins, ~RowArrives, ~ChangeTags PROVE request' = request
      BY <2>8, <3>1, <3>5 DEF RTNext, OthersCreateRun, OthersDeleteRun, ReaderFails, UpdateTable, EditTableConfig,
             SelectRows, LiveUpdateArrives, SwitchLiveUpdate, rtVars, requestVars
    <3> QED
      BY <3>2, <3>3, <3>4, <3>5 DEF Waiting
  <2>9. ASSUME ticking, ~ticking' PROVE status' # "Pending"
    BY <2>9 DEF RTNext, OthersCreateRun, OthersDeleteRun, Search, GetLastRunsData, GetRunsData, AbortRequest,
           ResponseBegins, RowArrives, RequestCompletes, ReaderFails, StreamBreaks, RequestFails,
           UpdateTable, EditTableConfig, ChangeTags, UpdateModelData, SelectRows, RunsRemoved, LiveUpdateArrives,
           SwitchLiveUpdate, Reinitialize, rtVars, pageVars
  <2>10. ASSUME ~StartsOver, ~GetLastRunsData, ~RequestCompletes, ~StreamBreaks, ~RequestFails, ~AbortRequest
         PROVE  /\ status' = "Pending" => ticking' \/ Waiting'
                /\ infinite' => Waiting' /\ ~request'.initial
    BY <2>7, <2>8, <2>9, <2>10 DEF LoadingHasRequest, Waiting
  <2> QED
    BY <2>1, <2>2, <2>3, <2>4, <2>5, <2>6, <2>10
<1> QED
  BY <1>1, <1>2, RunsAlways, PTL DEF RTSpec

(* Rows that do not match the query come with a live result of another one.  *)
THEOREM TableShowsQuery == RTSpec => OnlyLiveUpdateMixesQueries
<1>1. RunsInv /\ [RTNext]_rtVars =>
        [ \/ Range(tableData') \subseteq Matches(query')
          \/ Range(tableData') = Range(tableData)
          \/ \E q \in sources \ {query} : Range(tableData') \subseteq Matches(q) ]_rtVars
  <2> SUFFICES ASSUME RunsInv, [RTNext]_rtVars
               PROVE  \/ Range(tableData') \subseteq Matches(query')
                      \/ Range(tableData') = Range(tableData)
                      \/ \E q \in sources \ {query} : Range(tableData') \subseteq Matches(q)
    OBVIOUS
  <2> USE DEF RunsInv
  <2>1. CASE UNCHANGED tableData
    BY <2>1
  <2>2. CASE tableData' = << >>
    BY <2>2 DEF Range
  <2>3. CASE RequestCompletes
    <3>1. tableData' = request.got /\ Whole = request.got /\ query' = request.q /\ Waiting
      BY <2>3, AtTheEnd DEF RequestCompletes
    <3> QED
      BY <3>1 DEF RowsMatch, Found
  <2>4. CASE (EditTableConfig \/ ChangeTags) /\ ProcessData(rawData)
    BY <2>4 DEF EditTableConfig, ChangeTags, ProcessData, RowsMatch
  <2>5. CASE LiveUpdateArrives /\ \E q \in sources, limit \in {PAGE, 2 * PAGE} :
               ProcessData(Take(NewestFirst(db \cap Matches(q)), limit))
    <3>1. PICK q \in sources, limit \in {PAGE, 2 * PAGE} : ProcessData(Take(NewestFirst(db \cap Matches(q)), limit))
      BY <2>5
    <3>2. q \in UserQueries /\ limit \in Nat
      BY Bounds DEF RTTypeOK
    <3>3. Range(tableData') \subseteq Matches(q)
      BY <3>1, <3>2, LiveRows DEF ProcessData
    <3>4. query' = query
      BY <2>5 DEF LiveUpdateArrives
    <3> QED
      BY <3>3, <3>4
  <2> QED
    BY <2>1, <2>2, <2>3, <2>4, <2>5, TableSteps
<1> QED
  BY <1>1, RunsAlways, PTL DEF RTSpec, OnlyLiveUpdateMixesQueries

(* What an edit of the table loses was edited after the request that ends    *)
(* began, and is in localStorage.                                            *)
THEOREM EditsAreNotLost == RTSpec => EditsAreKept
<1>1. RunsInv /\ [RTNext]_rtVars =>
        [ config' < config => /\ stored' >= config
                              /\ request.phase = "streaming" /\ request.config = config' ]_rtVars
  <2> SUFFICES ASSUME RunsInv, [RTNext]_rtVars, config' < config
               PROVE  stored' >= config /\ request.phase = "streaming" /\ request.config = config'
    OBVIOUS
  <2> USE DEF RunsInv
  <2>0. config \in Nat /\ stored \in Nat /\ config <= stored
    BY DEF RTTypeOK, Saved
  <2>1. CASE RequestCompletes
    BY <2>0, <2>1 DEF RequestCompletes
  <2>2. ASSUME ~RequestCompletes PROVE config' >= config
    <3>1. CASE EditTableConfig
      BY <2>0, <3>1 DEF EditTableConfig
    <3>2. CASE Reinitialize
      BY <2>0, <3>2 DEF Reinitialize
    <3>3. ASSUME ~EditTableConfig, ~Reinitialize PROVE config' = config
      BY <2>2, <3>3 DEF RTNext, OthersCreateRun, OthersDeleteRun, Search, GetLastRunsData, GetRunsData, AbortRequest,
           ResponseBegins, RowArrives, ReaderFails, StreamBreaks, RequestFails,
           UpdateTable, ChangeTags, UpdateModelData, SelectRows, RunsRemoved, LiveUpdateArrives,
           SwitchLiveUpdate, rtVars, pageVars
    <3> QED
      BY <2>0, <3>1, <3>2, <3>3
  <2>3. config' \in Nat
    BY TypesKept DEF RTTypeOK
  <2> QED
    BY <2>0, <2>1, <2>2, <2>3
<1> QED
  BY <1>1, RunsAlways, PTL DEF RTSpec, EditsAreKept
=============================================================================
