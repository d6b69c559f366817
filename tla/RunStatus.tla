------------------------------ MODULE RunStatus ------------------------------
(***************************************************************************)
(* Which runs are alive, and which have ended: the processes that write a  *)
(* run (aim/sdk/run.py), their heartbeats (ScheduledStatusReporter), the   *)
(* progress file of its container (aim/storage/rockscontainer.pyx), and    *)
(* the status manager of `aim up` (aim/sdk/run_status_manager.py), which   *)
(* gives an end time to the runs whose process is gone.                    *)
(*                                                                         *)
(* They share files only.  What excludes a writer and the manager from     *)
(* each other is RocksDB's own lock of the container (external), taken     *)
(* when it is opened for writing.  The progress file is touched before     *)
(* that, and removed after the container is closed or was refused.         *)
(*                                                                         *)
(* One run, with at most one writer by its lock (module RunLock).  Time is *)
(* abstracted: a heartbeat that is not new may or may not be old enough.   *)
(***************************************************************************)
EXTENDS Naturals

CONSTANTS
  Writers,    \* processes that open the run for writing
  MaxOpens,   \* bound: times the run is opened
  MaxBeats    \* bound: heartbeats with an index of their own; later ones look old

Manager == "manager"
Nobody == "nobody"

ASSUME StatusAssumption ==
  /\ {MaxOpens, MaxBeats} \subseteq Nat
  /\ Writers \cap {Manager, Nobody} = {}

VARIABLES
  runLock,    \* who has the lock of the run
  db,         \* who has the meta container of the run open for writing
  progress,   \* meta/progress/<run> exists
  endTime,    \* end_time: "none", or by whom it was set, "writer" or "manager"
  beat,       \* the index of the last heartbeat among the check-ins, 0 for none
  opens,      \* how many times the run was opened
  wpc, hpc,    \* where each writer and its heartbeat thread are
  mpc,        \* where the manager is
  cached,     \* run_heartbeat_cache, 0 for no entry
  corrupted   \* the run is in _corrupted_runs

managerVars == <<mpc, cached, corrupted>>
rsVars == <<runLock, db, progress, endTime, beat, opens, wpc, hpc, managerVars>>

RSInit ==
  /\ runLock = Nobody /\ db = Nobody
  /\ progress = FALSE /\ endTime = "none" /\ beat = 0 /\ opens = 0
  /\ wpc = [w \in Writers |-> "down"] /\ hpc = [w \in Writers |-> "off"]
  /\ mpc = "idle" /\ cached = 0 /\ corrupted = FALSE

WriterGoto(w, label) == wpc' = [wpc EXCEPT ![w] = label]
BeatGoto(w, label) == hpc' = [hpc EXCEPT ![w] = label]

-----------------------------------------------------------------------------
(* BaseRun.__init__: the lock of the run ... *)
Open(w) ==
  /\ wpc[w] = "down" /\ runLock = Nobody
  /\ opens < MaxOpens
  /\ opens' = opens + 1
  /\ runLock' = w
  /\ WriterGoto(w, "locked")
  /\ UNCHANGED <<db, progress, endTime, beat, hpc, managerVars>>

(* ... then its container: RocksContainer.__init__ touches the progress *)
(* file before it opens the database.                                   *)
TouchProgress(w) ==
  /\ wpc[w] = "locked"
  /\ progress' = TRUE
  /\ WriterGoto(w, "touched")
  /\ UNCHANGED <<runLock, db, endTime, beat, opens, hpc, managerVars>>

OpenDb(w) ==
  /\ wpc[w] = "touched"
  /\ IF db = Nobody
     THEN db' = w /\ WriterGoto(w, "opened")
     ELSE WriterGoto(w, "refused") /\ UNCHANGED db
  /\ UNCHANGED <<runLock, progress, endTime, beat, opens, hpc, managerVars>>

(* The exception leaves Run(): the container's AutoClean removes the *)
(* progress file, and the lock goes.                                 *)
Refused(w) ==
  /\ wpc[w] = "refused"
  /\ progress' = FALSE
  /\ runLock' = Nobody
  /\ WriterGoto(w, "down")
  /\ UNCHANGED <<db, endTime, beat, opens, hpc, managerVars>>

(* BasicRun.__init__: the heartbeat thread, and then end_time. *)
StartHeartbeat(w) ==
  /\ wpc[w] = "opened"
  /\ WriterGoto(w, "booting")
  /\ BeatGoto(w, "first")
  /\ UNCHANGED <<runLock, db, progress, endTime, beat, opens, managerVars>>

Begin_EndTimeKept(w) ==
  /\ wpc[w] = "booting"
  /\ WriterGoto(w, "running")
  /\ UNCHANGED <<runLock, db, progress, endTime, beat, opens, hpc, managerVars>>

Begin(w) ==
  /\ wpc[w] = "booting"
  /\ endTime' = "none"
  /\ WriterGoto(w, "running")
  /\ UNCHANGED <<runLock, db, progress, beat, opens, hpc, managerVars>>

(* BasicRunAutoClean._close: end_time, the stop of the heartbeats, ... *)
End(w) ==
  /\ wpc[w] = "running"
  /\ endTime' = "writer"
  /\ WriterGoto(w, "ending")
  /\ UNCHANGED <<runLock, db, progress, beat, opens, hpc, managerVars>>

(* ... the release of the lock of the run, ... *)
ReleaseLock(w) ==
  /\ wpc[w] = "ending" /\ hpc[w] = "off"
  /\ runLock' = Nobody
  /\ WriterGoto(w, "released")
  /\ UNCHANGED <<db, progress, endTime, beat, opens, hpc, managerVars>>

(* ... and when the Run object is gone, RocksAutoClean._close: first the *)
(* database, then the progress file.                                     *)
CloseDb(w) ==
  /\ wpc[w] = "released"
  /\ db' = Nobody
  /\ WriterGoto(w, "closing")
  /\ UNCHANGED <<runLock, progress, endTime, beat, opens, hpc, managerVars>>

RemoveProgress(w) ==
  /\ wpc[w] = "closing"
  /\ progress' = FALSE
  /\ WriterGoto(w, "down")
  /\ UNCHANGED <<runLock, db, endTime, beat, opens, hpc, managerVars>>

(* The process dies; its stalled lock is taken over, see RunLock. *)
WriterDies(w) ==
  /\ wpc[w] # "down"
  /\ WriterGoto(w, "down") /\ BeatGoto(w, "off")
  /\ runLock' = IF runLock = w THEN Nobody ELSE runLock
  /\ db' = IF db = w THEN Nobody ELSE db
  /\ UNCHANGED <<progress, endTime, beat, opens, managerVars>>

-----------------------------------------------------------------------------
(* ScheduledStatusReporter._run: a heartbeat at once, ... *)
NextBeat == beat' = IF beat < MaxBeats THEN beat + 1 ELSE beat

FirstBeat(w) ==
  /\ hpc[w] = "first"
  /\ NextBeat
  /\ BeatGoto(w, "waiting")
  /\ UNCHANGED <<runLock, db, progress, endTime, opens, wpc, managerVars>>

(* ... one after each interval, and a last one when it is stopped. *)
Beat(w) ==
  /\ hpc[w] = "waiting"
  /\ NextBeat
  /\ BeatGoto(w, IF wpc[w] = "ending" THEN "touchLast" ELSE "touch")
  /\ UNCHANGED <<runLock, db, progress, endTime, opens, wpc, managerVars>>

Touched == TRUE

(* touch_path.touch: the progress file is there again if it was removed. *)
TouchPath(w) ==
  /\ hpc[w] \in {"touch", "touchLast"}
  /\ progress' = Touched
  /\ BeatGoto(w, IF hpc[w] = "touch" THEN "waiting" ELSE "off")
  /\ UNCHANGED <<runLock, db, endTime, beat, opens, wpc, managerVars>>

-----------------------------------------------------------------------------
(* check_and_terminate_stalled_runs: a run with a progress file. *)
Scan ==
  /\ mpc = "idle"
  /\ progress /\ ~corrupted
  /\ mpc' = "look"
  /\ UNCHANGED <<runLock, db, progress, endTime, beat, opens, wpc, hpc, cached, corrupted>>

NewHeartbeat_OrSame == cached = 0 \/ beat >= cached

(* The first heartbeat seen of the run, or a newer one. *)
NewHeartbeat == cached = 0 \/ beat > cached

(* _is_run_stalled: there is no heartbeat, or it is the one of the last *)
(* time and enough time has passed since.                               *)
Look(elapsed) ==
  /\ mpc = "look"
  /\ \/ beat = 0 /\ mpc' = "stalled" /\ UNCHANGED cached
     \/ beat > 0 /\ NewHeartbeat /\ cached' = beat /\ mpc' = "idle"
     \/ /\ beat > 0 /\ ~NewHeartbeat
        /\ mpc' = IF elapsed THEN "stalled" ELSE "idle"
        /\ UNCHANGED cached
  /\ UNCHANGED <<runLock, db, progress, endTime, beat, opens, wpc, hpc, corrupted>>

(* _mark_run_as_terminated opens the container like any writer, ... *)
ManagerTouches ==
  /\ mpc = "stalled"
  /\ progress' = TRUE
  /\ mpc' = "touched"
  /\ UNCHANGED <<runLock, db, endTime, beat, opens, wpc, hpc, cached, corrupted>>

(* ... and never looks at the run again if it is in use. *)
ManagerOpens ==
  /\ mpc = "touched"
  /\ IF db = Nobody
     THEN db' = Manager /\ mpc' = "opened" /\ UNCHANGED corrupted
     ELSE corrupted' = TRUE /\ mpc' = "closed" /\ UNCHANGED db
  /\ UNCHANGED <<runLock, progress, endTime, beat, opens, wpc, hpc, cached>>

Ended_Always == "manager"

(* Only a run without an end time gets one. *)
Ended == IF endTime = "none" THEN "manager" ELSE endTime

ManagerEnds ==
  /\ mpc = "opened"
  /\ endTime' = Ended
  /\ mpc' = "ended"
  /\ UNCHANGED <<runLock, db, progress, beat, opens, wpc, hpc, cached, corrupted>>

ManagerUnlinks ==
  /\ mpc = "ended"
  /\ progress' = FALSE
  /\ mpc' = "unlinked"
  /\ UNCHANGED <<runLock, db, endTime, beat, opens, wpc, hpc, cached, corrupted>>

ManagerCloses ==
  /\ mpc = "unlinked"
  /\ db' = Nobody
  /\ mpc' = "closed"
  /\ UNCHANGED <<runLock, progress, endTime, beat, opens, wpc, hpc, cached, corrupted>>

(* The AutoClean of its container, which was closed or refused, removes the *)
(* progress file, also that of a writer that has the run.                    *)
ManagerCleans ==
  /\ mpc = "closed"
  /\ progress' = FALSE
  /\ mpc' = "idle"
  /\ UNCHANGED <<runLock, db, endTime, beat, opens, wpc, hpc, cached, corrupted>>

-----------------------------------------------------------------------------
WriterStep(w) ==
  \/ Open(w) \/ TouchProgress(w) \/ OpenDb(w) \/ Refused(w)
  \/ StartHeartbeat(w) \/ Begin(w)
  \/ End(w) \/ ReleaseLock(w) \/ CloseDb(w) \/ RemoveProgress(w)
  \/ WriterDies(w)

HeartbeatStep(w) == FirstBeat(w) \/ Beat(w) \/ TouchPath(w)

ManagerStep ==
  \/ Scan \/ (\E elapsed \in BOOLEAN : Look(elapsed))
  \/ ManagerTouches \/ ManagerOpens \/ ManagerEnds
  \/ ManagerUnlinks \/ ManagerCloses \/ ManagerCleans

RSNext == (\E w \in Writers : WriterStep(w) \/ HeartbeatStep(w)) \/ ManagerStep

RSSpec == RSInit /\ [][RSNext]_rsVars

(* The heartbeat threads and the manager's thread run, and time passes; a  *)
(* writer need not open the run, nor close it.                             *)
RSFairSpec ==
  /\ RSSpec
  /\ \A w \in Writers : WF_rsVars(HeartbeatStep(w))
  /\ WF_rsVars(ManagerStep)
  /\ SF_rsVars(Look(TRUE))

-----------------------------------------------------------------------------
(* Whoever is between opening and closing the container has it. *)
WriterHasDb(w) == wpc[w] \in {"opened", "booting", "running", "ending", "released"}
ManagerHasDb == mpc \in {"opened", "ended", "unlinked"}

RSTypeOK ==
  /\ runLock \in Writers \cup {Nobody}
  /\ db \in Writers \cup {Manager, Nobody}
  /\ {progress, corrupted} \subseteq BOOLEAN
  /\ endTime \in {"none", "writer", "manager"}
  /\ {beat, opens, cached} \subseteq Nat
  /\ wpc \in [Writers -> {"down", "locked", "touched", "refused", "opened", "booting", "running",
                         "ending", "released", "closing"}]
  /\ hpc \in [Writers -> {"off", "first", "waiting", "touch", "touchLast"}]
  /\ mpc \in {"idle", "look", "stalled", "touched", "opened", "ended", "unlinked", "closed"}
  /\ \A w \in Writers : db = w <=> WriterHasDb(w)
  /\ db = Manager <=> ManagerHasDb

(* A run that a process is writing has no end time, however late its       *)
(* heartbeats, and although the manager found it stalled before it was     *)
(* opened again.                                                           *)
LiveHasNoEnd == \A w \in Writers : wpc[w] = "running" => endTime = "none"

(* The end time a run has written itself is kept by a manager that found   *)
(* the run stalled before it was closed.                                   *)
ClosedEndKept == [][endTime = "writer" => endTime' # "manager"]_rsVars

Dead == \A w \in Writers : wpc[w] = "down"

(* A run whose process is gone gets an end time and loses its progress     *)
(* file, unless the manager met it in use before and ignores it since, or  *)
(* is only now cleaning up after the run's former life, with its file.     *)
DeadRunSettled ==
  (Dead /\ progress /\ ~corrupted /\ mpc = "idle") ~> ((endTime # "none" /\ ~progress) \/ ~Dead)

(* A run that is written regains the progress file that the AutoClean of   *)
(* another container has taken from it.                                     *)
LiveRunMarked ==
  \A w \in Writers : (wpc[w] = "running" /\ ~progress) ~> (progress \/ wpc[w] # "running")

(* Runs settle: a dead one is ended, a live one is marked as such.         *)
RunsSettle == DeadRunSettled /\ LiveRunMarked
=============================================================================
