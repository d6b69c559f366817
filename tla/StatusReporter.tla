--------------------------- MODULE StatusReporter ---------------------------
(***************************************************************************)
(* The check-ins by which a run tells that it is alive                     *)
(* (aim/sdk/reporter/__init__.py and file_manager.py).  Callers number a   *)
(* check-in and schedule it under reporter_lock; one writer thread takes   *)
(* timed tasks off a priority queue and writes the latest check-in of      *)
(* their flag to the file system.  last_check_ins, physical_check_ins and  *)
(* timed_tasks are shared with the writer and no lock covers its accesses. *)
(*                                                                         *)
(* Time is abstracted: a task is due as soon as possible (when = 0) or     *)
(* later, a later one may or may not have come due when the writer looks,  *)
(* and a new check-in may or may not be stricter than a later task.  A     *)
(* step is an access to the file system or to one of the shared            *)
(* dictionaries with what follows from it; Condition.notify without a      *)
(* waiter is lost.                                                         *)
(***************************************************************************)
EXTENDS Integers, FiniteSets, FiniteSetsExt

CONSTANTS
  Callers,    \* threads that call the reporter
  Main,       \* the one that creates it
  Flags,      \* flag names
  Starting,   \* the flag `starting`
  MaxIdx,     \* bound: check-ins numbered, over all starts
  MaxStarts,  \* bound: times the run is opened
  Modes,      \* of "async", "flush" and "block": the calls of check_in made
  MayStop     \* TRUE: stop() may be called

ASSUME ReporterAssumption ==
  /\ Main \in Callers
  /\ Starting \in Flags /\ IsFiniteSet(Flags)
  /\ {MaxIdx, MaxStarts} \subseteq Nat
  /\ Modes \subseteq {"async", "flush", "block"}
  /\ MayStop \in BOOLEAN

(* A TimedTask: `num` tells apart the objects of one flag that are alive. *)
Task == [flag : Flags, num : Nat, asap : BOOLEAN]

NoTask == [none |-> TRUE]
NoOne == "no one"

VARIABLES
  disk,     \* the indices of the check-in files of each flag
  life,     \* "down", "booting" (in __init__), "up" or "closed"
  starts,   \* how many times the run was opened
  counter, last, phys, timed, queue,   \* the fields of the reporter; 0 for no check-in
  over,     \* the tasks with overwritten = True that are still around
  stop,     \* stop_signal
  owner,    \* who holds reporter_lock
  pc, call, \* where each caller is, and the arguments of its call
  wpc,      \* where the writer is
  nap,      \* the writer's `remaining` is MAX_SUSPEND_TIME
  hand,     \* the writer's timed_task
  seen      \* the index of the check-in it read in _touch_flag

apiVars == <<life, starts, counter, last, stop, owner, pc, call>>
writerVars == <<disk, phys, nap, hand, seen>>
vars == <<apiVars, writerVars, timed, queue, over, wpc>>

NoCall == [flag |-> Starting, mode |-> "async", idx |-> 0]

Memory ==
  [last |-> [f \in Flags |-> 0], timed |-> [f \in Flags |-> NoTask], pc |-> [p \in Callers |-> "out"]]

Init ==
  /\ disk = [f \in Flags |-> {}]
  /\ life = "down" /\ starts = 0 /\ counter = 0
  /\ last = Memory.last /\ phys = Memory.last /\ timed = Memory.timed
  /\ queue = {} /\ over = {} /\ stop = FALSE /\ owner = NoOne
  /\ pc = Memory.pc /\ call = [p \in Callers |-> NoCall]
  /\ wpc = "exited" /\ nap = FALSE /\ hand = NoTask /\ seen = 0

-----------------------------------------------------------------------------
Alive(f) == {t \in queue \cup {hand} \cup {timed[f]} : t # NoTask /\ t.flag = f}

New(f, asap) ==
  LET used == {t.num : t \in Alive(f)}
  IN  [flag |-> f, num |-> CHOOSE n \in 1..(Cardinality(used) + 1) :
                             n \notin used /\ \A m \in 1..(n - 1) : m \in used,
       asap |-> asap]

(* _schedule and the notify of refresh_condition, for the flags of `fs`. *)
Schedule(fs, asap) ==
  /\ timed' = [f \in Flags |-> IF f \in fs THEN New(f, asap) ELSE timed[f]]
  /\ queue' = queue \cup {New(f, asap) : f \in fs}

WakeWriter == wpc' = IF wpc = "asleep" THEN "get" ELSE wpc

(* CheckIn.poll: the highest index among the files of the run. *)
Leftover_OfStarting == Max({0} \cup disk[Starting])

Leftover == Max({0} \cup UNION {disk[f] : f \in Flags})

(* RunStatusReporter.__init__ until its flush(block=True). *)
Start ==
  /\ life \in {"down", "closed"}
  /\ starts < MaxStarts /\ Leftover < MaxIdx
  /\ starts' = starts + 1
  /\ life' = "booting"
  /\ counter' = Leftover + 1
  /\ last' = [Memory.last EXCEPT ![Starting] = Leftover + 1]
  /\ LET t == [flag |-> Starting, num |-> 1, asap |-> TRUE]
     IN  timed' = [Memory.timed EXCEPT ![Starting] = t] /\ queue' = {t}
  /\ pc' = [Memory.pc EXCEPT ![Main] = "flush"]
  /\ call' = [p \in Callers |->
                IF p = Main THEN [flag |-> Starting, mode |-> "block", idx |-> Leftover + 1] ELSE NoCall]
  /\ owner' = Main /\ stop' = FALSE /\ over' = {} /\ phys' = Memory.last
  /\ wpc' = "top" /\ nap' = FALSE /\ hand' = NoTask /\ seen' = 0
  /\ UNCHANGED disk

(* The process dies: the files stay. *)
Crash ==
  /\ life \in {"booting", "up"}
  /\ life' = "down"
  /\ counter' = 0 /\ last' = Memory.last /\ phys' = Memory.last /\ timed' = Memory.timed
  /\ queue' = {} /\ over' = {} /\ stop' = FALSE /\ owner' = NoOne
  /\ pc' = Memory.pc /\ call' = [p \in Callers |-> NoCall]
  /\ wpc' = "exited" /\ nap' = FALSE /\ hand' = NoTask /\ seen' = 0
  /\ UNCHANGED <<disk, starts>>

-----------------------------------------------------------------------------
(* _check_in: stop_signal is tested before reporter_lock is taken. *)
CheckIn(p, f, mode) ==
  /\ life = "up" /\ pc[p] = "out"
  /\ ~stop
  /\ counter < MaxIdx
  /\ pc' = [pc EXCEPT ![p] = "checked"]
  /\ call' = [call EXCEPT ![p] = [flag |-> f, mode |-> mode, idx |-> 0]]
  /\ UNCHANGED <<life, starts, counter, last, stop, owner, writerVars, timed, queue, over, wpc>>

(* _increment: the index, and the check-in in last_check_ins. *)
Number(p) ==
  /\ pc[p] = "checked" /\ owner = NoOne
  /\ counter < MaxIdx
  /\ owner' = p
  /\ counter' = counter + 1
  /\ last' = [last EXCEPT ![call[p].flag] = counter + 1]
  /\ call' = [call EXCEPT ![p].idx = counter + 1]
  /\ pc' = [pc EXCEPT ![p] = "numbered"]
  /\ UNCHANGED <<life, starts, stop, writerVars, timed, queue, over, wpc>>

(* The call is over, or goes on. *)
Return(p) ==
  pc' = [pc EXCEPT ![p] = "out"] /\ owner' = NoOne /\ call' = [call EXCEPT ![p] = NoCall]

GoOn(p, label) == pc' = [pc EXCEPT ![p] = label] /\ UNCHANGED <<owner, call>>

NeedsTask_Stricter(f, stricter) == timed[f] # NoTask /\ ~timed[f].asap /\ stricter

(* _increment: nothing is scheduled for the flag, or it is scheduled for a *)
(* time after the new check-in expires.                                     *)
NeedsTask(f, stricter) == timed[f] = NoTask \/ (~timed[f].asap /\ stricter)

(* _increment: a task to flush as soon as possible replaces the later one. *)
Reschedule(p, stricter) ==
  LET f == call[p].flag
  IN  /\ pc[p] = "numbered"
      /\ IF NeedsTask(f, stricter)
         THEN /\ Schedule({f}, TRUE)
              /\ over' = over \cup ({timed[f]} \cap (queue \cup ({hand} \ {NoTask})))
              /\ WakeWriter
         ELSE UNCHANGED <<timed, queue, over, wpc>>
      /\ IF call[p].mode = "async" THEN Return(p) ELSE GoOn(p, "flush")
      /\ UNCHANGED <<life, starts, counter, last, stop, writerVars>>

(* flush, in the critical section of flush_condition: a new task for every *)
(* flag in timed_tasks, a notify for the writer, and the wait.             *)
Flush(p) ==
  /\ pc[p] = "flush"
  /\ Schedule({f \in Flags : timed[f] # NoTask}, TRUE)
  /\ WakeWriter
  /\ IF call[p].mode = "flush" THEN Return(p) ELSE GoOn(p, "waiting")
  /\ UNCHANGED <<life, starts, counter, last, stop, writerVars, over>>

(* stop: takes reporter_lock, sets stop_signal, flushes and joins. *)
Stop(p) ==
  /\ MayStop /\ life = "up" /\ pc[p] = "out" /\ owner = NoOne
  /\ ~stop
  /\ stop' = TRUE
  /\ owner' = p
  /\ call' = [call EXCEPT ![p] = [flag |-> Starting, mode |-> "stop", idx |-> 0]]
  /\ pc' = [pc EXCEPT ![p] = "flush"]
  /\ UNCHANGED <<life, starts, counter, last, writerVars, timed, queue, over, wpc>>

Joined(p) ==
  /\ pc[p] = "join" /\ wpc = "exited"
  /\ Return(p)
  /\ life' = "closed"
  /\ UNCHANGED <<starts, counter, last, stop, writerVars, timed, queue, over, wpc>>

-----------------------------------------------------------------------------
(* The writer enters refresh_condition.wait(timeout=remaining) ... *)
Sleep ==
  /\ wpc = "top"
  /\ wpc' = IF nap THEN "asleep" ELSE "get"
  /\ UNCHANGED <<apiVars, writerVars, timed, queue, over>>

(* ... and leaves it at the timeout, unless it is notified before. *)
Timeout ==
  /\ wpc = "asleep"
  /\ wpc' = "get"
  /\ UNCHANGED <<apiVars, writerVars, timed, queue, over>>

Get ==
  /\ wpc = "get"
  /\ \/ queue = {} /\ wpc' = "clean" /\ UNCHANGED <<hand, queue>>
     \/ \E t \in queue : /\ t.asap \/ \A u \in queue : ~u.asap
                         /\ hand' = t /\ queue' = queue \ {t} /\ wpc' = "got"
  /\ UNCHANGED <<apiVars, disk, phys, nap, seen, timed, over>>

(* An overwritten task is skipped; another is due, or too soon. *)
Inspect(due) ==
  /\ wpc = "got"
  /\ IF hand \in over
     THEN wpc' = "top" /\ hand' = NoTask /\ over' = over \ {hand}
     ELSE wpc' = (IF hand.asap \/ due THEN "touch" ELSE "putback") /\ UNCHANGED <<hand, over>>
  /\ UNCHANGED <<apiVars, disk, phys, nap, seen, timed, queue>>

PutBack ==
  /\ wpc = "putback"
  /\ timed' = [timed EXCEPT ![hand.flag] = hand]
  /\ queue' = queue \cup {hand}
  /\ hand' = NoTask
  /\ wpc' = "clean"
  /\ UNCHANGED <<apiVars, disk, phys, nap, seen, over>>

(* _touch_flag: the latest check-in of the flag is on disk already, or its *)
(* file is created.                                                         *)
Touch ==
  LET f == hand.flag
  IN  /\ wpc = "touch"
      /\ seen' = last[f]
      /\ IF phys[f] = last[f]
         THEN wpc' = "pop" /\ UNCHANGED disk
         ELSE wpc' = "cleanup" /\ disk' = [disk EXCEPT ![f] = @ \cup {last[f]}]
      /\ UNCHANGED <<apiVars, phys, nap, hand, timed, queue, over>>

(* Done with the task: look for the next one at once. *)
TaskDone ==
  wpc' = "top" /\ nap' = FALSE /\ hand' = NoTask /\ seen' = 0 /\ over' = over \ {hand}

(* The flag is not scheduled any more. *)
Pop ==
  /\ wpc = "pop"
  /\ timed' = [timed EXCEPT ![hand.flag] = NoTask]
  /\ TaskDone
  /\ UNCHANGED <<apiVars, disk, phys, queue>>

Kept_Lowest(files) == {Min(files)}

(* _cleanup keeps the last of the sorted files of the flag. *)
Kept(files) == {Max(files)}

(* _cleanup, physical_check_ins, and a task for the next flush. *)
Record ==
  LET f == hand.flag
  IN  /\ wpc = "cleanup"
      /\ disk' = [disk EXCEPT ![f] = Kept(@)]
      /\ phys' = [phys EXCEPT ![f] = seen]
      /\ Schedule({f}, FALSE)
      /\ TaskDone
      /\ UNCHANGED apiVars

Clean_Silent ==
  /\ wpc = "clean"
  /\ nap' = TRUE
  /\ wpc' = "stopping"
  /\ UNCHANGED <<apiVars, disk, phys, hand, seen, timed, queue, over>>

(* Nothing to write: flush_condition is notified. *)
Clean ==
  /\ wpc = "clean"
  /\ nap' = TRUE
  /\ wpc' = "stopping"
  /\ IF \E p \in Callers : pc[p] = "waiting"
     THEN \E p \in Callers :
            /\ pc[p] = "waiting"
            /\ IF call[p].mode = "stop"
               THEN GoOn(p, "join") /\ UNCHANGED life
               ELSE Return(p) /\ life' = "up"
     ELSE UNCHANGED <<pc, call, owner, life>>
  /\ UNCHANGED <<starts, counter, last, stop, disk, phys, hand, seen, timed, queue, over>>

(* The test of stop_signal, after it. *)
TestStop ==
  /\ wpc = "stopping"
  /\ wpc' = IF stop THEN "exited" ELSE "top"
  /\ UNCHANGED <<apiVars, writerVars, timed, queue, over>>

-----------------------------------------------------------------------------
CallerStep(p) == \/ Number(p) \/ (\E stricter \in BOOLEAN : Reschedule(p, stricter))
                 \/ Flush(p) \/ Joined(p)

WriterStep == \/ Sleep \/ Timeout \/ Get \/ (\E due \in BOOLEAN : Inspect(due))
              \/ PutBack \/ Touch \/ Pop \/ Record \/ Clean \/ TestStop

Next ==
  \/ Start
  \/ Crash
  \/ \E p \in Callers : \/ \E f \in Flags, mode \in Modes : CheckIn(p, f, mode)
                        \/ Stop(p)
                        \/ CallerStep(p)
  \/ WriterStep

Spec == Init /\ [][Next]_vars

(* The threads run, timeouts expire, and a task comes due in the end. *)
FairSpec ==
  /\ Spec
  /\ \A p \in Callers : WF_vars(CallerStep(p))
  /\ WF_vars(WriterStep)
  /\ SF_vars(Inspect(TRUE))

-----------------------------------------------------------------------------
TypeOK ==
  /\ disk \in [Flags -> SUBSET (1..MaxIdx)]
  /\ life \in {"down", "booting", "up", "closed"}
  /\ starts \in 0..MaxStarts
  /\ counter \in 0..MaxIdx
  /\ {last, phys} \subseteq [Flags -> 0..MaxIdx]
  /\ \A f \in Flags : timed[f] = NoTask \/ (timed[f] \in Task /\ timed[f].flag = f)
  /\ queue \subseteq Task /\ over \subseteq Task
  /\ {stop, nap} \subseteq BOOLEAN
  /\ owner \in Callers \cup {NoOne}
  /\ pc \in [Callers -> {"out", "checked", "numbered", "flush", "waiting", "join"}]
  /\ call \in [Callers -> [flag : Flags, mode : Modes \cup {"async", "block", "stop"}, idx : 0..MaxIdx]]
  /\ wpc \in {"top", "asleep", "get", "got", "putback", "touch", "pop", "cleanup", "clean",
              "stopping", "exited"}
  /\ IF wpc \in {"got", "putback", "touch", "pop", "cleanup"} THEN hand \in Task ELSE hand = NoTask
  /\ seen \in 0..MaxIdx

(* What a monitor sees of a flag never goes back: the newest file is never *)
(* removed, by the clean-up or by a crash in the middle of it.             *)
NewestKept == [][\A f \in Flags : Max({0} \cup disk[f]) <= Max({0} \cup disk'[f])]_vars

(* An index is one check-in: a run that is opened again goes on above      *)
(* every index on disk, whichever flag has the highest.                    *)
IndicesUnique ==
  /\ \A f, g \in Flags : f # g => disk[f] \cap disk[g] = {}
  /\ life = "up" => \A f \in Flags : \A i \in disk[f] : i <= counter

(* The file of a check-in the writer holds for written is there.           *)
PhysicalIsOnDisk == \A f \in Flags : phys[f] > 0 => \E i \in disk[f] : i >= phys[f]

(* The task of f will be looked at: it is queued, or the writer has it.    *)
Pending(f) == \E t \in queue \cup {hand} : t # NoTask /\ t.flag = f /\ t \notin over

Numbering(f) == \E p \in Callers : pc[p] = "numbered" /\ call[p].flag = f

(* A flag that was reported and not written yet, such as `finished`, has a *)
(* task that no race of _increment with the writer takes away.             *)
FirstReportPending ==
  \A f \in Flags : last[f] > 0 /\ phys[f] = 0 => Numbering(f) \/ Pending(f)

(* The four dictionaries, the queue and the files agree at every step of   *)
(* the callers and the writer.                                             *)
CheckInsAgree == TypeOK /\ IndicesUnique /\ PhysicalIsOnDisk /\ FirstReportPending

(* Such a check-in is in the end written, unless the reporter is stopped   *)
(* or the process dies.                                                    *)
FirstReportWritten ==
  \A f \in Flags : (last[f] > 0 /\ phys[f] = 0) ~> (phys[f] > 0 \/ stop \/ last[f] = 0)

(* "If `block` is True, then this will block until the check-in is         *)
(* flushed": when such a call returns, the check-in is on disk.            *)
BlocksUntilFlushed ==
  [][\A p \in Callers : pc[p] = "waiting" /\ pc'[p] = "out" /\ life' = "up"
                          => phys[call[p].flag] >= call[p].idx]_vars

(* stop() "stops the background thread": it does not wait for a flush that *)
(* the writer, gone already, will never do.                                *)
WriterOutlivesWaiters == wpc = "exited" => \A p \in Callers : pc[p] # "waiting"

(* A blocked call returns unless the reporter is stopped meanwhile: a      *)
(* notification that is lost is made up for by the writer's timeout.       *)
BlockedCallReturns == \A p \in Callers : (pc[p] = "waiting") ~> (pc[p] # "waiting" \/ stop)
=============================================================================
