---------------------------- MODULE RequestQueue ----------------------------
(***************************************************************************)
(* The client side of Aim's remote tracking: the queue that turns the     *)
(* write instructions of a training process into calls to the tracking    *)
(* server (aim/ext/transport/request_queue.py).                           *)
(*                                                                         *)
(* Threads: the producers (any thread that tracks a value, and the        *)
(* check-in writer of a remote run), the one worker thread of the queue,  *)
(* and the thread that closes the repository at exit.  A step is a         *)
(* critical section of the queue's mutex, or a read or a write made        *)
(* outside of it.  `not_full`, `not_empty` and `mutex` of queue.Queue are   *)
(* one lock, so a step under any of them is atomic.                        *)
(*                                                                         *)
(* A call of task_f is one step here, with its outcome chosen from         *)
(* Outcomes; module RemoteTracking replaces it by the message exchange.    *)
(***************************************************************************)
EXTENDS Integers, Sequences, FiniteSets, SequencesExt, FiniteSetsExt

CONSTANTS
  Producers,    \* threads that call register_task
  MaxTasks,     \* bound: tasks a producer registers
  SizesOf,      \* SizesOf[p]: sizes in bytes an encoded task of p may have
  MaxMemory,    \* max_memory_usage
  RetryCount,   \* retry_count
  Outcomes      \* what a call of task_f may do: "ok", "closed", "raised"

ASSUME QueueAssumption ==
  /\ Producers # {} /\ IsFiniteSet(Producers)
  /\ MaxTasks \in Nat
  /\ \A p \in Producers : SizesOf[p] \subseteq Nat
  /\ MaxMemory \in Nat
  /\ RetryCount \in Nat \ {0}
  /\ Outcomes \subseteq {"ok", "closed", "raised"}

Sizes == UNION {SizesOf[p] : p \in Producers}

(* A task: the num-th one of its owner, of `size` bytes once encoded. *)
Task == [owner : Producers, num : 1..MaxTasks, size : Sizes]

NoTask == [none |-> TRUE]

VARIABLES
  queue,            \* _queue.queue
  unfinished,       \* _queue.unfinished_tasks
  mem,              \* current_memory_usage
  shutdown,         \* _shutdown
  needsReconnect,   \* _needs_reconnect
  ppc,              \* where each producer is
  ptask,            \* the task each producer is registering
  produced,         \* how many tasks each producer has built
  wpc,              \* where the worker is
  wtask,            \* the task in the worker's hands
  retry,            \* `retry` of _try_exec_task
  cpc,              \* where the closing thread is
  accepted,         \* history: the tasks in the order they were put
  delivered,        \* history: the tasks whose call returned
  stopMark          \* history: Len(accepted) when stop() was entered

producerVars == <<ppc, ptask, produced>>
workerVars == <<wpc, wtask, retry, needsReconnect>>
historyVars == <<accepted, delivered, stopMark>>
vars == <<queue, unfinished, mem, shutdown, producerVars, workerVars, cpc, historyVars>>

-----------------------------------------------------------------------------
Init ==
  /\ queue = <<>>
  /\ unfinished = 0
  /\ mem = 0
  /\ shutdown = FALSE
  /\ needsReconnect = FALSE
  /\ ppc = [p \in Producers |-> "idle"]
  /\ ptask = [p \in Producers |-> NoTask]
  /\ produced = [p \in Producers |-> 0]
  /\ wpc = "loop"
  /\ wtask = NoTask
  /\ retry = 0
  /\ cpc = "open"
  /\ accepted = <<>>
  /\ delivered = <<>>
  /\ stopMark = 0

-----------------------------------------------------------------------------
(* register_task: the test of _shutdown, outside of any lock. *)
RegisterTask(p, size) ==
  /\ ppc[p] = "idle"
  /\ produced[p] < MaxTasks
  /\ ~shutdown
  /\ produced' = [produced EXCEPT ![p] = @ + 1]
  /\ ptask' = [ptask EXCEPT ![p] = [owner |-> p, num |-> produced[p] + 1, size |-> size]]
  /\ ppc' = [ppc EXCEPT ![p] = "checked"]
  /\ UNCHANGED <<queue, unfinished, mem, shutdown, workerVars, cpc, historyVars>>

(* register_task after stop: the task is dropped, the caller is not told. *)
DropTask(p) ==
  /\ ppc[p] = "idle"
  /\ produced[p] < MaxTasks
  /\ shutdown
  /\ produced' = [produced EXCEPT ![p] = @ + 1]
  /\ UNCHANGED <<queue, unfinished, mem, shutdown, ppc, ptask, workerVars, cpc, historyVars>>

Full(p) == mem + ptask[p].size >= MaxMemory

(* The loop under not_full: one test of the limit, on entry or once woken. *)
TestLimit(p) ==
  /\ ppc[p] \in {"checked", "woken"}
  /\ ppc' = [ppc EXCEPT ![p] = IF Full(p) THEN "waiting" ELSE "admitted"]
  /\ UNCHANGED <<queue, unfinished, mem, shutdown, ptask, produced, workerVars, cpc, historyVars>>

(* The separate critical section that accounts for the task. *)
Charge(p) ==
  /\ ppc[p] = "admitted"
  /\ mem' = mem + ptask[p].size
  /\ ppc' = [ppc EXCEPT ![p] = "charged"]
  /\ UNCHANGED <<queue, unfinished, shutdown, ptask, produced, workerVars, cpc, historyVars>>

Put(p) ==
  /\ ppc[p] = "charged"
  /\ queue' = Append(queue, ptask[p])
  /\ unfinished' = unfinished + 1
  /\ accepted' = Append(accepted, ptask[p])
  /\ ptask' = [ptask EXCEPT ![p] = NoTask]
  /\ ppc' = [ppc EXCEPT ![p] = "idle"]
  /\ UNCHANGED <<mem, shutdown, produced, workerVars, cpc, delivered, stopMark>>

AllDone_QueueEmpty == queue = <<>>

(* What Queue.join waits for. *)
AllDone == unfinished = 0

(* wait_for_finish by a producer: before each read instruction and before *)
(* a resource is released.                                                 *)
WaitForFinish(p) ==
  /\ ppc[p] = "idle"
  /\ ppc' = [ppc EXCEPT ![p] = "joining"]
  /\ UNCHANGED <<queue, unfinished, mem, shutdown, ptask, produced, workerVars, cpc, historyVars>>

Finished(p) ==
  /\ ppc[p] = "joining"
  /\ AllDone
  /\ ppc' = [ppc EXCEPT ![p] = "idle"]
  /\ UNCHANGED <<queue, unfinished, mem, shutdown, ptask, produced, workerVars, cpc, historyVars>>

-----------------------------------------------------------------------------
(* The top of the worker's loop. *)
WorkerLoop ==
  /\ wpc = "loop"
  /\ wpc' = IF shutdown THEN "exited" ELSE "get"
  /\ UNCHANGED <<queue, unfinished, mem, shutdown, producerVars, wtask, retry, needsReconnect,
                 cpc, historyVars>>

NotifyNotFull_Never == UNCHANGED ppc

(* queue.Queue.get wakes one thread waiting on not_full, and it does so     *)
(* before the memory of the popped task is given back.                      *)
NotifyNotFull ==
  LET waiting == {p \in Producers : ppc[p] = "waiting"}
  IN  IF waiting = {} THEN UNCHANGED ppc
      ELSE \E p \in waiting : ppc' = [ppc EXCEPT ![p] = "woken"]

Get ==
  /\ wpc = "get"
  /\ queue # <<>>
  /\ queue' = Tail(queue)
  /\ wtask' = Head(queue)
  /\ retry' = 0
  /\ wpc' = "exec"
  /\ NotifyNotFull
  /\ UNCHANGED <<unfinished, mem, shutdown, ptask, produced, needsReconnect, cpc, historyVars>>

CanRetry == retry < RetryCount

(* _try_exec_task, the reconnection: it succeeds or it raises. *)
Reconnect(ok) ==
  /\ wpc = "exec"
  /\ CanRetry
  /\ needsReconnect
  /\ needsReconnect' = ~ok
  /\ retry' = IF ok THEN retry ELSE retry + 1
  /\ UNCHANGED <<queue, unfinished, mem, shutdown, producerVars, wpc, wtask, cpc, historyVars>>

(* _try_exec_task, the call: it returns, it finds the connection closed, *)
(* or it raises anything else, which ends the worker thread.             *)
Call(outcome) ==
  /\ wpc = "exec"
  /\ CanRetry
  /\ ~needsReconnect
  /\ \/ /\ outcome = "ok"
        /\ wpc' = "uncharge"
        /\ delivered' = Append(delivered, wtask)
        /\ UNCHANGED <<retry, needsReconnect>>
     \/ /\ outcome = "closed"
        /\ needsReconnect' = TRUE
        /\ retry' = retry + 1
        /\ UNCHANGED <<wpc, delivered>>
     \/ /\ outcome = "raised"
        /\ wpc' = "died"
        /\ UNCHANGED <<retry, needsReconnect, delivered>>
  /\ UNCHANGED <<queue, unfinished, mem, shutdown, producerVars, wtask, cpc, accepted, stopMark>>

Uncharge ==
  /\ wpc = "uncharge"
  /\ mem' = mem - wtask.size
  /\ wpc' = "task_done"
  /\ UNCHANGED <<queue, unfinished, shutdown, producerVars, wtask, retry, needsReconnect,
                 cpc, historyVars>>

TaskDone ==
  /\ wpc = "task_done"
  /\ unfinished' = unfinished - 1
  /\ wtask' = NoTask
  /\ wpc' = "loop"
  /\ UNCHANGED <<queue, mem, shutdown, producerVars, retry, needsReconnect, cpc, historyVars>>

AppendLeft_Right == Append(queue, wtask)

AppendLeft_Dropped == queue

(* The deque behind the queue takes the task back at its head. *)
AppendLeft == <<wtask>> \o queue

PutFront_AsPut ==
  /\ wpc = "exec"
  /\ ~CanRetry
  /\ queue' = AppendLeft
  /\ unfinished' = unfinished + 1
  /\ wtask' = NoTask
  /\ wpc' = "loop"
  /\ UNCHANGED <<mem, shutdown, producerVars, retry, needsReconnect, cpc, historyVars>>

(* The attempts are used up: _put_front, no task_done, no memory back. *)
PutFront ==
  /\ wpc = "exec"
  /\ ~CanRetry
  /\ queue' = AppendLeft
  /\ wtask' = NoTask
  /\ wpc' = "loop"
  /\ UNCHANGED <<unfinished, mem, shutdown, producerVars, retry, needsReconnect, cpc, historyVars>>

-----------------------------------------------------------------------------
(* The closing thread: wait_for_finish, then stop, of RepoAutoClean. *)
Close ==
  /\ cpc = "open"
  /\ cpc' = "flushing"
  /\ UNCHANGED <<queue, unfinished, mem, shutdown, producerVars, workerVars, historyVars>>

Flushed ==
  /\ cpc = "flushing"
  /\ AllDone
  /\ cpc' = "flushed"
  /\ UNCHANGED <<queue, unfinished, mem, shutdown, producerVars, workerVars, historyVars>>

(* stop: qsize() does not see a task the worker already holds. *)
Stop ==
  /\ cpc = "flushed"
  /\ stopMark' = Len(accepted)
  /\ cpc' = IF queue = <<>> THEN "stopping" ELSE "draining"
  /\ UNCHANGED <<queue, unfinished, mem, shutdown, producerVars, workerVars, accepted, delivered>>

Drained ==
  /\ cpc = "draining"
  /\ AllDone
  /\ cpc' = "stopping"
  /\ UNCHANGED <<queue, unfinished, mem, shutdown, producerVars, workerVars, historyVars>>

Shutdown ==
  /\ cpc = "stopping"
  /\ shutdown' = TRUE
  /\ cpc' = "stopped"
  /\ UNCHANGED <<queue, unfinished, mem, producerVars, workerVars, historyVars>>

-----------------------------------------------------------------------------
ProducerStep(p) == TestLimit(p) \/ Charge(p) \/ Put(p) \/ Finished(p)

ProducerNext(p) ==
  \/ \E size \in SizesOf[p] : RegisterTask(p, size)
  \/ DropTask(p)
  \/ WaitForFinish(p)
  \/ ProducerStep(p)

(* The worker's own steps, but for the calls that leave the process. *)
WorkerStep == WorkerLoop \/ Get \/ Uncharge \/ TaskDone \/ PutFront

CloserStep == Flushed \/ Stop \/ Drained \/ Shutdown

Next ==
  \/ \E p \in Producers : ProducerNext(p)
  \/ WorkerStep
  \/ \E ok \in BOOLEAN : Reconnect(ok)
  \/ \E outcome \in Outcomes : Call(outcome)
  \/ Close
  \/ CloserStep

Spec == Init /\ [][Next]_vars

(* Threads the scheduler runs are never starved; a server that is tried   *)
(* again and again is in the end reached (an assumption on the network:   *)
(* without it nothing can be delivered).                                   *)
Fairness ==
  /\ \A p \in Producers : WF_vars(ProducerStep(p))
  /\ WF_vars(WorkerStep)
  /\ SF_vars(Reconnect(TRUE))
  /\ SF_vars(Call("ok"))
  /\ WF_vars(CloserStep)

FairSpec == Spec /\ Fairness

-----------------------------------------------------------------------------
(* The worker holds a task that is not delivered yet. *)
Holding == wpc = "exec" \/ wpc = "died"

InHand == IF Holding THEN <<wtask>> ELSE <<>>

(* Who has a task, and where. *)
ProducersHold ==
  \A p \in Producers : IF ppc[p] \in {"idle", "joining"} THEN ptask[p] = NoTask ELSE ptask[p] \in Task

WorkerHolds == IF wpc \in {"loop", "get", "exited"} THEN wtask = NoTask ELSE wtask \in Task

TypeOK ==
  /\ queue \in Seq(Task)
  /\ unfinished \in Nat
  /\ mem \in Int
  /\ shutdown \in BOOLEAN
  /\ needsReconnect \in BOOLEAN
  /\ ppc \in [Producers -> {"idle", "checked", "waiting", "woken", "admitted", "charged", "joining"}]
  /\ ptask \in [Producers -> Task \cup {NoTask}]
  /\ ProducersHold
  /\ produced \in [Producers -> 0..MaxTasks]
  /\ wpc \in {"loop", "get", "exec", "uncharge", "task_done", "died", "exited"}
  /\ WorkerHolds
  /\ retry \in 0..RetryCount
  /\ cpc \in {"open", "flushing", "flushed", "draining", "stopping", "stopped"}
  /\ accepted \in Seq(Task)
  /\ delivered \in Seq(Task)
  /\ stopMark \in Nat

(* Nothing is lost, duplicated or reordered on the way: what was put is    *)
(* what was delivered, then the task in the worker's hands, then the queue *)
(* (worker's get, _try_exec_task and _put_front).  It is what makes the    *)
(* retry of a failed task safe for the order of a run's writes.            *)
TasksConserved == accepted = delivered \o InHand \o queue

(* unfinished_tasks counts the task in hand until task_done, across any    *)
(* number of _put_front, which neither counts the task again nor marks it  *)
(* done: it is what join(), and with it every read, relies on.             *)
UnfinishedCounted ==
  unfinished = Len(queue) + (IF Holding \/ wpc \in {"uncharge", "task_done"} THEN 1 ELSE 0)

(* wait_for_finish returns, to a reader or to the closing thread, only     *)
(* when every task put so far, by any thread, has been delivered.          *)
Returns == \/ \E p \in Producers : ppc[p] = "joining" /\ ppc'[p] # "joining"
           \/ cpc \in {"flushing", "draining"} /\ cpc' # cpc
JoinDrains == [][Returns => delivered = accepted]_vars

(* The bytes of a set of tasks, each byte with the task it belongs to. *)
Bytes(tasks) == UNION {{t} \X (1..t.size) : t \in tasks}

HandCharged == IF Holding \/ wpc = "uncharge" THEN {wtask} ELSE {}

Charging == {p \in Producers : ppc[p] = "charged"}

(* The tasks that are charged: in the queue, in hand and not given back    *)
(* yet, or about to be put.                                                *)
Charged == Range(queue) \cup HandCharged \cup {ptask[p] : p \in Charging}

(* current_memory_usage counts the bytes of what was charged and not yet   *)
(* given back; no two of the places hold the same task, and a task that is *)
(* put back to the front is not charged twice.                             *)
MemoryCounted ==
  /\ Cardinality(Charged) = Len(queue) + Cardinality(HandCharged) + Cardinality(Charging)
  /\ mem = Cardinality(Bytes(Charged))

(* The limit is tested and charged in two critical sections, so it is not  *)
(* a limit for several producers; they exceed it by at most a task each.   *)
MemoryBounded ==
  \A largest \in Sizes : (\A s \in Sizes : s <= largest) =>
    mem = 0 \/ mem <= (MaxMemory - 1) + (Cardinality(Producers) - 1) * largest

(* The two counters of the queue, of tasks and of bytes, agree with what   *)
(* is in it and on its way, whichever thread stops where.                  *)
Accounting == UnfinishedCounted /\ MemoryCounted /\ MemoryBounded

(* The log line "No pending tasks left." of stop(): the tasks that were in *)
(* the queue when stop() was called are delivered once it returns.         *)
NoPendingTasksLeft == cpc = "stopped" => Len(delivered) >= stopMark

(* Nobody will take a task any more. *)
WorkerGone == shutdown \/ wpc = "died"

Blocked(p) == ppc[p] = "waiting"

(* Every call has returned and no wakeup is left: a blocked task did not    *)
(* fit beside the task that was popped last, whose memory was given back   *)
(* after the pop had notified.                                             *)
Stranded ==
  /\ AllDone
  /\ delivered # <<>>
  /\ \E p \in Producers : Blocked(p) /\ ptask[p].size + Last(delivered).size >= MaxMemory

(* A thread blocked at the memory limit goes on, unless the queue is shut  *)
(* down, the worker dies of an exception, or the blocked threads are        *)
(* stranded.  Queue.get notifies not_full when it pops a task and not when *)
(* the worker gives its memory back, once for each pop: where any two      *)
(* tasks fit together nobody is stranded, and where they do not, the       *)
(* threads behind a stranded one wait for ever too.                        *)
BlockedProducerGoesOn ==
  \A p \in Producers : Blocked(p) ~> (~Blocked(p) \/ WorkerGone \/ Stranded)

(* What the loop of register_task suggests: who waits for memory gets it.  *)
(* It does not hold: a task of 2 that is registered while another one of 2  *)
(* is in the worker's hands finds a limit of 4 exceeded, nobody is notified *)
(* when that memory is given back, and no pop follows.                      *)
WaitersGoOn == \A p \in Producers : Blocked(p) ~> (~Blocked(p) \/ WorkerGone)

(* A task that was put is delivered, unless the queue is shut down or the  *)
(* worker dies.                                                            *)
EventuallyDelivered ==
  \A p \in Producers : \A n \in 1..MaxTasks :
    (\E i \in DOMAIN accepted : accepted[i].owner = p /\ accepted[i].num = n)
      ~> (WorkerGone \/ \E i \in DOMAIN delivered : delivered[i].owner = p /\ delivered[i].num = n)
=============================================================================
