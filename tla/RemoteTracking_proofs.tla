------------------------ MODULE RemoteTracking_proofs ------------------------
(***************************************************************************)
(* Theorems about the client's request queue, for any number of producers, *)
(* tasks, sizes and attempts, and about remote tracking end to end, for    *)
(* faults of any kinds.                                                    *)
(*                                                                         *)
(* The queue.  TasksConserved is not inductive alone: that the worker gives *)
(* back the task it took needs TypeOK (what wtask is in each state of the   *)
(* worker), and that a join implies an empty queue needs UnfinishedCounted. *)
(* The three together are inductive, and they are QInv.  The memory is      *)
(* counted task by task: mem is the number of bytes of the tasks that are   *)
(* charged (BytesKept), because no two places hold the same task            *)
(* (PlacesApart, from the numbers the threads give their tasks), and the    *)
(* threads that passed the test of the limit leave room for a largest task  *)
(* of each other one (RoomLeft).                                            *)
(*                                                                         *)
(* End to end: the writes are applied in the order they were put, each     *)
(* whole before the next one is begun, and a thread that waited for the    *)
(* queue reads what it wrote.  Two facts make it true.  What is on the wire *)
(* or in the storage was started: it is delivered or in the worker's hands  *)
(* (OnlyStarted).  And a message on the open connection is the one the      *)
(* worker waits for, so that a reply is the answer to the task in hand      *)
(* (ReplyAnswers); this is where waiting for each reply before the next     *)
(* send is needed.                                                          *)
(*                                                                         *)
(* That a repetition in the storage needs a fault is a matter of counting:  *)
(* the copies of tasks on the wire and in the storage, less the tasks       *)
(* themselves, are paid for by the connections after the first one          *)
(* (RepeatsPaid), and those by the faults (ConnectionsPaid).                *)
(***************************************************************************)
EXTENDS RemoteTracking, SequenceTheorems, FiniteSetTheorems, TLAPS

(***************************************************************************)
(* The request queue.                                                      *)
(***************************************************************************)

QInv == TypeOK /\ TasksConserved /\ UnfinishedCounted

-----------------------------------------------------------------------------
(* How the parts of a run's write order are joined. *)

(* A task that is put goes behind the parts of the order. *)
LEMMA AppendToParts ==
  ASSUME NEW d \in Seq(Task), NEW h \in Seq(Task), NEW q \in Seq(Task), NEW t \in Task
  PROVE  Append(d \o h \o q, t) = d \o h \o Append(q, t)
<1>1. <<t>> \in Seq(Task) /\ d \o h \in Seq(Task) /\ (d \o h) \o q \in Seq(Task)
  BY ConcatProperties
<1>2. Append(d \o h \o q, t) = (d \o h \o q) \o <<t>>
  BY <1>1, AppendIsConcat
<1>3. Append(q, t) = q \o <<t>>
  BY AppendIsConcat
<1>4. ((d \o h) \o q) \o <<t>> = (d \o h) \o (q \o <<t>>)
  BY <1>1, ConcatAssociative
<1> QED
  BY <1>2, <1>3, <1>4

(* The task that is taken moves from the queue to the hand. *)
LEMMA TakeFirst ==
  ASSUME NEW q \in Seq(Task), q # << >>
  PROVE  q = <<Head(q)>> \o Tail(q)
<1>1. Head(q) \in Task /\ Tail(q) \in Seq(Task)
  BY HeadTailProperties
<1>2. <<Head(q)>> \in Seq(Task) /\ Len(<<Head(q)>>) = 1
  BY <1>1
<1> DEFINE r == <<Head(q)>> \o Tail(q)
<1>3. r \in Seq(Task) /\ Len(r) = Len(q)
  BY <1>1, <1>2, ConcatProperties, HeadTailProperties
<1>4. ASSUME NEW i \in 1..Len(q) PROVE r[i] = q[i]
  BY <1>1, <1>2, ConcatProperties, HeadTailProperties
<1> QED
  BY <1>3, <1>4

(* The task that is given back moves from the hand to the queue. *)
LEMMA GiveBackFirst ==
  ASSUME NEW d \in Seq(Task), NEW q \in Seq(Task), NEW t \in Task
  PROVE  d \o <<t>> \o q = d \o << >> \o (<<t>> \o q)
<1>1. <<t>> \in Seq(Task)
  OBVIOUS
<1>2. d \o << >> = d
  BY ConcatEmptySeq
<1> QED
  BY <1>1, <1>2, ConcatAssociative

(* The task that is delivered moves from the hand to what was delivered. *)
LEMMA DeliverFirst ==
  ASSUME NEW d \in Seq(Task), NEW q \in Seq(Task), NEW t \in Task
  PROVE  d \o <<t>> \o q = Append(d, t) \o << >> \o q
<1>1. Append(d, t) = d \o <<t>> /\ Append(d, t) \in Seq(Task)
  BY AppendIsConcat, AppendProperties
<1>2. Append(d, t) \o << >> = Append(d, t)
  BY <1>1, ConcatEmptySeq
<1> QED
  BY <1>1, <1>2

-----------------------------------------------------------------------------
(* Sizes are numbers of bytes, and a thread's sizes are among them. *)
LEMMA SizesAreNatural ==
  /\ Sizes \subseteq Nat
  /\ \A p \in Producers : SizesOf[p] \subseteq Sizes
BY QueueAssumption DEF Sizes

(* The size of a task is an integer, which mem adds and subtracts. *)
LEMMA TaskSize ==
  ASSUME NEW t \in Task PROVE t.size \in Int
<1>1. t.size \in Sizes
  BY DEF Task
<1>2. Sizes \subseteq Nat
  BY SizesAreNatural
<1>3. t.size \in Nat
  BY <1>1, <1>2, Zenon
<1> QED
  BY <1>3

(* The invariant holds at the start. *)
LEMMA QInit == Init => QInv
<1> SUFFICES ASSUME Init PROVE QInv
  OBVIOUS
<1>1. TypeOK
  <2>1. ptask \in [Producers -> Task \cup {NoTask}] /\ ProducersHold /\ WorkerHolds
    BY DEF Init, ProducersHold, WorkerHolds
  <2>2. queue \in Seq(Task) /\ accepted \in Seq(Task) /\ delivered \in Seq(Task)
    BY DEF Init
  <2>3. retry \in 0..RetryCount /\ produced \in [Producers -> 0..MaxTasks]
    BY QueueAssumption DEF Init
  <2>4. ppc \in [Producers -> {"idle", "checked", "waiting", "woken", "admitted", "charged", "joining"}]
    BY DEF Init
  <2>5. unfinished \in Nat /\ mem \in Int /\ stopMark \in Nat
    BY DEF Init
  <2>6. /\ shutdown \in BOOLEAN /\ needsReconnect \in BOOLEAN
        /\ wpc \in {"loop", "get", "exec", "uncharge", "task_done", "died", "exited"}
        /\ cpc \in {"open", "flushing", "flushed", "draining", "stopping", "stopped"}
    BY DEF Init
  <2> QED
    BY <2>1, <2>2, <2>3, <2>4, <2>5, <2>6 DEF TypeOK
<1>2. TasksConserved
  BY DEF Init, TasksConserved, InHand, Holding
<1>3. UnfinishedCounted
  BY DEF Init, UnfinishedCounted, Holding
<1> QED
  BY <1>1, <1>2, <1>3 DEF QInv

(* One step of a producer, the closing thread or the worker, for each part *)
(* of the invariant it can disturb.                                        *)
LEMMA ProducerPreserves ==
  ASSUME QInv, NEW p \in Producers, ProducerNext(p)
  PROVE  QInv'
<1> USE DEF QInv
<1>1. ASSUME NEW size \in Sizes, RegisterTask(p, size) PROVE QInv'
  <2>1. produced[p] \in 0..MaxTasks /\ produced[p] < MaxTasks
    BY <1>1 DEF RegisterTask, TypeOK
  <2>2. [owner |-> p, num |-> produced[p] + 1, size |-> size] \in Task
    BY <2>1, QueueAssumption DEF Task
  <2>3. ProducersHold' /\ WorkerHolds'
    BY <1>1, <2>2 DEF RegisterTask, TypeOK, ProducersHold, WorkerHolds, workerVars
  <2>4. TypeOK'
    BY <1>1, <2>1, <2>2, <2>3, QueueAssumption DEF RegisterTask, TypeOK, workerVars, historyVars
  <2> QED
    BY <1>1, <2>4 DEF RegisterTask, TasksConserved, UnfinishedCounted, InHand, Holding,
                      workerVars, historyVars
<1>2. ASSUME DropTask(p) PROVE QInv'
  <2>1. ProducersHold' /\ WorkerHolds'
    BY <1>2 DEF DropTask, TypeOK, ProducersHold, WorkerHolds, workerVars
  <2>2. TypeOK'
    BY <1>2, <2>1, QueueAssumption DEF DropTask, TypeOK, workerVars, historyVars
  <2> QED
    BY <1>2, <2>2 DEF DropTask, TasksConserved, UnfinishedCounted, InHand, Holding,
                      workerVars, historyVars
<1>3. ASSUME WaitForFinish(p) \/ Finished(p) \/ TestLimit(p) PROVE QInv'
  <2>1. ProducersHold' /\ WorkerHolds'
    BY <1>3 DEF WaitForFinish, Finished, TestLimit, TypeOK, ProducersHold, WorkerHolds, workerVars
  <2>2. TypeOK'
    BY <1>3, <2>1 DEF WaitForFinish, Finished, TestLimit, TypeOK, workerVars, historyVars
  <2> QED
    BY <1>3, <2>2 DEF WaitForFinish, Finished, TestLimit, TasksConserved, UnfinishedCounted,
                      InHand, Holding, workerVars, historyVars
<1>4. ASSUME Charge(p) PROVE QInv'
  <2>0. ptask[p] \in Task
    BY <1>4 DEF Charge, TypeOK, ProducersHold
  <2>1. mem' \in Int
    BY <1>4, <2>0, TaskSize DEF Charge, TypeOK
  <2>2. ProducersHold' /\ WorkerHolds'
    BY <1>4 DEF Charge, TypeOK, ProducersHold, WorkerHolds, workerVars
  <2>3. TypeOK'
    BY <1>4, <2>1, <2>2 DEF Charge, TypeOK, workerVars, historyVars
  <2> QED
    BY <1>4, <2>3 DEF Charge, TasksConserved, UnfinishedCounted, InHand, Holding,
                      workerVars, historyVars
<1>5. ASSUME Put(p) PROVE QInv'
  <2>1. ptask[p] \in Task
    BY <1>5 DEF Put, TypeOK, ProducersHold
  <2>2. queue' \in Seq(Task) /\ accepted' \in Seq(Task)
    BY <1>5, <2>1, AppendProperties DEF Put, TypeOK
  <2>3. ProducersHold' /\ WorkerHolds'
    BY <1>5 DEF Put, TypeOK, ProducersHold, WorkerHolds, workerVars
  <2>4. TypeOK'
    BY <1>5, <2>2, <2>3 DEF Put, TypeOK, workerVars
  <2>5. delivered \in Seq(Task) /\ InHand \in Seq(Task) /\ queue \in Seq(Task) /\ InHand' = InHand
    BY <1>5 DEF Put, TypeOK, WorkerHolds, InHand, Holding, workerVars
  <2>6. Append(delivered \o InHand \o queue, ptask[p]) = delivered \o InHand \o Append(queue, ptask[p])
    BY <2>1, <2>5, AppendToParts, Zenon
  <2>7. TasksConserved'
    BY <1>5, <2>5, <2>6 DEF Put, TasksConserved
  <2>8. UnfinishedCounted'
    BY <1>5, <2>1 DEF Put, TypeOK, UnfinishedCounted, Holding, workerVars
  <2> QED
    BY <2>4, <2>7, <2>8
<1> QED
  BY <1>1, <1>2, <1>3, <1>4, <1>5, SizesAreNatural DEF ProducerNext, ProducerStep

(* The closing thread only reads what the invariant is about. *)
LEMMA CloserPreserves ==
  ASSUME QInv, Close \/ CloserStep
  PROVE  QInv'
<1> USE DEF QInv, Close, CloserStep, Flushed, Stop, Drained, Shutdown
<1>1. ProducersHold' /\ WorkerHolds'
  BY DEF TypeOK, ProducersHold, WorkerHolds, producerVars, workerVars
<1>2. stopMark' \in Nat /\ accepted' = accepted /\ delivered' = delivered
  <2>1. accepted \in Seq(Task) /\ Len(accepted) \in Nat /\ stopMark \in Nat
    BY LenProperties DEF TypeOK
  <2> QED
    BY <2>1 DEF historyVars
<1>6. shutdown' \in BOOLEAN
  BY DEF TypeOK
<1>3. cpc' \in {"open", "flushing", "flushed", "draining", "stopping", "stopped"}
  OBVIOUS
<1>4. UNCHANGED <<queue, unfinished, mem, producerVars, workerVars>>
  OBVIOUS
<1>5. TypeOK'
  BY <1>1, <1>2, <1>3, <1>4, <1>6 DEF TypeOK, producerVars, workerVars
<1> QED
  BY <1>5 DEF TasksConserved, UnfinishedCounted, InHand, Holding, producerVars, workerVars, historyVars

(* Each step of the worker, and what it moves between the parts. *)
LEMMA WorkerPreserves ==
  ASSUME QInv, WorkerStep \/ (\E ok \in BOOLEAN : Reconnect(ok)) \/ (\E outcome \in Outcomes : Call(outcome))
  PROVE  QInv'
<1> USE DEF QInv
<1>0. queue \in Seq(Task) /\ delivered \in Seq(Task) /\ accepted \in Seq(Task)
  BY DEF TypeOK
<1>1. ASSUME WorkerLoop PROVE QInv'
  <2>1. ProducersHold' /\ WorkerHolds'
    BY <1>1 DEF WorkerLoop, TypeOK, ProducersHold, WorkerHolds, producerVars
  <2>2. TypeOK'
    BY <1>1, <2>1 DEF WorkerLoop, TypeOK, producerVars, historyVars
  <2> QED
    BY <1>1, <2>2 DEF WorkerLoop, TasksConserved, UnfinishedCounted, InHand, Holding, historyVars
<1>2. ASSUME Get PROVE QInv'
  <2>1. Head(queue) \in Task /\ Tail(queue) \in Seq(Task) /\ Len(Tail(queue)) = Len(queue) - 1
    BY <1>0, <1>2, HeadTailProperties DEF Get
  <2>2. /\ ppc' \in [Producers -> {"idle", "checked", "waiting", "woken", "admitted", "charged", "joining"}]
        /\ ProducersHold'
    BY <1>2 DEF Get, NotifyNotFull, TypeOK, ProducersHold
  <2>3. WorkerHolds'
    BY <1>2, <2>1 DEF Get, WorkerHolds
  <2>4. TypeOK'
    BY <1>2, <2>1, <2>2, <2>3, QueueAssumption DEF Get, TypeOK, historyVars
  <2>5. InHand = << >> /\ InHand' = <<Head(queue)>> /\ queue' = Tail(queue)
    BY <1>2 DEF Get, InHand, Holding
  <2>6. queue = <<Head(queue)>> \o Tail(queue)
    BY <1>0, <1>2, TakeFirst DEF Get
  <2>7. delivered \o << >> \o queue = delivered \o <<Head(queue)>> \o Tail(queue)
    <3>1. <<Head(queue)>> \in Seq(Task) /\ delivered \o << >> = delivered
      BY <1>0, <2>1, ConcatEmptySeq
    <3> QED
      BY <1>0, <2>1, <2>6, <3>1, ConcatAssociative
  <2>8. TasksConserved'
    BY <1>2, <2>5, <2>7 DEF Get, TasksConserved, historyVars
  <2>9. UnfinishedCounted'
    BY <1>2, <2>1 DEF Get, UnfinishedCounted, Holding
  <2> QED
    BY <2>4, <2>8, <2>9
<1>3. ASSUME NEW ok \in BOOLEAN, Reconnect(ok) PROVE QInv'
  <2>1. ProducersHold' /\ WorkerHolds'
    BY <1>3 DEF Reconnect, TypeOK, ProducersHold, WorkerHolds, producerVars
  <2>2. TypeOK'
    BY <1>3, <2>1, QueueAssumption DEF Reconnect, CanRetry, TypeOK, producerVars, historyVars
  <2> QED
    BY <1>3, <2>2 DEF Reconnect, TasksConserved, UnfinishedCounted, InHand, Holding, historyVars
<1>4. ASSUME NEW outcome \in Outcomes, Call(outcome), outcome # "ok" PROVE QInv'
  <2>1. ProducersHold' /\ WorkerHolds'
    BY <1>4 DEF Call, TypeOK, ProducersHold, WorkerHolds, producerVars
  <2>2. retry' \in 0..RetryCount /\ needsReconnect' \in BOOLEAN
    <3>1. CASE outcome = "closed"
      <4>1. needsReconnect' = TRUE /\ retry' = retry + 1 /\ retry < RetryCount /\ retry \in 0..RetryCount
        BY <1>4, <3>1 DEF Call, CanRetry, TypeOK
      <4> QED
        BY <4>1, QueueAssumption
    <3>2. CASE outcome = "raised"
      BY <1>4, <3>2 DEF Call, TypeOK
    <3> QED
      BY <1>4, <3>1, <3>2 DEF Call
  <2>3. wpc' \in {"exec", "died"} /\ delivered' = delivered
    BY <1>4 DEF Call
  <2>4. TypeOK'
    BY <1>4, <2>1, <2>2, <2>3 DEF Call, TypeOK, producerVars
  <2> QED
    BY <1>4, <2>4 DEF Call, TasksConserved, UnfinishedCounted, InHand, Holding
<1>5. ASSUME Call("ok") PROVE QInv'
  <2>1. wtask \in Task /\ delivered' = Append(delivered, wtask)
    BY <1>5 DEF Call, TypeOK, WorkerHolds
  <2>2. ProducersHold' /\ WorkerHolds' /\ delivered' \in Seq(Task)
    BY <1>0, <1>5, <2>1, AppendProperties DEF Call, TypeOK, ProducersHold, WorkerHolds, producerVars
  <2>3. TypeOK'
    BY <1>5, <2>2 DEF Call, TypeOK, producerVars
  <2>4. InHand = <<wtask>> /\ InHand' = << >> /\ queue' = queue /\ accepted' = accepted
    BY <1>5 DEF Call, InHand, Holding
  <2>5. delivered \o <<wtask>> \o queue = Append(delivered, wtask) \o << >> \o queue
    BY <1>0, <2>1, DeliverFirst, Zenon
  <2>6. TasksConserved'
    BY <2>1, <2>4, <2>5 DEF TasksConserved
  <2>7. UnfinishedCounted'
    BY <1>5 DEF Call, UnfinishedCounted, Holding
  <2> QED
    BY <2>3, <2>6, <2>7
<1>6. ASSUME Uncharge PROVE QInv'
  <2>0. wtask \in Task
    BY <1>6 DEF Uncharge, TypeOK, WorkerHolds
  <2>1. mem' \in Int
    BY <1>6, <2>0, TaskSize DEF Uncharge, TypeOK
  <2>2. ProducersHold' /\ WorkerHolds'
    BY <1>6 DEF Uncharge, TypeOK, ProducersHold, WorkerHolds, producerVars
  <2>3. TypeOK'
    BY <1>6, <2>1, <2>2 DEF Uncharge, TypeOK, producerVars, historyVars
  <2> QED
    BY <1>6, <2>3 DEF Uncharge, TasksConserved, UnfinishedCounted, InHand, Holding, historyVars
<1>7. ASSUME TaskDone PROVE QInv'
  <2>1. unfinished' = Len(queue) /\ Len(queue) \in Nat
    BY <1>0, <1>7 DEF TaskDone, UnfinishedCounted, Holding
  <2>2. ProducersHold' /\ WorkerHolds'
    BY <1>7 DEF TaskDone, TypeOK, ProducersHold, WorkerHolds, producerVars
  <2>3. TypeOK'
    BY <1>7, <2>1, <2>2 DEF TaskDone, TypeOK, producerVars, historyVars
  <2> QED
    BY <1>7, <2>1, <2>3 DEF TaskDone, TasksConserved, UnfinishedCounted, InHand, Holding, historyVars
<1>8. ASSUME PutFront PROVE QInv'
  <2>1. wtask \in Task
    BY <1>8 DEF PutFront, TypeOK, WorkerHolds
  <2>2. queue' = <<wtask>> \o queue /\ queue' \in Seq(Task) /\ Len(queue') = Len(queue) + 1
    BY <1>0, <1>8, <2>1, ConcatProperties DEF PutFront, AppendLeft
  <2>3. ProducersHold' /\ WorkerHolds'
    BY <1>8 DEF PutFront, TypeOK, ProducersHold, WorkerHolds, producerVars
  <2>4. TypeOK'
    BY <1>8, <2>2, <2>3 DEF PutFront, TypeOK, producerVars, historyVars
  <2>5. InHand = <<wtask>> /\ InHand' = << >> /\ delivered' = delivered /\ accepted' = accepted
    BY <1>8 DEF PutFront, InHand, Holding, historyVars
  <2>6. delivered \o <<wtask>> \o queue = delivered \o << >> \o (<<wtask>> \o queue)
    BY <1>0, <2>1, GiveBackFirst, Zenon
  <2>7. TasksConserved'
    BY <2>2, <2>5, <2>6 DEF TasksConserved
  <2>8. UnfinishedCounted'
    BY <1>0, <1>8, <2>2 DEF PutFront, UnfinishedCounted, Holding
  <2> QED
    BY <2>4, <2>7, <2>8
<1> QED
  BY <1>1, <1>2, <1>3, <1>4, <1>5, <1>6, <1>7, <1>8 DEF WorkerStep

-----------------------------------------------------------------------------
(* The invariant is inductive. *)
LEMMA QInductive == QInv /\ [Next]_vars => QInv'
<1> SUFFICES ASSUME QInv, [Next]_vars PROVE QInv'
  OBVIOUS
<1>1. CASE Next
  BY <1>1, ProducerPreserves, CloserPreserves, WorkerPreserves DEF Next
<1>2. CASE UNCHANGED vars
  <2>1. ProducersHold' /\ WorkerHolds'
    BY <1>2 DEF QInv, TypeOK, ProducersHold, WorkerHolds, vars, producerVars, workerVars
  <2>2. TypeOK'
    BY <1>2, <2>1 DEF QInv, TypeOK, vars, producerVars, workerVars, historyVars
  <2> QED
    BY <1>2, <2>2 DEF QInv, TasksConserved, UnfinishedCounted, InHand, Holding,
                      vars, producerVars, workerVars, historyVars
<1> QED
  BY <1>1, <1>2

(* The invariant always holds. *)
LEMMA QAlways == Spec => []QInv
<1> QED
  BY QInit, QInductive, PTL DEF Spec

(* Every variable keeps its type. *)
THEOREM TypeCorrect == Spec => []TypeOK
<1>1. QInv => TypeOK
  BY DEF QInv
<1> QED
  BY <1>1, QAlways, PTL

(* The worker, its retries and its put-backs neither lose, duplicate nor   *)
(* reorder a task, for any number of producers and of attempts.            *)
THEOREM Conservation == Spec => []TasksConserved
<1>1. QInv => TasksConserved
  BY DEF QInv
<1> QED
  BY <1>1, QAlways, PTL

(* unfinished_tasks is the number of tasks that are not done. *)
THEOREM Counting == Spec => []UnfinishedCounted
<1>1. QInv => UnfinishedCounted
  BY DEF QInv
<1> QED
  BY <1>1, QAlways, PTL

(* wait_for_finish returns only when everything that was put is delivered. *)
LEMMA DoneMeansDelivered ==
  ASSUME QInv, AllDone
  PROVE  delivered = accepted
<1>1. queue \in Seq(Task) /\ delivered \in Seq(Task)
  BY DEF QInv, TypeOK
<1>2. Len(queue) = 0 /\ ~Holding
  BY <1>1 DEF QInv, AllDone, UnfinishedCounted
<1>3. queue = << >> /\ InHand = << >>
  BY <1>1, <1>2, EmptySeq DEF InHand
<1>4. delivered \o << >> \o << >> = delivered
  BY <1>1, ConcatEmptySeq
<1> QED
  BY <1>3, <1>4 DEF QInv, TasksConserved

(* Who returns from wait_for_finish found nothing unfinished. *)
LEMMA ReturnsOnlyWhenDone ==
  ASSUME QInv, Next, Returns
  PROVE  AllDone
<1> USE DEF QInv
<1>1. ASSUME NEW p \in Producers, ProducerNext(p), ~Finished(p) PROVE FALSE
  BY <1>1 DEF Returns, ProducerNext, ProducerStep, RegisterTask, DropTask, WaitForFinish, TestLimit,
              Charge, Put, TypeOK
<1>2. ASSUME Get PROVE FALSE
  BY <1>2 DEF Returns, Get, NotifyNotFull, TypeOK
<1>3. ASSUME WorkerStep, ~Get PROVE FALSE
  BY <1>3 DEF Returns, WorkerStep, WorkerLoop, Uncharge, TaskDone, PutFront, producerVars
<1>4. ASSUME NEW ok \in BOOLEAN, Reconnect(ok) PROVE FALSE
  BY <1>4 DEF Returns, Reconnect, producerVars
<1>5. ASSUME NEW outcome \in Outcomes, Call(outcome) PROVE FALSE
  BY <1>5 DEF Returns, Call, producerVars
<1>6. ASSUME Close \/ Stop \/ Shutdown PROVE FALSE
  BY <1>6 DEF Returns, Close, Stop, Shutdown, producerVars
<1>7. (\E p \in Producers : Finished(p)) \/ Flushed \/ Drained => AllDone
  BY DEF Finished, Flushed, Drained
<1> QED
  BY <1>1, <1>2, <1>3, <1>4, <1>5, <1>6, <1>7 DEF Next, CloserStep

(* A thread that waited for the queue, a reader or the one that closes the *)
(* repository, goes on with everything delivered that anybody put before.  *)
THEOREM Draining == Spec => JoinDrains
<1>1. QInv /\ [Next]_vars => [Returns => delivered = accepted]_vars
  BY ReturnsOnlyWhenDone, DoneMeansDelivered
<1> QED
  BY <1>1, QAlways, PTL DEF Spec, JoinDrains

-----------------------------------------------------------------------------
Busy(p) == ppc[p] \notin {"idle", "joining"}

(* A thread numbers its tasks, so that no two tasks are the same. *)
Numbered ==
  /\ \A p \in Producers : Busy(p) => ptask[p].owner = p /\ ptask[p].num = produced[p]
  /\ \A i \in DOMAIN accepted : \A p \in Producers :
       accepted[i].owner = p => /\ accepted[i].num <= produced[p]
                                /\ Busy(p) => accepted[i].num < produced[p]
  /\ \A i, j \in DOMAIN accepted : accepted[i] = accepted[j] => i = j

(* A thread gives each task the next number, so that Numbered is kept. *)
LEMMA NumbersKept ==
  ASSUME QInv, Numbered, [Next]_vars
  PROVE  Numbered'
<1> USE DEF producerVars, workerVars, historyVars
<1>0. /\ accepted \in Seq(Task) /\ DOMAIN accepted = 1..Len(accepted) /\ Len(accepted) \in Nat
      /\ \A i \in DOMAIN accepted : accepted[i].owner \in Producers /\ accepted[i].num \in Nat
      /\ \A q \in Producers : produced[q] \in Nat
  <2>1. accepted \in Seq(Task) /\ produced \in [Producers -> 0..MaxTasks]
    BY DEF QInv, TypeOK
  <2>2. ASSUME NEW i \in DOMAIN accepted PROVE accepted[i].owner \in Producers /\ accepted[i].num \in Nat
    <3>1. accepted[i] \in Task
      BY <2>1
    <3> QED
      BY <3>1, QueueAssumption DEF Task
  <2> QED
    BY <2>1, <2>2, QueueAssumption, LenProperties
<1>1. ASSUME UNCHANGED <<ptask, produced, accepted>>, \A q \in Producers : Busy(q)' => Busy(q)
      PROVE  Numbered'
  BY <1>0, <1>1 DEF Numbered
<1>2. ASSUME NEW p \in Producers, NEW size \in Sizes, RegisterTask(p, size) PROVE Numbered'
  <2>1. /\ \A q \in Producers : q # p => /\ ptask'[q] = ptask[q] /\ produced'[q] = produced[q]
                                        /\ Busy(q)' = Busy(q)
        /\ ptask'[p] = [owner |-> p, num |-> produced[p] + 1, size |-> size]
        /\ produced'[p] = produced[p] + 1 /\ accepted' = accepted
    BY <1>2 DEF RegisterTask, QInv, TypeOK, Busy
  <2> QED
    BY <1>0, <2>1 DEF Numbered
<1>3. ASSUME NEW p \in Producers, DropTask(p) PROVE Numbered'
  <2>1. /\ \A q \in Producers : q # p => produced'[q] = produced[q]
        /\ produced'[p] = produced[p] + 1 /\ ~Busy(p) /\ ~Busy(p)' /\ accepted' = accepted
        /\ \A q \in Producers : ptask'[q] = ptask[q] /\ Busy(q)' = Busy(q)
    BY <1>3 DEF DropTask, QInv, TypeOK, Busy
  <2> QED
    BY <1>0, <2>1 DEF Numbered
<1>4. ASSUME NEW p \in Producers, Put(p) PROVE Numbered'
  <2>1. Busy(p) /\ ptask[p] \in Task
    BY <1>4 DEF Put, Busy, QInv, TypeOK, ProducersHold
  <2>2. ptask[p].owner = p /\ ptask[p].num = produced[p]
    BY <2>1 DEF Numbered
  <2>3. /\ accepted' = Append(accepted, ptask[p]) /\ ~Busy(p)' /\ produced' = produced
        /\ \A q \in Producers : q # p => ptask'[q] = ptask[q] /\ Busy(q)' = Busy(q)
    BY <1>4 DEF Put, QInv, TypeOK, Busy
  <2>4. /\ DOMAIN accepted' = 1..(Len(accepted) + 1) /\ accepted'[Len(accepted) + 1] = ptask[p]
        /\ \A i \in DOMAIN accepted : accepted'[i] = accepted[i]
    BY <1>0, <2>1, <2>3, AppendProperties, LenProperties
  <2>5. ASSUME NEW i \in DOMAIN accepted PROVE accepted[i] # ptask[p]
    <3>1. accepted[i].owner = p => accepted[i].num < produced[p]
      BY <2>1 DEF Numbered
    <3> QED
      BY <1>0, <2>2, <3>1
  <2>6. \A i, j \in DOMAIN accepted' : accepted'[i] = accepted'[j] => i = j
    BY <1>0, <2>4, <2>5 DEF Numbered
  <2>7. ASSUME NEW i \in DOMAIN accepted', NEW q \in Producers, accepted'[i].owner = q
        PROVE  /\ accepted'[i].num <= produced'[q]
               /\ Busy(q)' => accepted'[i].num < produced'[q]
    <3>1. CASE i \in DOMAIN accepted
      BY <2>3, <2>4, <2>7, <3>1 DEF Numbered
    <3>2. CASE i = Len(accepted) + 1
      BY <1>0, <2>2, <2>3, <2>4, <2>7, <3>2
    <3> QED
      BY <1>0, <2>4, <3>1, <3>2
  <2>8. ASSUME NEW q \in Producers, Busy(q)' PROVE (ptask[q].owner = q /\ ptask[q].num = produced[q])'
    BY <2>3, <2>8 DEF Numbered
  <2> QED
    BY <2>6, <2>7, <2>8 DEF Numbered
<1>5. ASSUME NEW p \in Producers, WaitForFinish(p) \/ Finished(p) \/ TestLimit(p) \/ Charge(p)
      PROVE  Numbered'
  <2>1. \A q \in Producers : Busy(q)' => Busy(q)
    BY <1>5 DEF WaitForFinish, Finished, TestLimit, Charge, QInv, TypeOK, Busy
  <2>2. UNCHANGED <<ptask, produced, accepted>>
    BY <1>5 DEF WaitForFinish, Finished, TestLimit, Charge
  <2> QED
    BY <1>1, <2>1, <2>2
<1>6. ASSUME WorkerStep PROVE Numbered'
  <2>1. ASSUME Get PROVE \A q \in Producers : Busy(q)' => Busy(q)
    BY <2>1 DEF Get, NotifyNotFull, QInv, TypeOK, Busy
  <2>2. ASSUME WorkerStep, ~Get PROVE ppc' = ppc
    BY <2>2 DEF WorkerStep, WorkerLoop, Uncharge, TaskDone, PutFront
  <2>3. UNCHANGED <<ptask, produced, accepted>>
    BY <1>6 DEF WorkerStep, WorkerLoop, Get, Uncharge, TaskDone, PutFront
  <2> QED
    BY <1>1, <1>6, <2>1, <2>2, <2>3 DEF Busy
<1>7. ASSUME \/ \E ok \in BOOLEAN : Reconnect(ok)
             \/ \E outcome \in Outcomes : Call(outcome)
             \/ Close \/ CloserStep \/ UNCHANGED vars
      PROVE  Numbered'
  <2>1. UNCHANGED <<ppc, ptask, produced, accepted>>
    BY <1>7 DEF Reconnect, Call, Close, CloserStep, Flushed, Stop, Drained, Shutdown, vars
  <2> QED
    BY <1>1, <2>1 DEF Busy
<1> QED
  BY <1>2, <1>3, <1>4, <1>5, <1>6, <1>7, SizesAreNatural DEF Next, ProducerNext, ProducerStep

-----------------------------------------------------------------------------
(* The bytes of the tasks that are charged.  No two places hold the same    *)
(* task: a thread numbers its tasks, and what is in the queue and in hand   *)
(* are the last tasks of those that were put, in their order.               *)

(* A task whose memory is about to be given back was delivered last. *)
LastDelivered == wpc = "uncharge" => Len(delivered) > 0 /\ delivered[Len(delivered)] = wtask

BytesKept == IsFiniteSet(Bytes(Charged)) /\ mem = Cardinality(Bytes(Charged))

Admitted == {p \in Producers : ppc[p] = "admitted"}

(* A thread that passed the test of the limit leaves room for the largest   *)
(* task of each other thread that passed it.                                *)
RoomLeft ==
  \A L \in Sizes : (\A s \in Sizes : s <= L) =>
    /\ mem = 0 \/ mem <= (MaxMemory - 1) + (Cardinality(Producers) - 1) * L
    /\ Admitted # {} => \E p \in Admitted :
         mem + ptask[p].size + (Cardinality(Admitted) - 1) * L
           <= (MaxMemory - 1) + (Cardinality(Producers) - 1) * L

MInv == QInv /\ Numbered /\ LastDelivered /\ BytesKept /\ RoomLeft

(* The queue is the end of the tasks that were put, and the task in hand,   *)
(* as long as it is charged, is the one before.                             *)
LEMMA PlacesInOrder ==
  ASSUME QInv, LastDelivered
  PROVE  LET n == Len(accepted) - Len(queue) IN
         /\ n \in Nat /\ queue \in Seq(Task) /\ accepted \in Seq(Task)
         /\ \A i \in 1..Len(queue) : n + i \in DOMAIN accepted /\ accepted[n + i] = queue[i]
         /\ HandCharged # {} =>
              n \in DOMAIN accepted /\ wtask \in Task /\ HandCharged = {wtask} /\ accepted[n] = wtask
<1> DEFINE front == delivered \o InHand
           n == Len(accepted) - Len(queue)
<1>1. delivered \in Seq(Task) /\ queue \in Seq(Task) /\ accepted \in Seq(Task)
  BY DEF QInv, TypeOK
<1>2. Holding \/ wpc = "uncharge" => wtask \in Task
  BY DEF QInv, TypeOK, WorkerHolds, Holding
<1>3. InHand \in Seq(Task)
  BY <1>2 DEF InHand
<1>4. front \in Seq(Task)
  BY <1>1, <1>3, ConcatProperties
<1>5. HandCharged # {} => HandCharged = {wtask} /\ Len(front) > 0 /\ front[Len(front)] = wtask
  <2>1. CASE Holding
    <3>1. front = Append(delivered, wtask)
      BY <1>1, <1>2, <2>1, AppendIsConcat DEF InHand
    <3>2. Len(front) = Len(delivered) + 1 /\ front[Len(delivered) + 1] = wtask /\ Len(delivered) \in Nat
      BY <1>1, <1>2, <2>1, <3>1, AppendProperties, LenProperties
    <3> QED
      BY <2>1, <3>2 DEF HandCharged
  <2>2. CASE wpc = "uncharge"
    <3>1. front = delivered
      BY <1>1, <2>2, ConcatEmptySeq DEF InHand, Holding
    <3> QED
      BY <2>2, <3>1 DEF HandCharged, LastDelivered
  <2> QED
    BY <2>1, <2>2 DEF HandCharged
<1>6. accepted = front \o queue
  BY DEF QInv, TasksConserved
<1> HIDE DEF front
<1>7. /\ Len(accepted) = Len(front) + Len(queue) /\ Len(front) \in Nat /\ Len(queue) \in Nat
      /\ DOMAIN accepted = 1..Len(accepted)
      /\ \A k \in 1..Len(accepted) : accepted[k] = IF k <= Len(front) THEN front[k] ELSE queue[k - Len(front)]
  <2>1. /\ Len(front \o queue) = Len(front) + Len(queue)
        /\ \A k \in 1..Len(front \o queue) :
             (front \o queue)[k] = IF k <= Len(front) THEN front[k] ELSE queue[k - Len(front)]
    BY <1>1, <1>4, ConcatProperties
  <2> QED
    BY <1>1, <1>4, <1>6, <2>1, LenProperties
<1>8. n = Len(front)
  BY <1>7
<1> HIDE DEF n
<1>9. ASSUME NEW i \in 1..Len(queue) PROVE n + i \in DOMAIN accepted /\ accepted[n + i] = queue[i]
  BY <1>7, <1>8
<1>10. HandCharged # {} => n \in DOMAIN accepted /\ accepted[n] = wtask
  BY <1>5, <1>7, <1>8
<1>11. HandCharged # {} => wtask \in Task /\ HandCharged = {wtask}
  BY <1>2, <1>5 DEF HandCharged
<1>12. n \in Nat
  BY <1>7, <1>8
<1> QED
  BY <1>1, <1>9, <1>10, <1>11, <1>12 DEF n

(* No place holds a task of another place, and no place a task twice. *)
LEMMA PlacesApart ==
  ASSUME QInv, Numbered, LastDelivered
  PROVE  /\ \A i, j \in 1..Len(queue) : queue[i] = queue[j] => i = j
         /\ Range(queue) \cap HandCharged = {}
         /\ \A p \in Producers : Busy(p) => /\ ptask[p] \in Task
                                            /\ ptask[p] \notin Range(queue) /\ ptask[p] \notin HandCharged
         /\ \A p, q \in Producers : Busy(p) /\ Busy(q) /\ ptask[p] = ptask[q] => p = q
<1> DEFINE n == Len(accepted) - Len(queue)
<1>1. /\ n \in Nat /\ queue \in Seq(Task) /\ accepted \in Seq(Task)
      /\ \A i \in 1..Len(queue) : n + i \in DOMAIN accepted /\ accepted[n + i] = queue[i]
      /\ HandCharged # {} =>
           n \in DOMAIN accepted /\ wtask \in Task /\ HandCharged = {wtask} /\ accepted[n] = wtask
  BY PlacesInOrder
<1> HIDE DEF n
<1>2. \A i, j \in DOMAIN accepted : accepted[i] = accepted[j] => i = j
  BY DEF Numbered
<1>3. DOMAIN queue = 1..Len(queue) /\ Len(queue) \in Nat
  BY <1>1, LenProperties
<1>4. \A i, j \in 1..Len(queue) : queue[i] = queue[j] => i = j
  BY <1>1, <1>2, <1>3
<1>5. Range(queue) \cap HandCharged = {}
  <2> SUFFICES ASSUME NEW t \in Range(queue), t \in HandCharged PROVE FALSE
    OBVIOUS
  <2>1. PICK i \in 1..Len(queue) : queue[i] = t
    BY <1>3 DEF Range
  <2> QED
    BY <1>1, <1>2, <1>3, <2>1
<1>6. ASSUME NEW p \in Producers, Busy(p)
      PROVE  /\ ptask[p] \in Task
             /\ ptask[p].owner = p
             /\ \A i \in DOMAIN accepted : accepted[i] # ptask[p]
  <2>1. ptask[p] \in Task
    BY <1>6 DEF Busy, QInv, TypeOK, ProducersHold
  <2>2. ptask[p].owner = p /\ ptask[p].num = produced[p] /\ produced[p] \in Nat
    BY <1>6, QueueAssumption DEF Numbered, QInv, TypeOK
  <2>3. ASSUME NEW i \in DOMAIN accepted, accepted[i] = ptask[p] PROVE FALSE
    BY <1>6, <2>2, <2>3 DEF Numbered
  <2> QED
    BY <2>1, <2>2, <2>3
<1>7. ASSUME NEW p \in Producers, Busy(p) PROVE ptask[p] \notin Range(queue) /\ ptask[p] \notin HandCharged
  <2>1. ptask[p] \notin HandCharged
    BY <1>1, <1>6, <1>7
  <2>2. ASSUME ptask[p] \in Range(queue) PROVE FALSE
    <3>1. PICK i \in 1..Len(queue) : queue[i] = ptask[p]
      BY <1>3, <2>2 DEF Range
    <3> QED
      BY <1>1, <1>6, <1>7, <3>1
  <2> QED
    BY <2>1, <2>2
<1> QED
  BY <1>4, <1>5, <1>6, <1>7

(* The places together hold as many tasks as each of them. *)
LEMMA PlacesCounted ==
  ASSUME QInv, Numbered, LastDelivered
  PROVE  /\ IsFiniteSet(Charged)
         /\ Cardinality(Charged) = Len(queue) + Cardinality(HandCharged) + Cardinality(Charging)
<1> DEFINE puts == {ptask[p] : p \in Charging}
           f == [p \in Charging |-> ptask[p]]
<1>1. queue \in Seq(Task) /\ DOMAIN queue = 1..Len(queue) /\ Len(queue) \in Nat
  BY LenProperties DEF QInv, TypeOK
<1>2. IsFiniteSet(Range(queue)) /\ Cardinality(Range(queue)) = Len(queue)
  <2>1. IsFiniteSet(1..Len(queue)) /\ Cardinality(1..Len(queue)) = Len(queue)
    BY <1>1, FS_Interval
  <2>2. queue \in Surjection(1..Len(queue), Range(queue)) /\ queue \in Injection(1..Len(queue), Range(queue))
    <3>1. queue \in [1..Len(queue) -> Range(queue)]
      BY <1>1 DEF Range
    <3>2. \A t \in Range(queue) : \E i \in 1..Len(queue) : queue[i] = t
      BY <1>1 DEF Range
    <3>3. \A i, j \in 1..Len(queue) : queue[i] = queue[j] => i = j
      BY PlacesApart
    <3> QED
      BY <3>1, <3>2, <3>3 DEF Surjection, Injection, IsInjective
  <2> QED
    BY <2>1, <2>2, FS_Surjection
<1>3. IsFiniteSet(Charging)
  BY QueueAssumption, FS_Subset DEF Charging
<1>4. \A p \in Charging : p \in Producers /\ Busy(p)
  BY DEF Charging, Busy
<1>5. IsFiniteSet(puts) /\ Cardinality(puts) = Cardinality(Charging)
  <2>1. f \in [Charging -> puts] /\ \A t \in puts : \E p \in Charging : f[p] = t
    OBVIOUS
  <2>2. \A p, q \in Charging : f[p] = f[q] => p = q
    BY <1>4, PlacesApart
  <2>3. f \in Surjection(Charging, puts) /\ f \in Injection(Charging, puts)
    BY <2>1, <2>2 DEF Surjection, Injection, IsInjective
  <2> HIDE DEF f, puts
  <2> QED
    BY <1>3, <2>3, FS_Surjection
<1>6. IsFiniteSet(HandCharged)
  BY FS_EmptySet, FS_Singleton DEF HandCharged
<1>7. Range(queue) \cap HandCharged = {} /\ (Range(queue) \cup HandCharged) \cap puts = {}
  BY <1>4, PlacesApart
<1> DEFINE there == Range(queue) \cup HandCharged
<1>8. IsFiniteSet(there) /\ Cardinality(there) = Len(queue) + Cardinality(HandCharged)
  <2>1. /\ IsFiniteSet(there)
        /\ Cardinality(there) = Cardinality(Range(queue)) + Cardinality(HandCharged)
                                  - Cardinality(Range(queue) \cap HandCharged)
    BY <1>2, <1>6, FS_Union
  <2>2. Cardinality(Range(queue) \cap HandCharged) = 0
    BY <1>7, FS_EmptySet
  <2>3. Cardinality(HandCharged) \in Nat
    BY <1>6, FS_CardinalityType
  <2> HIDE DEF there
  <2> QED
    BY <1>1, <1>2, <2>1, <2>2, <2>3
<1>9. Charged = there \cup puts /\ there \cap puts = {}
  BY <1>7 DEF Charged
<1> HIDE DEF there, puts
<1>10. /\ IsFiniteSet(there \cup puts)
       /\ Cardinality(there \cup puts) = Cardinality(there) + Cardinality(puts) - Cardinality(there \cap puts)
  BY <1>5, <1>8, FS_Union
<1>11. Cardinality(there \cap puts) = 0 /\ Cardinality(there) \in Nat /\ Cardinality(puts) \in Nat
  BY <1>5, <1>8, <1>9, FS_EmptySet, FS_CardinalityType
<1>12. Cardinality(Charged) = Cardinality(there) + Cardinality(puts)
  BY <1>9, <1>10, <1>11
<1> QED
  BY <1>5, <1>8, <1>9, <1>10, <1>12

(* A task brings its bytes. *)
LEMMA BytesAdded ==
  ASSUME NEW T, IsFiniteSet(Bytes(T)), NEW t \in Task, t \notin T
  PROVE  /\ IsFiniteSet(Bytes(T \cup {t}))
         /\ Cardinality(Bytes(T \cup {t})) = Cardinality(Bytes(T)) + t.size
<1> DEFINE own == {t} \X (1..t.size)
<1>1. t.size \in Nat
  BY SizesAreNatural DEF Task
<1>2. IsFiniteSet(own) /\ Cardinality(own) = t.size
  <2>1. IsFiniteSet({t}) /\ Cardinality({t}) = 1
    BY FS_Singleton
  <2>2. IsFiniteSet(1..t.size) /\ Cardinality(1..t.size) = t.size
    BY <1>1, FS_Interval
  <2>3. IsFiniteSet({t} \X (1..t.size)) /\ Cardinality({t} \X (1..t.size)) = Cardinality({t}) * Cardinality(1..t.size)
    BY <2>1, <2>2, FS_Product
  <2> QED
    BY <1>1, <2>1, <2>2, <2>3
<1>3. Bytes(T \cup {t}) = Bytes(T) \cup own
  BY DEF Bytes
<1>4. Bytes(T) \cap own = {}
  BY DEF Bytes
<1> HIDE DEF own
<1>5. /\ IsFiniteSet(Bytes(T) \cup own)
      /\ Cardinality(Bytes(T) \cup own) = Cardinality(Bytes(T)) + Cardinality(own) - Cardinality(Bytes(T) \cap own)
  BY <1>2, FS_Union
<1>6. Cardinality(Bytes(T) \cap own) = 0 /\ Cardinality(Bytes(T)) \in Nat
  BY <1>4, FS_EmptySet, FS_CardinalityType
<1>7. Cardinality(Bytes(T) \cup own) = Cardinality(Bytes(T)) + t.size
  BY <1>1, <1>2, <1>5, <1>6
<1> QED
  BY <1>3, <1>5, <1>7

(* A task that is taken out takes its bytes with it. *)
LEMMA BytesRemoved ==
  ASSUME NEW T, NEW t \in Task, t \notin T, IsFiniteSet(Bytes(T \cup {t}))
  PROVE  /\ IsFiniteSet(Bytes(T))
         /\ Cardinality(Bytes(T)) = Cardinality(Bytes(T \cup {t})) - t.size
<1>1. Bytes(T) \subseteq Bytes(T \cup {t})
  BY DEF Bytes
<1>2. IsFiniteSet(Bytes(T))
  BY <1>1, FS_Subset
<1>3. Cardinality(Bytes(T \cup {t})) = Cardinality(Bytes(T)) + t.size
  BY <1>2, BytesAdded
<1>4. Cardinality(Bytes(T)) \in Nat /\ t.size \in Int
  BY <1>2, FS_CardinalityType, TaskSize
<1> QED
  BY <1>2, <1>3, <1>4

-----------------------------------------------------------------------------
(* What a step does to the charged tasks and to the count of their bytes:   *)
(* one task is charged, one is given back, or tasks move between places.    *)
ChargesOne(p) ==
  /\ p \in Admitted /\ ptask[p] \in Task /\ ptask[p] \notin Charged
  /\ Charged' = Charged \cup {ptask[p]} /\ mem' = mem + ptask[p].size

GivesBackOne ==
  /\ wtask \in Task /\ wtask \notin Charged'
  /\ Charged = Charged' \cup {wtask} /\ mem' = mem - wtask.size

LEMMA ChargeSteps ==
  ASSUME QInv, Numbered, LastDelivered, [Next]_vars
  PROVE  \/ Charged' = Charged /\ mem' = mem
         \/ \E p \in Producers : Charge(p) /\ ChargesOne(p)
         \/ GivesBackOne
<1> USE DEF producerVars, workerVars, historyVars
<1>0. queue \in Seq(Task) /\ ppc \in [Producers -> {"idle", "checked", "waiting", "woken", "admitted", "charged", "joining"}]
      /\ ptask \in [Producers -> Task \cup {NoTask}]
  BY DEF QInv, TypeOK
<1>1. ASSUME UNCHANGED <<queue, mem, HandCharged, Charging>>, \A p \in Charging : ptask'[p] = ptask[p]
      PROVE  Charged' = Charged /\ mem' = mem
  BY <1>1 DEF Charged
<1>2. ASSUME NEW p \in Producers, ProducerNext(p), ~Charge(p), ~Put(p) PROVE Charged' = Charged /\ mem' = mem
  <2>1. UNCHANGED <<queue, mem, wpc, wtask>> /\ Charging' = Charging
    BY <1>0, <1>2 DEF ProducerNext, ProducerStep, RegisterTask, DropTask, TestLimit, WaitForFinish, Finished, Charging
  <2>2. \A q \in Charging : ptask'[q] = ptask[q]
    BY <1>0, <1>2 DEF ProducerNext, ProducerStep, RegisterTask, DropTask, TestLimit, WaitForFinish, Finished, Charging
  <2> QED
    BY <1>1, <2>1, <2>2 DEF HandCharged, Holding
<1>3. ASSUME NEW p \in Producers, Charge(p) PROVE ChargesOne(p)
  <2>1. Busy(p) /\ p \in Admitted /\ p \notin Charging
    BY <1>3 DEF Charge, Busy, Admitted, Charging
  <2>2. Charging' = Charging \cup {p}
    BY <1>0, <1>3 DEF Charge, Charging
  <2>3. ptask[p] \in Task /\ ptask[p] \notin Range(queue) /\ ptask[p] \notin HandCharged
    BY <2>1, PlacesApart
  <2>4. \A q \in Charging : Busy(q) /\ q # p /\ q \in Producers
    BY <2>1 DEF Charging, Busy
  <2>5. \A q \in Charging : ptask[q] # ptask[p]
    BY <2>1, <2>4, PlacesApart
  <2>6. UNCHANGED <<queue, ptask, HandCharged>> /\ mem' = mem + ptask[p].size
    BY <1>3 DEF Charge, HandCharged, Holding
  <2> QED
    BY <2>1, <2>2, <2>3, <2>5, <2>6 DEF ChargesOne, Charged
<1>4. ASSUME NEW p \in Producers, Put(p) PROVE Charged' = Charged /\ mem' = mem
  <2>1. p \in Charging /\ ptask[p] \in Task
    BY <1>4 DEF Put, Charging, QInv, TypeOK, ProducersHold
  <2>2. Charging' = Charging \ {p} /\ \A q \in Charging' : ptask'[q] = ptask[q]
    BY <1>0, <1>4 DEF Put, Charging
  <2>3. Range(queue)' = Range(queue) \cup {ptask[p]}
    <3>1. queue' = Append(queue, ptask[p])
      BY <1>4 DEF Put
    <3>2. /\ DOMAIN queue = 1..Len(queue) /\ Len(queue) \in Nat
          /\ DOMAIN queue' = 1..(Len(queue) + 1) /\ queue'[Len(queue) + 1] = ptask[p]
          /\ \A i \in 1..Len(queue) : queue'[i] = queue[i]
      BY <1>0, <2>1, <3>1, AppendProperties, LenProperties
    <3> QED
      BY <3>2 DEF Range
  <2>4. UNCHANGED <<mem, HandCharged>>
    BY <1>4 DEF Put, HandCharged, Holding
  <2>5. {ptask[q] : q \in Charging} = {ptask'[q] : q \in Charging'} \cup {ptask[p]}
    BY <2>1, <2>2
  <2> QED
    BY <2>3, <2>4, <2>5 DEF Charged
<1>5. ASSUME Get PROVE Charged' = Charged /\ mem' = mem
  <2>1. Range(queue) = Range(queue') \cup {Head(queue)}
    <3>1. queue' = Tail(queue) /\ queue # << >>
      BY <1>5 DEF Get
    <3>2. /\ DOMAIN queue = 1..Len(queue) /\ Len(queue) \in Nat /\ Len(queue) > 0 /\ Head(queue) = queue[1]
          /\ DOMAIN queue' = 1..(Len(queue) - 1)
          /\ \A i \in 1..(Len(queue) - 1) : queue'[i] = queue[i + 1]
      BY <1>0, <3>1, HeadTailProperties, LenProperties
    <3>3. ASSUME NEW i \in 1..Len(queue), i # 1 PROVE i - 1 \in DOMAIN queue' /\ queue'[i - 1] = queue[i]
      BY <3>2, <3>3
    <3>4. ASSUME NEW i \in DOMAIN queue' PROVE i + 1 \in DOMAIN queue /\ queue'[i] = queue[i + 1]
      BY <3>2
    <3>5. ASSUME NEW t \in Range(queue) PROVE t \in Range(queue') \cup {Head(queue)}
      <4>1. PICK i \in 1..Len(queue) : queue[i] = t
        BY <3>2 DEF Range
      <4>2. CASE i = 1
        BY <3>2, <4>1, <4>2
      <4>3. CASE i # 1
        BY <3>3, <4>1, <4>3 DEF Range
      <4> QED
        BY <4>2, <4>3
    <3>6. ASSUME NEW t \in Range(queue') PROVE t \in Range(queue)
      BY <3>4 DEF Range
    <3>7. Head(queue) \in Range(queue)
      <4>1. 1 \in DOMAIN queue /\ Head(queue) = queue[1]
        BY <3>2
      <4> QED
        BY <4>1 DEF Range
    <3> QED
      BY <3>5, <3>6, <3>7
  <2>2. HandCharged = {} /\ HandCharged' = {Head(queue)}
    BY <1>5 DEF Get, HandCharged, Holding
  <2>3. Charging' = Charging /\ UNCHANGED <<ptask, mem>>
    BY <1>0, <1>5 DEF Get, NotifyNotFull, Charging
  <2> QED
    BY <2>1, <2>2, <2>3 DEF Charged
<1>6. ASSUME PutFront PROVE Charged' = Charged /\ mem' = mem
  <2>1. wtask \in Task
    BY <1>6 DEF PutFront, QInv, TypeOK, WorkerHolds
  <2>2. Range(queue') = Range(queue) \cup {wtask}
    <3>1. queue' = <<wtask>> \o queue
      BY <1>6 DEF PutFront, AppendLeft
    <3>2. /\ DOMAIN queue = 1..Len(queue) /\ Len(queue) \in Nat
          /\ DOMAIN queue' = 1..(Len(queue) + 1) /\ queue'[1] = wtask
          /\ \A i \in 2..(Len(queue) + 1) : queue'[i] = queue[i - 1]
      <4>1. <<wtask>> \in Seq(Task) /\ Len(<<wtask>>) = 1 /\ <<wtask>>[1] = wtask
        BY <2>1
      <4> QED
        BY <1>0, <3>1, <4>1, ConcatProperties, LenProperties
    <3>3. ASSUME NEW i \in DOMAIN queue PROVE i + 1 \in DOMAIN queue' /\ queue'[i + 1] = queue[i]
      BY <3>2
    <3>4. ASSUME NEW i \in DOMAIN queue', i # 1 PROVE i - 1 \in DOMAIN queue /\ queue'[i] = queue[i - 1]
      BY <3>2, <3>4
    <3>5. 1 \in DOMAIN queue' /\ queue'[1] = wtask
      BY <3>2
    <3> QED
      BY <3>3, <3>4, <3>5 DEF Range
  <2>3. HandCharged = {wtask} /\ HandCharged' = {} /\ Charging' = Charging /\ UNCHANGED <<ptask, mem>>
    BY <1>6 DEF PutFront, HandCharged, Holding, Charging
  <2> QED
    BY <2>2, <2>3 DEF Charged
<1>7. ASSUME Uncharge PROVE GivesBackOne
  <2>1. wtask \in Task /\ HandCharged = {wtask} /\ HandCharged' = {}
    BY <1>7 DEF Uncharge, QInv, TypeOK, WorkerHolds, HandCharged, Holding
  <2>2. UNCHANGED <<queue, ptask, Charging>> /\ mem' = mem - wtask.size
    BY <1>7 DEF Uncharge, Charging
  <2>3. \A q \in Charging : ptask[q] \notin HandCharged
    <3>1. \A q \in Charging : q \in Producers /\ Busy(q)
      BY DEF Charging, Busy
    <3> QED
      BY <3>1, PlacesApart
  <2>4. wtask \notin Range(queue) /\ \A q \in Charging : ptask[q] # wtask
    BY <2>1, <2>3, PlacesApart
  <2> QED
    BY <2>1, <2>2, <2>4 DEF GivesBackOne, Charged
<1>8. ASSUME \/ WorkerLoop \/ TaskDone
             \/ \E ok \in BOOLEAN : Reconnect(ok)
             \/ \E outcome \in Outcomes : Call(outcome)
             \/ Close \/ CloserStep \/ UNCHANGED vars
      PROVE  Charged' = Charged /\ mem' = mem
  <2>1. UNCHANGED <<queue, mem, ppc, ptask>>
    BY <1>8 DEF WorkerLoop, TaskDone, Reconnect, Call, Close, CloserStep, Flushed, Stop, Drained, Shutdown, vars
  <2>2. HandCharged' = HandCharged
    BY <1>8 DEF WorkerLoop, TaskDone, Reconnect, Call, Close, CloserStep, Flushed, Stop, Drained, Shutdown, vars,
                HandCharged, Holding
  <2> QED
    BY <1>1, <2>1, <2>2 DEF Charging
<1> QED
  BY <1>2, <1>3, <1>4, <1>5, <1>6, <1>7, <1>8 DEF Next, ProducerNext, ProducerStep, WorkerStep

(* The count of the bytes is kept. *)
LEMMA BytesStay ==
  ASSUME QInv, Numbered, LastDelivered, BytesKept, [Next]_vars
  PROVE  BytesKept'
<1>1. CASE Charged' = Charged /\ mem' = mem
  BY <1>1 DEF BytesKept, Bytes
<1>2. ASSUME NEW p \in Producers, ChargesOne(p) PROVE BytesKept'
  <2> DEFINE t == ptask[p]
  <2>1. t \in Task /\ t \notin Charged /\ Charged' = Charged \cup {t} /\ mem' = mem + t.size
    BY <1>2 DEF ChargesOne
  <2> HIDE DEF t
  <2>2. /\ IsFiniteSet(Bytes(Charged \cup {t}))
        /\ Cardinality(Bytes(Charged \cup {t})) = Cardinality(Bytes(Charged)) + t.size
    BY <2>1, BytesAdded DEF BytesKept
  <2>3. Bytes(Charged)' = Bytes(Charged \cup {t})
    BY <2>1 DEF Bytes
  <2> QED
    BY <2>1, <2>2, <2>3 DEF BytesKept
<1>3. CASE GivesBackOne
  <2>1. PICK T : T = Charged'
    OBVIOUS
  <2>2. wtask \in Task /\ wtask \notin T /\ Charged = T \cup {wtask} /\ mem' = mem - wtask.size
    BY <1>3, <2>1 DEF GivesBackOne
  <2>3. IsFiniteSet(Bytes(T \cup {wtask})) /\ mem = Cardinality(Bytes(T \cup {wtask}))
    BY <2>2 DEF BytesKept
  <2>4. IsFiniteSet(Bytes(T)) /\ Cardinality(Bytes(T)) = Cardinality(Bytes(T \cup {wtask})) - wtask.size
    BY <2>2, <2>3, BytesRemoved
  <2>5. Bytes(Charged)' = Bytes(T)
    BY <2>1 DEF Bytes
  <2> QED
    BY <2>2, <2>3, <2>4, <2>5 DEF BytesKept
<1> QED
  BY <1>1, <1>2, <1>3, ChargeSteps

(* The task in hand was the last one delivered. *)
LEMMA LastStays ==
  ASSUME QInv, LastDelivered, [Next]_vars
  PROVE  LastDelivered'
<1> USE DEF producerVars, workerVars, historyVars
<1>1. ASSUME NEW outcome \in Outcomes, Call(outcome) PROVE LastDelivered'
  <2>1. CASE outcome = "ok"
    <3>1. wtask' = wtask /\ wtask \in Task /\ delivered \in Seq(Task) /\ delivered' = Append(delivered, wtask)
      BY <1>1, <2>1 DEF Call, QInv, TypeOK, WorkerHolds
    <3>2. Len(delivered') = Len(delivered) + 1 /\ delivered'[Len(delivered) + 1] = wtask /\ Len(delivered) \in Nat
      BY <3>1, AppendProperties, LenProperties
    <3> QED
      BY <3>1, <3>2 DEF LastDelivered
  <2>2. CASE outcome # "ok"
    BY <1>1, <2>2 DEF Call, LastDelivered
  <2> QED
    BY <2>1, <2>2
<1>2. ASSUME wpc' = "uncharge" => wpc = "uncharge" /\ UNCHANGED <<wtask, delivered>> PROVE LastDelivered'
  BY <1>2 DEF LastDelivered
<1>3. ASSUME NEW p \in Producers, ProducerNext(p) PROVE UNCHANGED <<wpc, wtask, delivered>>
  BY <1>3 DEF ProducerNext, ProducerStep, RegisterTask, DropTask, WaitForFinish, Finished, TestLimit, Charge, Put
<1>4. ASSUME WorkerStep \/ \E ok \in BOOLEAN : Reconnect(ok) PROVE wpc' # "uncharge"
  BY <1>4 DEF WorkerStep, WorkerLoop, Get, Uncharge, TaskDone, PutFront, Reconnect
<1>5. ASSUME Close \/ CloserStep \/ UNCHANGED vars PROVE UNCHANGED <<wpc, wtask, delivered>>
  BY <1>5 DEF Close, CloserStep, Flushed, Stop, Drained, Shutdown, vars
<1> QED
  BY <1>1, <1>2, <1>3, <1>4, <1>5 DEF Next

-----------------------------------------------------------------------------
(* The limit: how many threads can be past the test together.               *)

(* Multiples of the largest size, for the provers. *)
LEMMA Multiples ==
  ASSUME NEW L \in Nat, NEW a \in Int, NEW b \in Int, a <= b
  PROVE  /\ a * L \in Int /\ b * L \in Int /\ a * L <= b * L
         /\ (a + 1) * L = a * L + L /\ (a - 1) * L = a * L - L /\ 0 * L = 0
<1>1. /\ a * L \in Int /\ b * L \in Int /\ (a + 1) * L = a * L + L
      /\ (a - 1) * L = a * L - L /\ 0 * L = 0
  OBVIOUS
<1>2. a * L <= b * L
  <2>1. (b - a) * L >= 0 /\ (b - a) * L = b * L - a * L
    OBVIOUS
  <2> QED
    BY <1>1, <2>1
<1> QED
  BY <1>1, <1>2

(* Only a thread that passes the test, or charges its task, moves.  *)
LEMMA AdmittedSteps ==
  ASSUME QInv, [Next]_vars
  PROVE  \/ Admitted' = Admitted /\ \A p \in Admitted : ptask'[p] = ptask[p]
         \/ \E p \in Producers : /\ TestLimit(p) /\ ~Full(p) /\ Admitted' = Admitted \cup {p} /\ p \notin Admitted
                                 /\ ptask[p] \in Task /\ ptask' = ptask /\ mem' = mem
         \/ \E p \in Producers : /\ Charge(p) /\ p \in Admitted /\ Admitted' = Admitted \ {p}
                                 /\ ptask[p] \in Task /\ ptask' = ptask /\ mem' = mem + ptask[p].size
<1> USE DEF producerVars, workerVars, historyVars
<1>0. /\ ppc \in [Producers -> {"idle", "checked", "waiting", "woken", "admitted", "charged", "joining"}]
      /\ ptask \in [Producers -> Task \cup {NoTask}]
  BY DEF QInv, TypeOK
<1>1. ASSUME NEW p \in Producers, ProducerNext(p), ~TestLimit(p), ~Charge(p)
      PROVE  Admitted' = Admitted /\ \A q \in Admitted : ptask'[q] = ptask[q]
  BY <1>0, <1>1 DEF ProducerNext, ProducerStep, RegisterTask, DropTask, WaitForFinish, Finished, Put, Admitted
<1>2. ASSUME NEW p \in Producers, TestLimit(p), Full(p)
      PROVE  Admitted' = Admitted /\ \A q \in Admitted : ptask'[q] = ptask[q]
  BY <1>0, <1>2 DEF TestLimit, Admitted
<1>3. ASSUME NEW p \in Producers, TestLimit(p), ~Full(p)
      PROVE  /\ Admitted' = Admitted \cup {p} /\ p \notin Admitted
             /\ ptask[p] \in Task /\ ptask' = ptask /\ mem' = mem
  <2>1. ptask[p] \in Task /\ ptask' = ptask /\ mem' = mem /\ p \notin Admitted
    BY <1>3 DEF TestLimit, Admitted, QInv, TypeOK, ProducersHold
  <2>2. Admitted' = Admitted \cup {p}
    BY <1>0, <1>3 DEF TestLimit, Admitted
  <2> QED
    BY <2>1, <2>2
<1>4. ASSUME NEW p \in Producers, Charge(p)
      PROVE  /\ p \in Admitted /\ Admitted' = Admitted \ {p}
             /\ ptask[p] \in Task /\ ptask' = ptask /\ mem' = mem + ptask[p].size
  <2>1. p \in Admitted /\ ptask[p] \in Task /\ ptask' = ptask /\ mem' = mem + ptask[p].size
    BY <1>4 DEF Charge, Admitted, QInv, TypeOK, ProducersHold
  <2>2. Admitted' = Admitted \ {p}
    BY <1>0, <1>4 DEF Charge, Admitted
  <2> QED
    BY <2>1, <2>2
<1>5. ASSUME Get PROVE Admitted' = Admitted /\ ptask' = ptask
  BY <1>0, <1>5 DEF Get, NotifyNotFull, Admitted
<1>6. ASSUME \/ WorkerStep /\ ~Get
             \/ \E ok \in BOOLEAN : Reconnect(ok)
             \/ \E outcome \in Outcomes : Call(outcome)
             \/ Close \/ CloserStep \/ UNCHANGED vars
      PROVE  Admitted' = Admitted /\ ptask' = ptask
  <2>1. UNCHANGED <<ppc, ptask>>
    BY <1>6 DEF WorkerStep, WorkerLoop, Uncharge, TaskDone, PutFront, Reconnect, Call, Close, CloserStep,
                Flushed, Stop, Drained, Shutdown, vars
  <2> QED
    BY <2>1 DEF Admitted
<1> QED
  BY <1>1, <1>2, <1>3, <1>4, <1>5, <1>6 DEF Next

(* The room the admitted threads need is there after each step. *)
LEMMA RoomStays ==
  ASSUME QInv, Numbered, LastDelivered, BytesKept, BytesKept', RoomLeft, [Next]_vars
  PROVE  RoomLeft'
<1> SUFFICES ASSUME NEW L \in Sizes, \A s \in Sizes : s <= L
             PROVE  /\ mem' = 0 \/ mem' <= (MaxMemory - 1) + (Cardinality(Producers) - 1) * L
                    /\ Admitted' # {} => \E p \in Admitted' :
                         mem' + ptask'[p].size + (Cardinality(Admitted') - 1) * L
                           <= (MaxMemory - 1) + (Cardinality(Producers) - 1) * L
  BY DEF RoomLeft
<1>1. /\ L \in Nat /\ MaxMemory \in Nat /\ IsFiniteSet(Producers) /\ Producers # {}
      /\ mem \in Nat /\ mem' \in Nat
  BY QueueAssumption, SizesAreNatural, FS_CardinalityType DEF BytesKept
<1>2. Cardinality(Producers) \in Nat /\ Cardinality(Producers) >= 1
  BY <1>1, FS_CardinalityType, FS_EmptySet
<1>3. PICK B : B = (MaxMemory - 1) + (Cardinality(Producers) - 1) * L
  OBVIOUS
<1>4. B \in Int /\ B >= MaxMemory - 1
  <2>1. (Cardinality(Producers) - 1) * L \in Nat
    BY <1>1, <1>2
  <2> QED
    BY <1>1, <1>3, <2>1
<1>5. Admitted \subseteq Producers /\ IsFiniteSet(Admitted) /\ Cardinality(Admitted) \in Nat
      /\ Cardinality(Admitted) <= Cardinality(Producers)
  BY <1>1, FS_Subset, FS_CardinalityType DEF Admitted
<1>6. ASSUME NEW t \in Task PROVE t.size \in Nat /\ t.size <= L
  <2>1. t.size \in Sizes
    BY DEF Task
  <2> QED
    BY <2>1, SizesAreNatural
<1>7. /\ mem = 0 \/ mem <= B
      /\ Admitted # {} => \E p \in Admitted : mem + ptask[p].size + (Cardinality(Admitted) - 1) * L <= B
  BY <1>3 DEF RoomLeft
<1>8. \A p \in Admitted : ptask[p] \in Task
  BY DEF Admitted, QInv, TypeOK, ProducersHold
<1>9. mem' <= mem \/ \E p \in Producers : Charge(p) /\ ChargesOne(p)
  <2>1. ASSUME GivesBackOne PROVE mem' <= mem
    BY <1>1, <1>6, <2>1 DEF GivesBackOne
  <2> QED
    BY <1>1, <2>1, ChargeSteps
<1>10. ASSUME Admitted' = Admitted, \A p \in Admitted : ptask'[p] = ptask[p]
       PROVE  /\ mem' = 0 \/ mem' <= B
              /\ Admitted' # {} => \E p \in Admitted' :
                   mem' + ptask'[p].size + (Cardinality(Admitted') - 1) * L <= B
  <2>1. mem' <= mem
    <3>1. ASSUME NEW p \in Producers, Charge(p), ChargesOne(p) PROVE FALSE
      BY <1>10, <3>1 DEF Charge, Admitted, QInv, TypeOK
    <3> QED
      BY <1>9, <3>1
  <2>2. mem' = 0 \/ mem' <= B
    BY <1>1, <1>4, <1>7, <2>1
  <2>3. ASSUME NEW p \in Admitted, mem + ptask[p].size + (Cardinality(Admitted) - 1) * L <= B
        PROVE  mem' + ptask'[p].size + (Cardinality(Admitted') - 1) * L <= B
    <3>1. (Cardinality(Admitted) - 1) * L \in Int
      BY <1>1, <1>5
    <3>2. ptask[p].size \in Nat /\ ptask'[p] = ptask[p]
      BY <1>6, <1>8, <1>10
    <3>3. mem' + ptask[p].size + (Cardinality(Admitted) - 1) * L <= B
      BY <1>1, <1>4, <2>1, <2>3, <3>1, <3>2
    <3> QED
      BY <1>10, <3>2, <3>3
  <2> QED
    BY <1>7, <1>10, <2>2, <2>3
<1>11. ASSUME NEW p \in Producers, ~Full(p), Admitted' = Admitted \cup {p}, p \notin Admitted,
              ptask[p] \in Task, ptask' = ptask, mem' = mem
       PROVE  /\ mem' = 0 \/ mem' <= B
              /\ \E q \in Admitted' : mem' + ptask'[q].size + (Cardinality(Admitted') - 1) * L <= B
  <2>1. Cardinality(Admitted') = Cardinality(Admitted) + 1
    BY <1>5, <1>11, FS_AddElement
  <2>2. Cardinality(Admitted) <= Cardinality(Producers) - 1
    <3>1. Admitted' \subseteq Producers /\ Cardinality(Admitted') <= Cardinality(Producers)
      BY <1>1, <1>5, <1>11, FS_Subset
    <3> QED
      BY <1>2, <1>5, <2>1, <3>1
  <2>3. /\ Cardinality(Admitted) * L <= (Cardinality(Producers) - 1) * L
        /\ Cardinality(Admitted) * L \in Int /\ (Cardinality(Producers) - 1) * L \in Int
    BY <1>1, <1>2, <1>5, <2>2, Multiples
  <2>4. mem + ptask[p].size < MaxMemory /\ ptask[p].size \in Nat
    BY <1>1, <1>6, <1>11 DEF Full
  <2>5. mem + ptask[p].size + Cardinality(Admitted) * L <= B
    BY <1>1, <1>3, <2>3, <2>4
  <2>6. Cardinality(Admitted') - 1 = Cardinality(Admitted)
    BY <1>5, <2>1
  <2>7. mem' + ptask'[p].size + (Cardinality(Admitted') - 1) * L <= B
    BY <1>11, <2>5, <2>6
  <2> QED
    BY <1>7, <1>11, <2>7
<1>12. ASSUME NEW p \in Producers, p \in Admitted, Admitted' = Admitted \ {p},
              ptask[p] \in Task, ptask' = ptask, mem' = mem + ptask[p].size
       PROVE  /\ mem' <= B
              /\ Admitted' # {} => \E q \in Admitted' :
                   mem' + ptask'[q].size + (Cardinality(Admitted') - 1) * L <= B
  <2>0. PICK q \in Admitted : mem + ptask[q].size + (Cardinality(Admitted) - 1) * L <= B
    BY <1>7, <1>12
  <2>1. /\ Cardinality(Admitted') = Cardinality(Admitted) - 1
        /\ Cardinality(Admitted) >= 1 /\ Cardinality(Admitted') \in Nat
    <3>1. IsFiniteSet(Admitted') /\ Cardinality(Admitted') = Cardinality(Admitted) - 1
      BY <1>5, <1>12, FS_RemoveElement
    <3> QED
      BY <1>5, <3>1, FS_CardinalityType
  <2>2. PICK room : room = (Cardinality(Admitted) - 1) * L
    OBVIOUS
  <2>3. /\ room \in Nat
        /\ (Cardinality(Admitted') - 1) * L = room - L
    <3>1. room = Cardinality(Admitted') * L /\ Cardinality(Admitted') * L \in Nat
      BY <1>1, <2>1, <2>2
    <3>2. (Cardinality(Admitted') - 1) * L = Cardinality(Admitted') * L - L
      BY <1>1, <2>1, Multiples
    <3> QED
      BY <3>1, <3>2
  <2>8. room \in Int /\ room >= 0 /\ L \in Int /\ L >= 0 /\ mem' \in Int /\ B \in Int
    BY <1>1, <1>4, <2>3
  <2>4. \A r \in Admitted : ptask[r].size \in Nat /\ ptask[r].size <= L
    BY <1>6, <1>8
  <2>5. mem + ptask[q].size + room <= B /\ ptask[q].size \in Nat /\ ptask[q].size <= L
        /\ ptask[p].size \in Nat /\ ptask[p].size <= L
    BY <1>12, <2>0, <2>2, <2>4
  <2>6. CASE q = p
    <3>1. mem' + room <= B
      BY <1>1, <1>4, <1>12, <2>3, <2>5, <2>6
    <3>2. ASSUME NEW r \in Admitted' PROVE mem' + ptask'[r].size + (room - L) <= B
      <4>1. ptask'[r].size \in Nat /\ ptask'[r].size <= L
        BY <1>12, <2>4
      <4> QED
        BY <2>8, <3>1, <4>1
    <3>3. ASSUME NEW x \in Int, NEW y \in Int, NEW z \in Int, y >= 0, x + y <= z PROVE x <= z
      BY <3>3
    <3>4. mem' <= B
      BY <2>8, <3>1, <3>3
    <3> QED
      BY <2>3, <3>2, <3>4
  <2>7. CASE q # p
    <3>1. room >= L
      <4>1. Admitted' # {}
        BY <1>12, <2>7
      <4>2. Cardinality(Admitted') >= 1
        BY <1>5, <1>12, <2>1, <4>1, FS_EmptySet, FS_RemoveElement
      <4>3. (Cardinality(Admitted') - 1) * L \in Nat
        BY <1>1, <2>1, <4>2
      <4> QED
        BY <1>1, <2>3, <4>3
    <3>2. q \in Admitted' /\ mem' + ptask'[q].size + (room - L) <= B
      BY <1>1, <1>4, <1>12, <2>3, <2>5, <2>7
    <3>3. mem' <= B
      BY <1>1, <1>4, <1>12, <2>3, <2>5, <3>1
    <3> QED
      BY <2>3, <3>2, <3>3
  <2> QED
    BY <2>6, <2>7
<1>13. /\ mem' = 0 \/ mem' <= B
       /\ Admitted' # {} => \E p \in Admitted' :
            mem' + ptask'[p].size + (Cardinality(Admitted') - 1) * L <= B
  BY <1>10, <1>11, <1>12, AdmittedSteps
<1> QED
  BY <1>3, <1>13

(* The invariant of the memory is inductive, and always holds. *)
LEMMA MAlways == Spec => []MInv
<1>1. Init => MInv
  <2> SUFFICES ASSUME Init PROVE MInv
    OBVIOUS
  <2>1. Numbered /\ LastDelivered
    BY DEF Init, Numbered, LastDelivered, Busy
  <2>2. BytesKept
    <3>1. Bytes(Charged) = {}
      BY DEF Init, Bytes, Charged, HandCharged, Charging, Holding, Range
    <3> QED
      BY <3>1, FS_EmptySet DEF Init, BytesKept
  <2>3. RoomLeft
    BY DEF Init, RoomLeft, Admitted
  <2> QED
    BY <2>1, <2>2, <2>3, QInit DEF MInv
<1>2. MInv /\ [Next]_vars => MInv'
  BY QInductive, NumbersKept, LastStays, BytesStay, RoomStays DEF MInv
<1> QED
  BY <1>1, <1>2, PTL DEF Spec

(* The two counters of the queue agree with what is in it and on its way,   *)
(* and the memory exceeds the limit by at most a task of each other thread, *)
(* for any number of threads, any sizes and any limit.                      *)
THEOREM CountersAgree == Spec => []Accounting
<1>1. MInv => Accounting
  <2> SUFFICES ASSUME MInv PROVE Accounting
    OBVIOUS
  <2>1. UnfinishedCounted
    BY DEF MInv, QInv
  <2>2. MemoryCounted
    BY PlacesCounted DEF MInv, BytesKept, MemoryCounted
  <2>3. MemoryBounded
    BY DEF MInv, RoomLeft, MemoryBounded
  <2> QED
    BY <2>1, <2>2, <2>3 DEF Accounting
<1> QED
  BY <1>1, MAlways, PTL

(***************************************************************************)
(* Remote tracking.                                                        *)
(***************************************************************************)

Entries == [task : Task, whole : BOOLEAN]
Messages == [conn : Nat, task : Task]

NetTyped ==
  /\ conn \in Nat
  /\ wire \subseteq Messages
  /\ applied \in Seq(Entries)
  /\ reply \in {"none", "ok", "error"}
  /\ open \in BOOLEAN /\ calling \in BOOLEAN /\ registered \in BOOLEAN

(* The task was in the worker's hands, now or before. *)
Started(t) == \E n \in DOMAIN accepted : n <= Len(delivered) + 1 /\ t = accepted[n]

OnlyStarted ==
  /\ \A m \in wire : Started(m.task)
  /\ \A i \in DOMAIN applied : Started(applied[i].task)

(* The message is on the client's websocket as it is now. *)
Live(m) == m.conn = conn /\ open

(* The worker waits in a call, for the one message on its websocket. *)
ReplyAnswers ==
  /\ calling => wpc = "exec" /\ CanRetry /\ ~needsReconnect
  /\ reply # "none" => calling
  /\ reply = "ok" => WholeIn(wtask, applied)
  /\ \A m \in wire : /\ m.conn <= conn
                     /\ Live(m) => calling /\ reply = "none" /\ m.task = wtask

RInv == QInv /\ NetTyped /\ Numbered /\ OnlyStarted /\ ReplyAnswers /\ AcknowledgedIsApplied

-----------------------------------------------------------------------------
(* Every step of remote tracking is a step of the client's queue. *)
LEMMA QueueSteps == [RTNext]_allVars => [Next]_vars
<1> SUFFICES ASSUME [RTNext]_allVars PROVE [Next]_vars
  OBVIOUS
<1>1. "ok" \in Outcomes /\ "closed" \in Outcomes /\ "raised" \in Outcomes
  BY NetworkAssumption
<1>2. ASSUME LocalStep PROVE Next
  BY <1>2 DEF LocalStep, Next
<1>3. ASSUME SocketStep PROVE Next \/ UNCHANGED vars
  <2>1. ASSUME Connect \/ Send PROVE UNCHANGED vars
    BY <2>1 DEF Connect, Send
  <2>2. ASSUME FindClosed \/ Receive PROVE Next
    BY <1>1, <2>2 DEF FindClosed, Receive, Next
  <2>3. ASSUME Reconnected PROVE Next
    BY <2>3 DEF Reconnected, Next
  <2> QED
    BY <1>3, <2>1, <2>2, <2>3 DEF SocketStep
<1>4. ASSUME ConnectRefused \/ ReconnectFails PROVE Next
  BY <1>1, <1>4 DEF ConnectRefused, ReconnectFails, Next
<1>5. ASSUME ServerStep \/ (\E m \in wire : HandleRaises(m)) \/ LoseConnection \/ Crash \/ Expire
      PROVE  UNCHANGED vars
  BY <1>5 DEF ServerStep, Handle, HandleRaises, LoseConnection, Crash, Expire
<1>6. ASSUME UNCHANGED allVars PROVE UNCHANGED vars
  BY <1>6 DEF allVars
<1> QED
  BY <1>2, <1>3, <1>4, <1>5, <1>6 DEF RTNext

(* What was delivered is the beginning of what was put. *)
LEMMA DeliveredFirst ==
  ASSUME QInv
  PROVE  /\ accepted \in Seq(Task) /\ delivered \in Seq(Task)
         /\ Len(delivered) <= Len(accepted)
         /\ \A k \in DOMAIN delivered : k \in DOMAIN accepted /\ accepted[k] = delivered[k]
<1>1. delivered \in Seq(Task) /\ queue \in Seq(Task) /\ accepted \in Seq(Task)
  BY DEF QInv, TypeOK
<1>2. InHand \in Seq(Task)
  BY DEF QInv, TypeOK, WorkerHolds, InHand, Holding
<1> DEFINE rest == InHand \o queue
<1>3. rest \in Seq(Task)
  BY <1>1, <1>2, ConcatProperties
<1>4. accepted = delivered \o rest
  BY <1>1, <1>2, ConcatAssociative DEF QInv, TasksConserved
<1> HIDE DEF rest
<1>5. /\ Len(accepted) = Len(delivered) + Len(rest) /\ Len(rest) \in Nat
      /\ \A k \in 1..Len(accepted) :
           accepted[k] = IF k <= Len(delivered) THEN delivered[k] ELSE rest[k - Len(delivered)]
  BY <1>1, <1>3, <1>4, ConcatProperties, LenProperties
<1>6. DOMAIN delivered = 1..Len(delivered) /\ DOMAIN accepted = 1..Len(accepted) /\ Len(delivered) \in Nat
  BY <1>1, LenProperties
<1> QED
  BY <1>1, <1>5, <1>6

(* The task in the worker's hands comes after what was delivered. *)
LEMMA HeldIsNext ==
  ASSUME QInv, Holding
  PROVE  /\ wtask \in Task /\ Len(delivered) \in Nat
         /\ Len(delivered) + 1 \in DOMAIN accepted
         /\ accepted[Len(delivered) + 1] = wtask
<1>1. delivered \in Seq(Task) /\ queue \in Seq(Task) /\ accepted \in Seq(Task)
  BY DEF QInv, TypeOK
<1>2. wtask \in Task
  BY DEF QInv, TypeOK, WorkerHolds, Holding
<1>3. <<wtask>> \in Seq(Task) /\ Len(<<wtask>>) = 1
  BY <1>2
<1> DEFINE front == delivered \o <<wtask>>
<1>4. /\ front \in Seq(Task) /\ Len(front) = Len(delivered) + 1
      /\ front[Len(delivered) + 1] = wtask
  <2>1. front = Append(delivered, wtask)
    BY <1>1, <1>2, AppendIsConcat
  <2> QED
    BY <1>1, <1>2, <2>1, AppendProperties
<1>5. accepted = front \o queue
  BY DEF QInv, TasksConserved, InHand
<1> HIDE DEF front
<1>6. Len(accepted) = Len(front) + Len(queue) /\ \A k \in 1..Len(front) : accepted[k] = front[k]
  <2>1. /\ Len(front \o queue) = Len(front) + Len(queue)
        /\ \A k \in 1..Len(front \o queue) :
             (front \o queue)[k] = IF k <= Len(front) THEN front[k] ELSE queue[k - Len(front)]
    BY <1>1, <1>4, ConcatProperties
  <2>2. Len(front) \in Nat /\ Len(queue) \in Nat
    BY <1>1, <1>4, LenProperties
  <2> QED
    BY <1>5, <2>1, <2>2
<1>7. DOMAIN accepted = 1..Len(accepted) /\ Len(delivered) \in Nat /\ Len(queue) \in Nat
  BY <1>1, LenProperties
<1> QED
  BY <1>2, <1>4, <1>6, <1>7

(* What the queue remembers only grows. *)
LEMMA HistoryGrows ==
  ASSUME QInv, [Next]_vars
  PROVE  /\ \/ accepted' = accepted
            \/ \E p \in Producers : Put(p) /\ ptask[p] \in Task /\ accepted' = Append(accepted, ptask[p])
         /\ \/ delivered' = delivered
            \/ Call("ok") /\ delivered' = Append(delivered, wtask)
<1> USE DEF producerVars, workerVars, historyVars
<1>1. ASSUME NEW p \in Producers, ProducerNext(p)
      PROVE  /\ \/ accepted' = accepted
                \/ Put(p) /\ ptask[p] \in Task /\ accepted' = Append(accepted, ptask[p])
             /\ delivered' = delivered
  <2>1. ASSUME Put(p) PROVE ptask[p] \in Task
    BY <2>1 DEF Put, QInv, TypeOK, ProducersHold
  <2> QED
    BY <1>1, <2>1 DEF ProducerNext, ProducerStep, RegisterTask, DropTask, WaitForFinish, TestLimit,
                      Charge, Put, Finished
<1>2. ASSUME WorkerStep \/ (\E ok \in BOOLEAN : Reconnect(ok)) \/ Close \/ CloserStep
      PROVE  accepted' = accepted /\ delivered' = delivered
  BY <1>2 DEF WorkerStep, WorkerLoop, Get, Uncharge, TaskDone, PutFront, Reconnect, Close, CloserStep,
              Flushed, Stop, Drained, Shutdown
<1>3. ASSUME NEW outcome \in Outcomes, Call(outcome)
      PROVE  /\ accepted' = accepted
             /\ delivered' = delivered \/ (Call("ok") /\ delivered' = Append(delivered, wtask))
  BY <1>3 DEF Call
<1>4. ASSUME UNCHANGED vars PROVE accepted' = accepted /\ delivered' = delivered
  BY <1>4 DEF vars
<1> QED
  BY <1>1, <1>2, <1>3, <1>4 DEF Next

(* What was put stays where it is, and the delivered part only grows. *)
LEMMA PrefixKept ==
  ASSUME QInv, [Next]_vars
  PROVE  /\ \A i \in DOMAIN accepted : i \in DOMAIN accepted' /\ accepted'[i] = accepted[i]
         /\ \A i \in DOMAIN accepted' \ DOMAIN accepted :
              i = Len(accepted) + 1 /\ \E p \in Producers : Put(p) /\ accepted'[i] = ptask[p]
         /\ Len(delivered) \in Nat /\ Len(delivered') \in Nat /\ Len(delivered) <= Len(delivered')
<1>1. accepted \in Seq(Task) /\ delivered \in Seq(Task)
  BY DEF QInv, TypeOK
<1>2. ASSUME NEW p \in Producers, Put(p), ptask[p] \in Task, accepted' = Append(accepted, ptask[p])
      PROVE  /\ \A i \in DOMAIN accepted : i \in DOMAIN accepted' /\ accepted'[i] = accepted[i]
             /\ \A i \in DOMAIN accepted' \ DOMAIN accepted :
                  i = Len(accepted) + 1 /\ accepted'[i] = ptask[p]
  BY <1>1, <1>2, AppendProperties, LenProperties
<1>3. \/ delivered' = delivered
      \/ wtask \in Task /\ delivered' = Append(delivered, wtask)
  <2>1. ASSUME Call("ok") PROVE wtask \in Task
    BY <2>1 DEF Call, QInv, TypeOK, WorkerHolds
  <2> QED
    BY <2>1, HistoryGrows
<1>4. Len(delivered) \in Nat /\ Len(delivered') \in Nat /\ Len(delivered) <= Len(delivered')
  BY <1>1, <1>3, AppendProperties, LenProperties
<1> QED
  BY <1>2, <1>4, HistoryGrows

(* What was started is started for good. *)
LEMMA StartedKept ==
  ASSUME QInv, [Next]_vars, NEW t, Started(t)
  PROVE  Started(t)'
<1>1. PICK n \in DOMAIN accepted : n <= Len(delivered) + 1 /\ t = accepted[n]
  BY DEF Started
<1>2. n \in DOMAIN accepted' /\ accepted'[n] = t /\ n \in Nat
  <2>1. n \in Nat
    BY LenProperties DEF QInv, TypeOK
  <2> QED
    BY <1>1, <2>1, PrefixKept
<1>3. n <= Len(delivered') + 1
  BY <1>1, <1>2, PrefixKept
<1> QED
  BY <1>2, <1>3 DEF Started

-----------------------------------------------------------------------------
(* How a step changes what is applied, on the wire, and delivered. *)
Applies(m, whole) == applied' = Append(applied, [task |-> m.task, whole |-> whole])

(* Only a message on the wire is applied, whole or in part. *)
LEMMA StorageSteps ==
  ASSUME [RTNext]_allVars
  PROVE  applied' = applied \/ \E m \in wire, whole \in BOOLEAN : Applies(m, whole)
<1> USE DEF Applies, netVars
<1>1. ASSUME LocalStep PROVE applied' = applied
  BY <1>1 DEF LocalStep
<1>2. ASSUME SocketStep PROVE applied' = applied
  BY <1>2 DEF SocketStep, Connect, Send, FindClosed, Receive, Reconnected
<1>3. ASSUME ConnectRefused \/ ReconnectFails \/ LoseConnection \/ Expire PROVE applied' = applied
  BY <1>3 DEF ConnectRefused, ReconnectFails, LoseConnection, Expire
<1>4. ASSUME NEW m \in wire, Handle(m) PROVE applied' = applied \/ Applies(m, TRUE)
  BY <1>4 DEF Handle
<1>5. ASSUME NEW m \in wire, HandleRaises(m) PROVE applied' = applied \/ Applies(m, FALSE)
  BY <1>5 DEF HandleRaises
<1>6. ASSUME Crash PROVE applied' = applied \/ \E m \in wire : Applies(m, FALSE)
  BY <1>6 DEF Crash
<1>7. ASSUME UNCHANGED allVars PROVE applied' = applied
  BY <1>7 DEF allVars
<1> QED
  BY <1>1, <1>2, <1>3, <1>4, <1>5, <1>6, <1>7 DEF RTNext, ServerStep

(* Only Send puts a message on the wire, the one of the task in hand. *)
LEMMA WireSteps ==
  ASSUME [RTNext]_allVars
  PROVE  wire' \subseteq wire \/ (Send /\ wire' = wire \cup {[conn |-> conn, task |-> wtask]})
<1> USE DEF netVars
<1>1. ASSUME LocalStep PROVE wire' = wire
  BY <1>1 DEF LocalStep
<1>2. ASSUME SocketStep, ~Send PROVE wire' = wire
  BY <1>2 DEF SocketStep, Connect, FindClosed, Receive, Reconnected
<1>3. ASSUME ConnectRefused \/ ReconnectFails \/ Expire PROVE wire' = wire
  BY <1>3 DEF ConnectRefused, ReconnectFails, Expire
<1>4. ASSUME LoseConnection \/ Crash \/ (\E m \in wire : Handle(m) \/ HandleRaises(m))
      PROVE  wire' \subseteq wire
  BY <1>4 DEF LoseConnection, Crash, Handle, HandleRaises
<1>5. ASSUME UNCHANGED allVars PROVE wire' = wire
  BY <1>5 DEF allVars
<1>6. ASSUME Send PROVE wire' = wire \cup {[conn |-> conn, task |-> wtask]}
  BY <1>6 DEF Send
<1> QED
  BY <1>1, <1>2, <1>3, <1>4, <1>5, <1>6 DEF RTNext, ServerStep

(* A task counts as delivered only when its OK is received. *)
LEMMA Deliveries ==
  ASSUME QInv, [RTNext]_allVars
  PROVE  \/ delivered' = delivered
         \/ Receive /\ reply = "ok" /\ delivered' = Append(delivered, wtask)
<1> USE DEF producerVars, workerVars, historyVars
<1>1. ASSUME LocalStep PROVE delivered' = delivered
  BY <1>1 DEF LocalStep, ProducerNext, ProducerStep, RegisterTask, DropTask, WaitForFinish, TestLimit,
              Charge, Put, Finished, WorkerStep, WorkerLoop, Get, Uncharge, TaskDone, PutFront,
              Close, CloserStep, Flushed, Stop, Drained, Shutdown
<1>2. ASSUME Connect \/ Send \/ LoseConnection \/ Crash \/ Expire \/ UNCHANGED allVars
             \/ (\E m \in wire : Handle(m) \/ HandleRaises(m))
      PROVE  delivered' = delivered
  BY <1>2 DEF Connect, Send, LoseConnection, Crash, Expire, Handle, HandleRaises, allVars, vars
<1>3. ASSUME Reconnected \/ ReconnectFails PROVE delivered' = delivered
  BY <1>3 DEF Reconnected, ReconnectFails, Reconnect
<1>4. ASSUME FindClosed \/ ConnectRefused PROVE delivered' = delivered
  BY <1>4 DEF FindClosed, ConnectRefused, Call
<1>5. ASSUME Receive PROVE delivered' = delivered \/ (reply = "ok" /\ delivered' = Append(delivered, wtask))
  BY <1>5 DEF Receive, Call
<1> QED
  BY <1>1, <1>2, <1>3, <1>4, <1>5 DEF RTNext, SocketStep, ServerStep

(* While the worker waits for a reply, its task stays in its hands. *)
LEMMA WaitsStill ==
  ASSUME ReplyAnswers, calling, LocalStep
  PROVE  UNCHANGED workerVars
<1>1. wpc = "exec" /\ CanRetry
  BY DEF ReplyAnswers
<1>2. ASSUME NEW p \in Producers, ProducerNext(p) PROVE UNCHANGED workerVars
  BY <1>2 DEF ProducerNext, ProducerStep, RegisterTask, DropTask, WaitForFinish, TestLimit, Charge,
              Put, Finished, workerVars
<1>3. ASSUME WorkerStep PROVE FALSE
  BY <1>1, <1>3 DEF WorkerStep, WorkerLoop, Get, Uncharge, TaskDone, PutFront
<1>4. ASSUME Close \/ CloserStep PROVE UNCHANGED workerVars
  BY <1>4 DEF Close, CloserStep, Flushed, Stop, Drained, Shutdown, workerVars
<1> QED
  BY <1>2, <1>3, <1>4 DEF LocalStep

-----------------------------------------------------------------------------
(* The storage only grows. *)
LEMMA EntriesKept ==
  ASSUME NetTyped, [RTNext]_allVars
  PROVE  /\ applied' \in Seq(Entries)
         /\ \A i \in DOMAIN applied : i \in DOMAIN applied' /\ applied'[i] = applied[i]
         /\ \A i \in DOMAIN applied' \ DOMAIN applied : \E m \in wire : applied'[i].task = m.task
<1>1. applied \in Seq(Entries) /\ wire \subseteq Messages
  BY DEF NetTyped
<1>2. ASSUME NEW m \in wire, NEW whole \in BOOLEAN, Applies(m, whole)
      PROVE  /\ applied' \in Seq(Entries)
             /\ \A i \in DOMAIN applied : i \in DOMAIN applied' /\ applied'[i] = applied[i]
             /\ \A i \in DOMAIN applied' \ DOMAIN applied : applied'[i].task = m.task
  <2> DEFINE e == [task |-> m.task, whole |-> whole]
  <2>1. e \in Entries /\ e.task = m.task
    BY <1>1 DEF Entries, Messages
  <2>2. applied' = Append(applied, e)
    BY <1>2 DEF Applies
  <2> HIDE DEF e
  <2> QED
    BY <1>1, <2>1, <2>2, AppendProperties, LenProperties
<1> QED
  BY <1>1, <1>2, StorageSteps

(* What is in the storage whole stays there. *)
LEMMA WholeKept ==
  ASSUME NetTyped, [RTNext]_allVars, NEW t, WholeIn(t, applied)
  PROVE  WholeIn(t, applied')
<1> QED
  BY EntriesKept DEF WholeIn

(* The sockets, the wire and the storage keep their types. *)
LEMMA NetTypeKept ==
  ASSUME QInv, NetTyped, [RTNext]_allVars
  PROVE  NetTyped'
<1> USE DEF NetTyped, netVars
<1>1. applied' \in Seq(Entries)
  BY EntriesKept
<1>2. wire' \subseteq Messages
  <2>1. ASSUME Send PROVE [conn |-> conn, task |-> wtask] \in Messages
    <3>1. wtask \in Task
      BY <2>1, HeldIsNext DEF Send, Ready, Holding
    <3> QED
      BY <3>1 DEF Messages
  <2> QED
    BY <2>1, WireSteps
<1>3. ASSUME SocketStep PROVE NetTyped'
  <2>1. conn' \in Nat
    <3>1. conn' \in {conn, 1, conn + 1}
      BY <1>3 DEF SocketStep, Connect, Send, FindClosed, Receive, Reconnected
    <3> QED
      BY <3>1
  <2>4. reply' \in {"none", "ok", "error"}
    BY <1>3 DEF SocketStep, Connect, Send, FindClosed, Receive, Reconnected
  <2>2. open' \in BOOLEAN /\ calling' \in BOOLEAN
    BY <1>3 DEF SocketStep, Connect, Send, FindClosed, Receive, Reconnected
  <2>3. registered' \in BOOLEAN
    BY <1>3 DEF SocketStep, Connect, Send, FindClosed, Receive, Reconnected, Reinitialized
  <2> QED
    BY <1>1, <1>2, <2>1, <2>2, <2>3, <2>4
<1>4. ASSUME NEW m \in wire, Handle(m) \/ HandleRaises(m) PROVE NetTyped'
  BY <1>1, <1>2, <1>4 DEF Handle, HandleRaises, Answer
<1>5. ASSUME ConnectRefused \/ ReconnectFails \/ LoseConnection \/ Crash \/ Expire PROVE NetTyped'
  <2>1. conn' \in Nat /\ reply' \in {"none", "ok", "error"}
    BY <1>5 DEF ConnectRefused, ReconnectFails, LoseConnection, Crash, Expire
  <2>2. open' \in BOOLEAN /\ calling' \in BOOLEAN
    BY <1>5 DEF ConnectRefused, ReconnectFails, LoseConnection, Crash, Expire
  <2>3. registered' \in BOOLEAN
    BY <1>5 DEF ConnectRefused, ReconnectFails, LoseConnection, Crash, Expire
  <2> QED
    BY <1>1, <1>2, <2>1, <2>2, <2>3
<1>6. ASSUME LocalStep \/ UNCHANGED allVars PROVE NetTyped'
  BY <1>6 DEF LocalStep, allVars
<1> QED
  BY <1>3, <1>4, <1>5, <1>6 DEF RTNext, ServerStep

(* Only what was started is sent, and only what is sent is applied. *)
LEMMA OnlyStartedKept ==
  ASSUME QInv, NetTyped, OnlyStarted, [RTNext]_allVars
  PROVE  OnlyStarted'
<1>0. [Next]_vars
  BY QueueSteps
<1>1. ASSUME NEW m \in wire' PROVE Started(m.task)'
  <2>1. CASE m \in wire
    BY <1>0, <2>1, StartedKept DEF OnlyStarted
  <2>2. CASE Send /\ m = [conn |-> conn, task |-> wtask]
    <3>1. Started(wtask)
      <4>1. Holding
        BY <2>2 DEF Send, Ready, Holding
      <4> QED
        BY <4>1, HeldIsNext DEF Started
    <3>2. m.task = wtask
      BY <2>2
    <3> QED
      BY <1>0, <3>1, <3>2, StartedKept
  <2> QED
    BY <2>1, <2>2, WireSteps
<1>2. ASSUME NEW i \in DOMAIN applied' PROVE Started(applied[i].task)'
  <2>1. CASE i \in DOMAIN applied
    <3>1. Started(applied[i].task) /\ applied'[i] = applied[i]
      BY <2>1, EntriesKept DEF OnlyStarted
    <3> QED
      BY <1>0, <3>1, StartedKept
  <2>2. CASE i \notin DOMAIN applied
    <3>1. PICK m \in wire : applied'[i].task = m.task
      BY <2>2, EntriesKept
    <3> QED
      BY <1>0, <3>1, StartedKept DEF OnlyStarted
  <2> QED
    BY <2>1, <2>2
<1> QED
  BY <1>1, <1>2 DEF OnlyStarted

-----------------------------------------------------------------------------
(* The reply the worker gets is the one to its message: one action at a    *)
(* time.                                                                    *)
LEMMA WaitingKept ==
  ASSUME QInv, NetTyped, ReplyAnswers, LocalStep \/ UNCHANGED allVars
  PROVE  ReplyAnswers'
<1>1. UNCHANGED netVars
  BY DEF LocalStep, allVars
<1>2. calling => UNCHANGED workerVars
  BY WaitsStill DEF allVars, vars
<1> QED
  BY <1>1, <1>2 DEF ReplyAnswers, NetTyped, netVars, workerVars, CanRetry, Live, WholeIn

(* What the client does with its socket. *)
LEMMA SocketAnswers ==
  ASSUME QInv, NetTyped, ReplyAnswers, SocketStep \/ ConnectRefused \/ ReconnectFails
  PROVE  ReplyAnswers'
<1> USE DEF ReplyAnswers, NetTyped, producerVars, historyVars
<1>1. ASSUME Connect PROVE ReplyAnswers'
  BY <1>1 DEF Connect, vars, workerVars, Ready, CanRetry, Live, WholeIn, Messages
<1>2. ASSUME Send PROVE ReplyAnswers'
  <2>1. /\ UNCHANGED <<wpc, wtask, retry, needsReconnect, reply, applied, conn, open>>
        /\ calling' /\ reply = "none" /\ Ready
        /\ wire' = wire \cup {[conn |-> conn, task |-> wtask]}
    BY <1>2 DEF Send, vars, workerVars, Ready
  <2> QED
    BY <2>1 DEF Ready, CanRetry, Live
<1>3. ASSUME FindClosed PROVE ReplyAnswers'
  <2>1. reply = "none" /\ ~calling' /\ ~open /\ UNCHANGED <<conn, open, reply, wire>>
    BY <1>3 DEF FindClosed, Ready
  <2> QED
    BY <2>1 DEF Live
<1>4. ASSUME Receive PROVE ReplyAnswers'
  <2>1. reply # "none" /\ ~calling' /\ reply' = "none" /\ UNCHANGED <<conn, open, wire>>
    BY <1>4 DEF Receive
  <2> QED
    BY <2>1 DEF Live
<1>5. ASSUME Reconnected PROVE ReplyAnswers'
  <2>1. ~calling /\ ~calling' /\ reply' = "none" /\ conn' = conn + 1 /\ wire' = wire
    BY <1>5 DEF Reconnected, Reconnect
  <2> QED
    BY <2>1 DEF Live, Messages
<1>6. ASSUME ConnectRefused PROVE ReplyAnswers'
  <2>1. ~calling /\ ~calling' /\ reply = "none" /\ UNCHANGED <<conn, open, reply, wire>>
    BY <1>6 DEF ConnectRefused, Ready
  <2> QED
    BY <2>1 DEF Live
<1>7. ASSUME ReconnectFails PROVE ReplyAnswers'
  <2>1. ~calling /\ ~calling' /\ reply = "none" /\ UNCHANGED <<conn, open, reply, wire>>
    BY <1>7 DEF ReconnectFails, Reconnect
  <2> QED
    BY <2>1 DEF Live
<1> QED
  BY <1>1, <1>2, <1>3, <1>4, <1>5, <1>6, <1>7 DEF SocketStep

(* What the server and the network do while the worker waits, or not. *)
LEMMA ServerAnswers ==
  ASSUME QInv, NetTyped, ReplyAnswers, [RTNext]_allVars,
         \/ \E m \in wire : Handle(m) \/ HandleRaises(m)
         \/ LoseConnection \/ Crash \/ Expire
  PROVE  ReplyAnswers'
<1>1. UNCHANGED <<wpc, wtask, retry, needsReconnect, calling, conn>> /\ wire' \subseteq wire
  BY DEF Handle, HandleRaises, LoseConnection, Crash, Expire, vars, workerVars
<1>2. calling' => wpc' = "exec" /\ CanRetry' /\ ~needsReconnect'
  BY <1>1 DEF ReplyAnswers, CanRetry
<1>3. WholeIn(wtask, applied) => WholeIn(wtask', applied')
  BY <1>1, WholeKept
<1>4. ASSUME NEW m \in wire, Handle(m) \/ HandleRaises(m) PROVE ReplyAnswers'
  <2>1. CASE ~Live(m)
    <3>1. UNCHANGED <<reply, open>>
      BY <1>4, <2>1 DEF Handle, HandleRaises, Live
    <3> QED
      BY <1>1, <1>2, <1>3, <3>1 DEF ReplyAnswers, Live
  <2>2. CASE Live(m)
    <3>1. calling /\ reply = "none" /\ m.task = wtask /\ m.conn = conn
      BY <2>2 DEF ReplyAnswers, Live
    <3>2. reply' \in {"ok", "error"} /\ wire' = wire \ {m}
      BY <1>4, <2>2 DEF Handle, HandleRaises, Live, Answer
    <3>3. ASSUME NEW n \in wire' PROVE ~Live(n)'
      <4>1. SUFFICES ASSUME n.conn = conn PROVE FALSE
        BY <1>1 DEF Live
      <4>2. n.task = wtask
        BY <1>1, <2>2, <4>1 DEF ReplyAnswers, Live
      <4>3. n = m
        BY <1>1, <3>1, <4>1, <4>2 DEF NetTyped, Messages
      <4> QED
        BY <3>2, <4>3
    <3>4. ASSUME reply' = "ok" PROVE WholeIn(wtask', applied')
      <4> DEFINE e == [task |-> m.task, whole |-> TRUE]
      <4>1. applied' = Append(applied, e)
        BY <1>4, <2>2, <3>4 DEF Handle, HandleRaises, Live, Answer
      <4>2. e \in Entries /\ e.task = wtask /\ e.whole /\ applied \in Seq(Entries)
        BY <3>1 DEF NetTyped, Messages, Entries
      <4> HIDE DEF e
      <4>3. Len(applied) + 1 \in DOMAIN applied' /\ applied'[Len(applied) + 1] = e
        BY <4>1, <4>2, AppendProperties, LenProperties
      <4> QED
        BY <1>1, <4>2, <4>3 DEF WholeIn
    <3> QED
      BY <1>1, <1>2, <3>1, <3>2, <3>3, <3>4 DEF ReplyAnswers
  <2> QED
    BY <2>1, <2>2
<1>5. ASSUME LoseConnection \/ Crash \/ Expire PROVE ReplyAnswers'
  <2>1. reply' \in {reply, "none"}
    BY <1>5 DEF LoseConnection, Crash, Expire
  <2>2. \A m \in wire' : Live(m)' => Live(m) /\ reply' = reply
    BY <1>1, <1>5 DEF LoseConnection, Crash, Expire, Live
  <2> QED
    BY <1>1, <1>2, <1>3, <2>1, <2>2 DEF ReplyAnswers
<1> QED
  BY <1>4, <1>5

(* Together: every step keeps the replies the right ones. *)
LEMMA AnswersKept ==
  ASSUME QInv, NetTyped, ReplyAnswers, [RTNext]_allVars
  PROVE  ReplyAnswers'
<1> QED
  BY WaitingKept, SocketAnswers, ServerAnswers DEF RTNext, ServerStep

(* b'OK' is only believed for the message it answers. *)
LEMMA AcknowledgedKept ==
  ASSUME QInv, NetTyped, ReplyAnswers, AcknowledgedIsApplied, [RTNext]_allVars
  PROVE  AcknowledgedIsApplied'
<1>1. ASSUME NEW i \in DOMAIN delivered' PROVE WholeIn(delivered'[i], applied')
  <2>1. CASE delivered' = delivered
    BY <1>1, <2>1, WholeKept DEF AcknowledgedIsApplied
  <2>2. CASE Receive /\ reply = "ok" /\ delivered' = Append(delivered, wtask)
    <3>1. wtask \in Task /\ delivered \in Seq(Task)
      <4>1. Holding
        BY <2>2 DEF Receive, ReplyAnswers, Holding
      <4> QED
        BY <4>1, HeldIsNext DEF QInv, TypeOK
    <3>2. (i \in DOMAIN delivered /\ delivered'[i] = delivered[i]) \/ delivered'[i] = wtask
      BY <1>1, <2>2, <3>1, AppendProperties, LenProperties
    <3>3. WholeIn(wtask, applied)
      BY <2>2 DEF ReplyAnswers
    <3> QED
      BY <3>2, <3>3, WholeKept DEF AcknowledgedIsApplied
  <2> QED
    BY <2>1, <2>2, Deliveries
<1> QED
  BY <1>1 DEF AcknowledgedIsApplied

(* The invariant is inductive, and holds at the start. *)
LEMMA RInductive == RInv /\ [RTNext]_allVars => RInv'
<1> SUFFICES ASSUME RInv, [RTNext]_allVars PROVE RInv'
  OBVIOUS
<1>1. [Next]_vars
  BY QueueSteps
<1> QED
  BY <1>1, QInductive, NetTypeKept, NumbersKept, OnlyStartedKept, AnswersKept, AcknowledgedKept DEF RInv

(* The invariant holds before the first write. *)
LEMMA RInit == RTInit => RInv
<1> SUFFICES ASSUME RTInit PROVE RInv
  OBVIOUS
<1>1. QInv
  BY QInit DEF RTInit
<1>2. NetTyped
  <2>1. applied \in Seq(Entries) /\ wire \subseteq Messages
    BY DEF RTInit
  <2>2. open \in BOOLEAN /\ calling \in BOOLEAN /\ registered \in BOOLEAN
    BY DEF RTInit
  <2> QED
    BY <2>1, <2>2 DEF RTInit, NetTyped
<1>3. Numbered
  BY DEF RTInit, Init, Numbered, Busy
<1>4. OnlyStarted /\ ReplyAnswers
  BY DEF RTInit, OnlyStarted, ReplyAnswers
<1>5. AcknowledgedIsApplied
  BY DEF RTInit, Init, AcknowledgedIsApplied
<1> QED
  BY <1>1, <1>2, <1>3, <1>4, <1>5 DEF RInv

(* The invariant always holds. *)
LEMMA RAlways == RTSpec => []RInv
<1> QED
  BY RInit, RInductive, PTL DEF RTSpec

-----------------------------------------------------------------------------
(* The turn of a write has come once it was started. *)
LEMMA StartedHasTurn ==
  ASSUME RInv, NEW n \in DOMAIN accepted, n <= Len(delivered) + 1
  PROVE  Promise!Turn(n)
<1>1. /\ accepted \in Seq(Task) /\ delivered \in Seq(Task) /\ n \in Nat /\ Len(delivered) \in Nat
      /\ DOMAIN delivered = 1..Len(delivered)
      /\ \A k \in DOMAIN delivered : accepted[k] = delivered[k]
  BY DeliveredFirst, LenProperties DEF RInv
<1>2. ASSUME NEW k \in 1..(n - 1) PROVE Promise!Applied(k)
  <2>1. k \in DOMAIN delivered /\ accepted[k] = delivered[k]
    BY <1>1
  <2>2. WholeIn(delivered[k], applied)
    BY <2>1 DEF RInv, AcknowledgedIsApplied
  <2> QED
    BY <2>1, <2>2 DEF WholeIn, Promise!Applied
<1> QED
  BY <1>2 DEF Promise!Turn

(* A copy that is given up was on the wire, so its turn had come. *)
LEMMA OnlyStartedLate ==
  ASSUME RInv, [RTNext]_allVars
  PROVE  Promise!GiveUp
<1>1. ASSUME NEW t \in Late' \ Late PROVE \E n \in DOMAIN accepted : t = accepted[n] /\ Promise!Turn(n)
  <2>1. PICK m \in wire' : t = m.task /\ (m.conn # conn' \/ ~open')
    BY <1>1 DEF Late
  <2>2. m \in wire
    <3>1. CASE wire' \subseteq wire
      BY <2>1, <3>1
    <3>2. CASE Send /\ wire' = wire \cup {[conn |-> conn, task |-> wtask]}
      <4>1. conn' = conn /\ open' /\ open
        BY <3>2 DEF Send
      <4>2. m # [conn |-> conn, task |-> wtask]
        BY <2>1, <4>1
      <4> QED
        BY <2>1, <3>2, <4>2
    <3> QED
      BY <3>1, <3>2, WireSteps
  <2>3. Started(m.task)
    BY <2>2 DEF RInv, OnlyStarted
  <2> QED
    BY <2>1, <2>3, StartedHasTurn DEF Started
<1> QED
  BY <1>1 DEF Promise!GiveUp

(* What is applied is a write whose turn has come, and nothing after it is *)
(* begun unless it is a late copy.                                          *)
LEMMA AppliesInTurn ==
  ASSUME RInv, NEW m \in wire, NEW whole \in BOOLEAN, Applies(m, whole), accepted' = accepted
  PROVE  \E n \in DOMAIN accepted : Promise!Apply(n, whole)
<1>1. PICK n \in DOMAIN accepted : n <= Len(delivered) + 1 /\ m.task = accepted[n]
  BY DEF RInv, OnlyStarted, Started
<1>2. Promise!Turn(n)
  BY <1>1, StartedHasTurn
<1>3. /\ accepted \in Seq(Task) /\ DOMAIN accepted = 1..Len(accepted) /\ Len(accepted) \in Nat
      /\ Len(delivered) \in Nat
  BY DeliveredFirst, LenProperties DEF RInv
<1>4. ASSUME ~(accepted[n] \in Late), NEW k \in (n + 1)..Len(accepted), Promise!Begun(k) PROVE FALSE
  <2>1. Live(m)
    BY <1>1, <1>4 DEF Late, Live
  <2>2. Holding /\ m.task = wtask
    BY <2>1 DEF RInv, ReplyAnswers, Holding
  <2>3. n = Len(delivered) + 1
    <3>1. Len(delivered) + 1 \in DOMAIN accepted /\ accepted[Len(delivered) + 1] = wtask
      BY <2>2, HeldIsNext DEF RInv
    <3> QED
      BY <1>1, <2>2, <3>1 DEF RInv, Numbered
  <2>4. PICK i \in DOMAIN applied : applied[i].task = accepted[k]
    BY <1>4 DEF Promise!Begun
  <2>5. PICK j \in DOMAIN accepted : j <= Len(delivered) + 1 /\ applied[i].task = accepted[j]
    BY <2>4 DEF RInv, OnlyStarted, Started
  <2>6. j = k
    <3>1. k \in DOMAIN accepted
      <4>1. n \in Nat /\ n >= 1
        BY <1>3
      <4> QED
        BY <1>3, <1>4, <4>1
    <3>2. \A x, y \in DOMAIN accepted : accepted[x] = accepted[y] => x = y
      BY DEF RInv, Numbered
    <3> QED
      BY <2>4, <2>5, <3>1, <3>2
  <2> QED
    BY <1>3, <1>4, <2>3, <2>5, <2>6
<1>5. applied' = Append(applied, [task |-> accepted[n], whole |-> whole])
  BY <1>1 DEF Applies
<1> QED
  BY <1>2, <1>4, <1>5 DEF Promise!Apply

(* Only a step that leaves the client's queue alone reaches the storage. *)
LEMMA StorageOrQueue ==
  ASSUME [RTNext]_allVars
  PROVE  applied' = applied \/ accepted' = accepted
<1>1. ASSUME LocalStep PROVE applied' = applied
  BY <1>1 DEF LocalStep, netVars
<1>2. ASSUME SocketStep PROVE applied' = applied
  BY <1>2 DEF SocketStep, Connect, Send, FindClosed, Receive, Reconnected
<1>3. ASSUME ConnectRefused \/ ReconnectFails PROVE applied' = applied
  BY <1>3 DEF ConnectRefused, ReconnectFails
<1>4. ASSUME LoseConnection \/ Crash \/ Expire \/ UNCHANGED allVars
             \/ (\E m \in wire : Handle(m) \/ HandleRaises(m))
      PROVE  accepted' = accepted
  BY <1>4 DEF LoseConnection, Crash, Expire, Handle, HandleRaises, allVars, vars, historyVars
<1> QED
  BY <1>1, <1>2, <1>3, <1>4 DEF RTNext, ServerStep

(* Each step of remote tracking is one of the promise, or changes nothing *)
(* the promise is about.                                                    *)
LEMMA StepsAsPromised ==
  ASSUME RInv, [RTNext]_allVars
  PROVE  Promise!Next
<1>1. Promise!GiveUp
  BY OnlyStartedLate
<1>2. CASE applied' = applied
  <2>1. accepted' = accepted \/ \E t \in Task : accepted' = Append(accepted, t)
    BY QueueSteps, HistoryGrows DEF RInv
  <2> QED
    BY <1>1, <1>2, <2>1 DEF Promise!Next, Promise!Submit
<1>3. CASE applied' # applied
  <2>1. PICK m \in wire, whole \in BOOLEAN : Applies(m, whole)
    BY <1>3, StorageSteps
  <2>2. accepted' = accepted
    BY <1>3, StorageOrQueue
  <2>3. \E n \in DOMAIN accepted : Promise!Apply(n, whole)
    BY <2>1, <2>2, AppliesInTurn
  <2> QED
    BY <1>1, <2>3 DEF Promise!Next
<1> QED
  BY <1>2, <1>3

(* Remote tracking implements its promise: whatever is lost, repeated or   *)
(* restarted, the writes reach the storage in the order they were put,     *)
(* each whole before the next one is begun, late copies apart.             *)
THEOREM PromiseKept == RTSpec => ImplementsPromise
<1>1. RTInit => Promise!Init
  BY DEF RTInit, Init, Promise!Init, Late
<1>2. RInv /\ [RTNext]_allVars => [Promise!Next]_<<accepted, applied, Late>>
  BY StepsAsPromised
<1> QED
  BY <1>1, <1>2, RAlways, PTL DEF RTSpec, ImplementsPromise, Promise!Spec, Promise!vars

(* A task the client takes off its queue is in the server's storage. *)
THEOREM Acknowledged == RTSpec => []AcknowledgedIsApplied
<1>1. RInv => AcknowledgedIsApplied
  BY DEF RInv
<1> QED
  BY <1>1, RAlways, PTL

(* A thread that waited for the queue finds all it wrote in the storage. *)
THEOREM OwnWritesRead == RTSpec => ReadsOwnWrites
<1> DEFINE Finds(p) == ppc[p] = "joining" /\ ppc'[p] = "idle" =>
                         \A i \in DOMAIN accepted : accepted[i].owner = p => WholeIn(accepted[i], applied)
<1>1. ASSUME RInv, [RTNext]_allVars, NEW p \in Producers PROVE Finds(p)
  <2>1. SUFFICES ASSUME ppc[p] = "joining", ppc'[p] = "idle"
                 PROVE  \A i \in DOMAIN accepted : WholeIn(accepted[i], applied)
    OBVIOUS
  <2>2. Next /\ Returns
    BY <1>1, <2>1, QueueSteps DEF vars, producerVars, Returns
  <2>3. delivered = accepted
    BY <1>1, <2>2, ReturnsOnlyWhenDone, DoneMeansDelivered DEF RInv
  <2> QED
    BY <1>1, <2>3 DEF RInv, AcknowledgedIsApplied
<1>2. RInv /\ [RTNext]_allVars => [\A p \in Producers : Finds(p)]_allVars
  BY <1>1
<1> QED
  BY <1>2, RAlways, PTL DEF RTSpec, ReadsOwnWrites

-----------------------------------------------------------------------------
(* A write is repeated only for a fault.  Each copy of a write beyond its   *)
(* first, in the storage or on the wire, was sent on a connection of its    *)
(* own, and each connection beyond the first is paid for by a fault.        *)
AppliedTasks == {applied[i].task : i \in DOMAIN applied}
TasksOf(S) == {m.task : m \in S}
Touched == AppliedTasks \cup TasksOf(wire)

NextTouched == \E n \in DOMAIN accepted : n = Len(delivered) + 1 /\ accepted[n] \in Touched

(* The task the worker calls next may be there already. *)
SendsAgain == ~calling /\ ~needsReconnect /\ wpc # "died" /\ NextTouched

Copies == Len(applied) + Cardinality(wire)

RepeatsPaid ==
  /\ IsFiniteSet(wire)
  /\ conn = 0 => applied = << >> /\ wire = {}
  /\ conn > 0 => Copies <= Cardinality(Touched) + conn - 1
  /\ SendsAgain => Copies <= Cardinality(Touched) + conn - 2

(* A connection that is not up was lost to a fault, unless the server closed *)
(* it with an exception, which ends the worker.                              *)
LostToFault == ~open /\ conn > 0 /\ reply # "error" /\ wpc # "died"

ConnectionsPaid ==
  /\ faults \in 0..MaxFaults /\ fatal \in BOOLEAN
  /\ conn <= faults + 1
  /\ LostToFault => conn <= faults
  /\ needsReconnect => ~open /\ conn > 0
  /\ calling => conn > 0
  /\ \A m \in wire : m.conn > 0

PInv == RInv /\ ConnectionsPaid /\ RepeatsPaid

-----------------------------------------------------------------------------
(* The connections are counted by the faults. *)
LEMMA ConnectionsKept ==
  ASSUME RInv, ConnectionsPaid, [RTNext]_allVars
  PROVE  ConnectionsPaid'
<1> USE DEF producerVars, workerVars, historyVars, netVars
<1>0. conn \in Nat /\ faults \in Nat /\ MaxFaults \in Nat /\ faults <= MaxFaults
  BY NetworkAssumption DEF RInv, NetTyped, ConnectionsPaid
<1>1. ASSUME LocalStep PROVE ConnectionsPaid'
  <2>1. needsReconnect' = needsReconnect /\ (wpc' # "died" => wpc # "died")
    <3>1. ASSUME NEW p \in Producers, ProducerNext(p) PROVE UNCHANGED <<needsReconnect, wpc>>
      BY <3>1 DEF ProducerNext, ProducerStep, RegisterTask, DropTask, WaitForFinish, TestLimit, Charge,
                  Put, Finished
    <3>2. ASSUME WorkerStep PROVE needsReconnect' = needsReconnect /\ wpc # "died"
      BY <3>2 DEF WorkerStep, WorkerLoop, Get, Uncharge, TaskDone, PutFront
    <3>3. ASSUME Close \/ CloserStep PROVE UNCHANGED <<needsReconnect, wpc>>
      BY <3>3 DEF Close, CloserStep, Flushed, Stop, Drained, Shutdown
    <3> QED
      BY <1>1, <3>1, <3>2, <3>3 DEF LocalStep
  <2>2. UNCHANGED netVars
    BY <1>1 DEF LocalStep
  <2> QED
    BY <2>1, <2>2 DEF ConnectionsPaid, LostToFault
<1>2. ASSUME Connect PROVE ConnectionsPaid'
  <2>1. conn' = 1 /\ open' = TRUE /\ ~needsReconnect /\ UNCHANGED <<vars, calling, reply, wire, faults, fatal>>
    BY <1>2 DEF Connect, Ready
  <2> QED
    BY <1>0, <2>1 DEF ConnectionsPaid, LostToFault, vars
<1>3. ASSUME Send PROVE ConnectionsPaid'
  <2>1. /\ conn > 0 /\ UNCHANGED <<vars, conn, open, reply, faults, fatal>>
        /\ wire' = wire \cup {[conn |-> conn, task |-> wtask]}
    BY <1>3 DEF Send
  <2> QED
    BY <2>1 DEF ConnectionsPaid, LostToFault, vars
<1>4. ASSUME FindClosed PROVE ConnectionsPaid'
  <2>1. /\ ~open /\ conn > 0 /\ wpc = "exec" /\ wpc' = wpc /\ calling' = FALSE
        /\ UNCHANGED <<conn, open, reply, wire, faults, fatal>>
    BY <1>4 DEF FindClosed, Ready, Call, ConnectionsPaid
  <2> QED
    BY <2>1 DEF ConnectionsPaid, LostToFault
<1>5. ASSUME Receive PROVE ConnectionsPaid'
  <2>1. /\ calling /\ wpc = "exec" /\ ~needsReconnect
        /\ (reply = "error" => wpc' = "died") /\ needsReconnect' = needsReconnect
        /\ calling' = FALSE /\ UNCHANGED <<conn, open, wire, faults, fatal>>
    BY <1>5 DEF Receive, Call
  <2> QED
    BY <2>1 DEF ConnectionsPaid, LostToFault
<1>6. ASSUME Reconnected PROVE ConnectionsPaid'
  <2>1. /\ needsReconnect /\ wpc = "exec" /\ needsReconnect' = FALSE
        /\ conn' = conn + 1 /\ open' = TRUE /\ UNCHANGED <<calling, wire, faults, fatal>>
    BY <1>6 DEF Reconnected, Reconnect
  <2>2. reply # "error"
    BY <2>1 DEF RInv, ReplyAnswers
  <2>3. conn <= faults
    BY <2>1, <2>2 DEF ConnectionsPaid, LostToFault
  <2> QED
    BY <1>0, <2>1, <2>3 DEF ConnectionsPaid, LostToFault
<1>7. ASSUME ConnectRefused PROVE ConnectionsPaid'
  <2>1. /\ wpc' = "died" /\ needsReconnect' = needsReconnect /\ fatal' = TRUE
        /\ faults < MaxFaults /\ faults' = faults + 1
        /\ UNCHANGED <<conn, open, calling, reply, wire>>
    BY <1>7 DEF ConnectRefused, Fault, Call
  <2> QED
    BY <1>0, <2>1 DEF ConnectionsPaid, LostToFault
<1>8. ASSUME ReconnectFails PROVE ConnectionsPaid'
  <2>1. /\ needsReconnect /\ wpc' = wpc /\ faults < MaxFaults /\ faults' = faults + 1
        /\ UNCHANGED <<conn, open, calling, reply, wire, fatal>>
    BY <1>8 DEF ReconnectFails, Fault, Reconnect
  <2> QED
    BY <1>0, <2>1 DEF ConnectionsPaid, LostToFault
<1>9. ASSUME NEW m \in wire, Handle(m) PROVE ConnectionsPaid'
  <2>1. /\ UNCHANGED <<vars, conn, calling, faults, fatal>> /\ wire' \subseteq wire
        /\ \/ UNCHANGED <<reply, open>>
           \/ Live(m) /\ reply' = Answer /\ open' = registered
    BY <1>9 DEF Handle, Live
  <2>2. Live(m) => ~needsReconnect
    BY <1>9 DEF RInv, ReplyAnswers
  <2>3. LostToFault' => LostToFault
    BY <2>1 DEF LostToFault, Answer, vars
  <2> QED
    BY <2>1, <2>2, <2>3 DEF ConnectionsPaid, vars
<1>10. ASSUME (\E m \in wire : HandleRaises(m)) \/ LoseConnection \/ Crash \/ Expire
       PROVE  ConnectionsPaid'
  <2>1. faults < MaxFaults /\ faults' = faults + 1 /\ UNCHANGED <<vars, conn, calling>>
    BY <1>10 DEF HandleRaises, LoseConnection, Crash, Expire, Fault
  <2>3. wire' \subseteq wire
    BY <1>10 DEF HandleRaises, LoseConnection, Crash, Expire
  <2>4. ~open => ~open'
    BY <1>10 DEF HandleRaises, LoseConnection, Crash, Expire
  <2>2. fatal' \in BOOLEAN
    BY <1>10 DEF HandleRaises, LoseConnection, Crash, Expire, ConnectionsPaid
  <2> QED
    BY <1>0, <2>1, <2>2, <2>3, <2>4 DEF ConnectionsPaid, LostToFault, vars
<1>11. ASSUME UNCHANGED allVars PROVE ConnectionsPaid'
  BY <1>11 DEF ConnectionsPaid, LostToFault, allVars, vars
<1> QED
  BY <1>1, <1>2, <1>3, <1>4, <1>5, <1>6, <1>7, <1>8, <1>9, <1>10, <1>11 DEF RTNext, SocketStep, ServerStep

-----------------------------------------------------------------------------
(* There are at most as many tasks as messages. *)
LEMMA TasksOfMessages ==
  ASSUME NEW S, IsFiniteSet(S)
  PROVE  IsFiniteSet(TasksOf(S)) /\ Cardinality(TasksOf(S)) <= Cardinality(S)
<1> DEFINE task == [m \in S |-> m.task]
<1>1. task \in Surjection(S, TasksOf(S))
  BY DEF Surjection, TasksOf
<1> QED
  BY <1>1, FS_Surjection

(* And at most as many as entries of the storage. *)
LEMMA TasksOfStorage ==
  ASSUME NEW log \in Seq(Entries)
  PROVE  IsFiniteSet({log[i].task : i \in DOMAIN log})
<1> DEFINE task == [i \in DOMAIN log |-> log[i].task]
           tasks == {log[i].task : i \in DOMAIN log}
<1>1. task \in Surjection(DOMAIN log, tasks)
  BY DEF Surjection
<1>2. DOMAIN log = 1..Len(log) /\ Len(log) \in Nat
  BY LenProperties
<1>3. IsFiniteSet(1..Len(log))
  BY <1>2, FS_Interval
<1>4. IsFiniteSet(DOMAIN log)
  BY <1>2, <1>3
<1> QED
  BY <1>1, <1>4, FS_Surjection

(* Sets that overlap count at least as much apart as together. *)
LEMMA CoverCounts ==
  ASSUME NEW S, NEW T, NEW U, IsFiniteSet(T), IsFiniteSet(U), S \subseteq T \cup U
  PROVE  /\ IsFiniteSet(S) /\ Cardinality(S) \in Nat
         /\ Cardinality(T) \in Nat /\ Cardinality(U) \in Nat
         /\ Cardinality(S) <= Cardinality(T) + Cardinality(U)
<1>1. /\ IsFiniteSet(T \cup U)
      /\ Cardinality(T \cup U) = Cardinality(T) + Cardinality(U) - Cardinality(T \cap U)
  BY FS_Union
<1>2. IsFiniteSet(S) /\ Cardinality(S) <= Cardinality(T \cup U)
  BY <1>1, FS_Subset
<1>3. IsFiniteSet(T \cap U)
  BY FS_Intersection
<1>4. /\ Cardinality(S) \in Nat /\ Cardinality(T) \in Nat /\ Cardinality(U) \in Nat
      /\ Cardinality(T \cap U) \in Nat /\ Cardinality(T \cup U) \in Nat
  BY <1>1, <1>2, <1>3, FS_CardinalityType
<1> QED
  BY <1>1, <1>2, <1>4

(* What the sets of tasks are before and after a step. *)
LEMMA TouchedTyped ==
  ASSUME NetTyped, IsFiniteSet(wire)
  PROVE  /\ IsFiniteSet(Touched) /\ Cardinality(Touched) \in Nat
         /\ Cardinality(wire) \in Nat /\ Len(applied) \in Nat
         /\ Cardinality(Touched) <= Cardinality(AppliedTasks) + Cardinality(wire)
         /\ IsFiniteSet(AppliedTasks) /\ Cardinality(AppliedTasks) \in Nat
<1>1. applied \in Seq(Entries) /\ Len(applied) \in Nat
  BY LenProperties DEF NetTyped
<1>2. IsFiniteSet(AppliedTasks)
  BY <1>1, TasksOfStorage DEF AppliedTasks
<1>3. IsFiniteSet(TasksOf(wire)) /\ Cardinality(TasksOf(wire)) <= Cardinality(wire)
  BY TasksOfMessages
<1>4. /\ IsFiniteSet(Touched) /\ Cardinality(Touched) \in Nat
      /\ Cardinality(AppliedTasks) \in Nat /\ Cardinality(TasksOf(wire)) \in Nat
      /\ Cardinality(Touched) <= Cardinality(AppliedTasks) + Cardinality(TasksOf(wire))
  BY <1>2, <1>3, CoverCounts DEF Touched
<1>5. Cardinality(wire) \in Nat
  BY FS_CardinalityType
<1> QED
  BY <1>1, <1>2, <1>3, <1>4, <1>5

(* Messages that are lost or executed make no copy. *)
LEMMA NoNewCopy ==
  ASSUME NetTyped, NetTyped', IsFiniteSet(wire), wire' \subseteq wire,
         \/ applied' = applied
         \/ \E m \in wire \ wire', whole \in BOOLEAN : Applies(m, whole)
  PROVE  /\ IsFiniteSet(wire') /\ Touched' \subseteq Touched
         /\ (Copies - Cardinality(Touched))' <= Copies - Cardinality(Touched)
<1> DEFINE gone == wire \ wire'
<1>1. IsFiniteSet(wire') /\ IsFiniteSet(gone)
  BY FS_Subset
<1>2. Cardinality(wire) = Cardinality(wire') + Cardinality(gone)
  <2>1. Cardinality(gone) = Cardinality(wire) - Cardinality(wire \cap wire')
    BY FS_Difference
  <2>2. Cardinality(wire \cap wire') = Cardinality(wire')
    <3>1. wire \cap wire' = wire'
      OBVIOUS
    <3> QED
      BY <3>1
  <2>3. Cardinality(wire') \in Nat /\ Cardinality(gone) \in Nat /\ Cardinality(wire) \in Nat
    BY <1>1, FS_CardinalityType
  <2> HIDE DEF gone
  <2> QED
    BY <2>1, <2>2, <2>3
<1>3. /\ IsFiniteSet(Touched') /\ Cardinality(Touched') \in Nat /\ Cardinality(Touched) \in Nat
      /\ Cardinality(wire) \in Nat /\ Cardinality(wire') \in Nat
      /\ Len(applied) \in Nat /\ Len(applied') \in Nat
  <2>1. /\ Cardinality(Touched) \in Nat /\ Cardinality(wire) \in Nat /\ Len(applied) \in Nat
    BY TouchedTyped
  <2>2. applied' \in Seq(Entries) /\ IsFiniteSet(TasksOf(wire'))
    BY <1>1, TasksOfMessages DEF NetTyped
  <2>3. IsFiniteSet({applied'[i].task : i \in DOMAIN applied'}) /\ Len(applied') \in Nat
    BY <2>2, TasksOfStorage, LenProperties
  <2>4. Touched' = {applied'[i].task : i \in DOMAIN applied'} \cup TasksOf(wire')
    BY DEF Touched, AppliedTasks, TasksOf
  <2>5. IsFiniteSet(Touched')
    BY <2>2, <2>3, <2>4, FS_Union
  <2> QED
    BY <1>1, <2>1, <2>3, <2>5, FS_CardinalityType
<1>4. CASE applied' = applied
  <2>1. Touched' \subseteq Touched /\ Touched \subseteq Touched' \cup TasksOf(gone)
    BY <1>4 DEF Touched, AppliedTasks, TasksOf
  <2>2. IsFiniteSet(TasksOf(gone)) /\ Cardinality(TasksOf(gone)) <= Cardinality(gone)
    BY <1>1, TasksOfMessages
  <2>3. Cardinality(TasksOf(gone)) \in Nat /\ Cardinality(gone) \in Nat
    BY <1>1, <2>2, FS_CardinalityType
  <2>4. Cardinality(Touched) <= Cardinality(Touched') + Cardinality(TasksOf(gone))
    BY <1>3, <2>1, <2>2, CoverCounts
  <2>5. Len(applied') = Len(applied)
    BY <1>4
  <2> HIDE DEF gone
  <2> QED
    BY <1>1, <1>2, <1>3, <2>1, <2>2, <2>3, <2>4, <2>5 DEF Copies
<1>5. ASSUME NEW m \in gone, NEW whole \in BOOLEAN, Applies(m, whole)
      PROVE  /\ Touched' \subseteq Touched
             /\ (Copies - Cardinality(Touched))' <= Copies - Cardinality(Touched)
  <2> DEFINE rest == gone \ {m}
             e == [task |-> m.task, whole |-> whole]
  <2>1. IsFiniteSet(rest) /\ Cardinality(rest) = Cardinality(gone) - 1
    BY <1>1, FS_RemoveElement
  <2>2. e \in Entries /\ e.task = m.task /\ applied' = Append(applied, e) /\ applied \in Seq(Entries)
    BY <1>5 DEF Applies, NetTyped, Messages, Entries
  <2> HIDE DEF e
  <2>3. /\ Len(applied') = Len(applied) + 1
        /\ AppliedTasks' = AppliedTasks \cup {m.task}
    <3>1. /\ Len(applied') = Len(applied) + 1 /\ DOMAIN applied' = 1..(Len(applied) + 1)
          /\ applied'[Len(applied) + 1] = e /\ \A i \in 1..Len(applied) : applied'[i] = applied[i]
          /\ DOMAIN applied = 1..Len(applied) /\ Len(applied) \in Nat
      BY <2>2, AppendProperties, LenProperties
    <3>2. AppliedTasks' = {applied'[i].task : i \in 1..(Len(applied) + 1)}
      BY <3>1 DEF AppliedTasks
    <3>3. \A i \in 1..(Len(applied) + 1) : i \in 1..Len(applied) \/ i = Len(applied) + 1
      BY <3>1
    <3>4. \A i \in 1..Len(applied) : i \in 1..(Len(applied) + 1)
      BY <3>1
    <3>5. Len(applied) + 1 \in 1..(Len(applied) + 1)
      BY <3>1
    <3>6. AppliedTasks' \subseteq AppliedTasks \cup {m.task}
      BY <2>2, <3>1, <3>2, <3>3 DEF AppliedTasks
    <3>7. AppliedTasks \cup {m.task} \subseteq AppliedTasks'
      <4>1. m.task \in AppliedTasks'
        BY <2>2, <3>1, <3>2, <3>5
      <4>2. ASSUME NEW i \in 1..Len(applied) PROVE applied[i].task \in AppliedTasks'
        <5>1. applied'[i].task \in AppliedTasks'
          BY <3>2, <3>4
        <5> QED
          BY <3>1, <5>1
      <4> QED
        BY <3>1, <4>1, <4>2 DEF AppliedTasks
    <3> QED
      BY <3>1, <3>6, <3>7
  <2>4. Touched' \subseteq Touched
    BY <2>3 DEF Touched, TasksOf
  <2>5. Touched \subseteq Touched' \cup TasksOf(rest)
    BY <2>3 DEF Touched, TasksOf
  <2>6. IsFiniteSet(TasksOf(rest)) /\ Cardinality(TasksOf(rest)) <= Cardinality(rest)
    BY <2>1, TasksOfMessages
  <2>7. Cardinality(TasksOf(rest)) \in Nat /\ Cardinality(gone) \in Nat
    BY <1>1, <2>6, FS_CardinalityType
  <2>8. Cardinality(Touched) <= Cardinality(Touched') + Cardinality(TasksOf(rest))
    BY <1>3, <2>5, <2>6, CoverCounts
  <2> HIDE DEF gone, rest
  <2> QED
    BY <1>2, <1>3, <2>1, <2>3, <2>4, <2>6, <2>7, <2>8 DEF Copies
<1> QED
  BY <1>1, <1>4, <1>5

(* A message that is sent is the copy of a task of its own, or one more of a *)
(* task that is there.                                                       *)
LEMMA OneNewCopy ==
  ASSUME NetTyped, NetTyped', IsFiniteSet(wire), Send
  PROVE  /\ IsFiniteSet(wire')
         /\ (Copies - Cardinality(Touched))' <= Copies - Cardinality(Touched) + 1
         /\ wtask \notin Touched => (Copies - Cardinality(Touched))' <= Copies - Cardinality(Touched)
<1> DEFINE m == [conn |-> conn, task |-> wtask]
<1>1. wire' = wire \cup {m} /\ applied' = applied /\ m.task = wtask
  BY DEF Send
<1> HIDE DEF m
<1>2. IsFiniteSet(wire') /\ Cardinality(wire') <= Cardinality(wire) + 1
  <2>1. Cardinality(wire) \in Nat
    BY FS_CardinalityType
  <2> QED
    BY <1>1, <2>1, FS_AddElement
<1>3. Touched' = Touched \cup {wtask}
  BY <1>1 DEF Touched, AppliedTasks, TasksOf
<1>4. IsFiniteSet(Touched) /\ Cardinality(Touched) \in Nat /\ Cardinality(wire) \in Nat /\ Len(applied) \in Nat
  BY TouchedTyped
<1>5. Cardinality(Touched') = IF wtask \in Touched THEN Cardinality(Touched) ELSE Cardinality(Touched) + 1
  <2>1. Cardinality(Touched \cup {wtask}) =
          IF wtask \in Touched THEN Cardinality(Touched) ELSE Cardinality(Touched) + 1
    BY <1>4, FS_AddElement
  <2> QED
    BY <1>3, <2>1
<1>6. Len(applied') = Len(applied) /\ Cardinality(wire') \in Nat
  BY <1>1, <1>2, FS_CardinalityType
<1> QED
  BY <1>2, <1>4, <1>5, <1>6 DEF Copies

(* The next task is there only if it was called already: a task that is next *)
(* for the first time is new.                                                *)
LEMMA NextIsNew ==
  ASSUME RInv, RInv', [RTNext]_allVars, Touched' \subseteq Touched, NextTouched'
  PROVE  NextTouched /\ delivered' = delivered
<1>1. PICK n \in DOMAIN accepted' : n = Len(delivered') + 1 /\ accepted'[n] \in Touched
  BY DEF NextTouched
<1>2. \A t \in Touched : Started(t)
  BY DEF Touched, AppliedTasks, TasksOf, RInv, OnlyStarted
<1>3. PICK k \in DOMAIN accepted : k <= Len(delivered) + 1 /\ accepted'[n] = accepted[k]
  BY <1>1, <1>2 DEF Started
<1>4. k \in DOMAIN accepted' /\ accepted'[k] = accepted[k]
  BY <1>3, QueueSteps, PrefixKept DEF RInv
<1>5. n = k
  BY <1>3, <1>4 DEF RInv, Numbered
<1>6. delivered \in Seq(Task) /\ Len(delivered) \in Nat /\ Len(delivered') \in Nat
  BY LenProperties DEF RInv, QInv, TypeOK
<1>7. delivered' = delivered \/ (wtask \in Task /\ delivered' = Append(delivered, wtask))
  <2>1. ASSUME Call("ok") PROVE wtask \in Task
    BY <2>1 DEF Call, RInv, QInv, TypeOK, WorkerHolds
  <2> QED
    BY <2>1, QueueSteps, HistoryGrows DEF RInv
<1>8. delivered' = delivered
  <2>1. ASSUME wtask \in Task, delivered' = Append(delivered, wtask) PROVE FALSE
    <3>1. Len(delivered') = Len(delivered) + 1
      BY <1>6, <2>1, AppendProperties
    <3> QED
      BY <1>1, <1>3, <1>5, <1>6, <3>1
  <2> QED
    BY <1>7, <2>1
<1> QED
  BY <1>1, <1>3, <1>5, <1>8 DEF NextTouched

(* What the bound on the copies looks like after a step that makes none. *)
LEMMA PaidStill ==
  ASSUME RInv, RInv', RepeatsPaid, ConnectionsPaid, [RTNext]_allVars, IsFiniteSet(wire'),
         Touched' \subseteq Touched, (Copies - Cardinality(Touched))' <= Copies - Cardinality(Touched),
         conn' = conn, conn > 0,
         ~calling' /\ ~needsReconnect' /\ wpc' # "died" /\ delivered' = delivered
           => ~calling /\ ~needsReconnect /\ wpc # "died"
  PROVE  RepeatsPaid'
<1>1. SendsAgain' => SendsAgain
  BY NextIsNew DEF SendsAgain
<1>2. /\ Copies \in Int /\ Cardinality(Touched) \in Int /\ conn \in Int
      /\ Copies' \in Int /\ Cardinality(Touched') \in Int
  <2>1. NetTyped /\ IsFiniteSet(wire) /\ NetTyped' /\ IsFiniteSet(wire')
    BY DEF RInv, RepeatsPaid
  <2>2. Cardinality(Touched) \in Nat /\ Cardinality(wire) \in Nat /\ Len(applied) \in Nat
    BY <2>1, TouchedTyped
  <2>3. IsFiniteSet(Touched')
    BY <2>1, <2>2, TouchedTyped, FS_Subset
  <2>4. Cardinality(Touched') \in Nat /\ Cardinality(wire') \in Nat /\ Len(applied') \in Nat
    BY <2>1, <2>3, FS_CardinalityType, LenProperties DEF NetTyped
  <2> QED
    BY <2>1, <2>2, <2>4 DEF Copies, NetTyped
<1>3. Copies' <= Cardinality(Touched)' + conn' - 1
  BY <1>2 DEF RepeatsPaid
<1>4. SendsAgain' => Copies' <= Cardinality(Touched)' + conn' - 2
  BY <1>1, <1>2 DEF RepeatsPaid
<1> QED
  BY <1>3, <1>4 DEF RepeatsPaid

(* Before the first connection nothing is on the wire or in the storage. *)
LEMMA NothingBefore ==
  ASSUME applied = << >>, wire = {}
  PROVE  Copies = 0 /\ Cardinality(Touched) = 0 /\ Touched = {} /\ ~NextTouched
<1>1. Len(applied) = 0 /\ Cardinality(wire) = 0
  BY FS_EmptySet
<1>2. Touched = {}
  BY DEF Touched, AppliedTasks, TasksOf
<1> QED
  BY <1>1, <1>2, FS_EmptySet DEF Copies, NextTouched

(* The copies stay paid for. *)
LEMMA RepeatsKept ==
  ASSUME RInv, RInv', ConnectionsPaid, RepeatsPaid, [RTNext]_allVars
  PROVE  RepeatsPaid'
<1> USE DEF producerVars, workerVars, historyVars, netVars
<1>0. /\ NetTyped /\ NetTyped' /\ IsFiniteSet(wire) /\ conn \in Nat
      /\ Copies \in Int /\ Cardinality(Touched) \in Int
  <2>1. NetTyped /\ NetTyped' /\ IsFiniteSet(wire)
    BY DEF RInv, RepeatsPaid
  <2>2. Cardinality(Touched) \in Nat /\ Cardinality(wire) \in Nat /\ Len(applied) \in Nat
    BY <2>1, TouchedTyped
  <2> QED
    BY <2>1, <2>2 DEF Copies, NetTyped
<1>1. ASSUME UNCHANGED <<applied, wire>>
      PROVE  /\ Touched' = Touched /\ Copies' = Copies /\ IsFiniteSet(wire')
             /\ Cardinality(Touched)' = Cardinality(Touched)
  BY <1>0, <1>1 DEF Touched, AppliedTasks, TasksOf, Copies
<1>2. ASSUME conn > 0, conn' = conn, UNCHANGED <<applied, wire>>,
             ~calling' /\ ~needsReconnect' /\ wpc' # "died" /\ delivered' = delivered
               => ~calling /\ ~needsReconnect /\ wpc # "died"
      PROVE  RepeatsPaid'
  <2>1. (Copies - Cardinality(Touched))' <= Copies - Cardinality(Touched)
    BY <1>0, <1>1, <1>2
  <2> QED
    BY <1>1, <1>2, <2>1, PaidStill
<1>3. ASSUME conn = 0, conn' = 0, UNCHANGED <<applied, wire>> PROVE RepeatsPaid'
  <2>1. applied' = << >> /\ wire' = {}
    BY <1>3 DEF RepeatsPaid
  <2>2. ~NextTouched'
    BY <2>1 DEF NextTouched, Touched, AppliedTasks, TasksOf
  <2> QED
    BY <1>3, <2>1, <2>2, FS_EmptySet DEF RepeatsPaid, SendsAgain
<1>4. ASSUME LocalStep PROVE RepeatsPaid'
  <2>1. UNCHANGED netVars
    BY <1>4 DEF LocalStep
  <2>2. needsReconnect' = needsReconnect /\ (wpc' # "died" => wpc # "died")
    <3>1. ASSUME NEW p \in Producers, ProducerNext(p) PROVE UNCHANGED <<needsReconnect, wpc>>
      BY <3>1 DEF ProducerNext, ProducerStep, RegisterTask, DropTask, WaitForFinish, TestLimit, Charge,
                  Put, Finished
    <3>2. ASSUME WorkerStep PROVE needsReconnect' = needsReconnect /\ wpc # "died"
      BY <3>2 DEF WorkerStep, WorkerLoop, Get, Uncharge, TaskDone, PutFront
    <3>3. ASSUME Close \/ CloserStep PROVE UNCHANGED <<needsReconnect, wpc>>
      BY <3>3 DEF Close, CloserStep, Flushed, Stop, Drained, Shutdown
    <3> QED
      BY <1>4, <3>1, <3>2, <3>3 DEF LocalStep
  <2> QED
    BY <1>0, <1>2, <1>3, <2>1, <2>2
<1>5. ASSUME Connect PROVE RepeatsPaid'
  <2>1. conn = 0 /\ conn' = 1 /\ UNCHANGED <<applied, wire, accepted, delivered>>
    BY <1>5 DEF Connect, vars
  <2>2. applied = << >> /\ wire = {}
    BY <2>1 DEF RepeatsPaid
  <2>3. Copies = 0 /\ Cardinality(Touched) = 0 /\ ~NextTouched
    BY <2>2, NothingBefore
  <2>4. NextTouched' <=> NextTouched
    BY <1>1, <2>1 DEF NextTouched
  <2>5. Copies' <= Cardinality(Touched)' + conn' - 1
    BY <1>1, <2>1, <2>3
  <2> QED
    BY <1>1, <2>1, <2>3, <2>4, <2>5 DEF RepeatsPaid, SendsAgain
<1>6. ASSUME Send PROVE RepeatsPaid'
  <2>1. conn > 0 /\ conn' = conn /\ calling' = TRUE /\ Ready
    BY <1>6 DEF Send
  <2>2. wtask \in Touched => SendsAgain
    BY <2>1, HeldIsNext DEF Ready, SendsAgain, NextTouched, RInv, Holding
  <2>3. /\ IsFiniteSet(wire')
        /\ (Copies - Cardinality(Touched))' <= Copies - Cardinality(Touched) + 1
        /\ wtask \notin Touched => (Copies - Cardinality(Touched))' <= Copies - Cardinality(Touched)
    BY <1>0, <1>6, OneNewCopy
  <2>4. Copies' \in Int /\ Cardinality(Touched)' \in Int
    <3> DEFINE m == [conn |-> conn, task |-> wtask]
    <3>0. wire' = wire \cup {m} /\ applied' = applied /\ m.task = wtask
      BY <1>6 DEF Send
    <3> HIDE DEF m
    <3>1. Touched' = Touched \cup {wtask}
      BY <3>0 DEF Touched, AppliedTasks, TasksOf
    <3>2. IsFiniteSet(Touched)
      BY <1>0, TouchedTyped
    <3>3. IsFiniteSet(Touched')
      BY <3>1, <3>2, FS_AddElement
    <3> QED
      BY <1>0, <2>3, <3>3, FS_CardinalityType, LenProperties DEF Copies, NetTyped
  <2>5. Copies' <= Cardinality(Touched)' + conn' - 1
    BY <1>0, <2>1, <2>2, <2>3, <2>4 DEF RepeatsPaid
  <2> QED
    BY <2>1, <2>3, <2>5 DEF RepeatsPaid, SendsAgain
<1>7. ASSUME FindClosed \/ ReconnectFails PROVE RepeatsPaid'
  <2>1. needsReconnect' /\ conn' = conn /\ UNCHANGED <<applied, wire>>
    BY <1>7 DEF FindClosed, ReconnectFails, Call, Reconnect
  <2> QED
    BY <1>0, <1>2, <1>3, <2>1
<1>8. ASSUME Receive PROVE RepeatsPaid'
  <2>1. conn' = conn /\ conn > 0 /\ UNCHANGED <<applied, wire>>
    BY <1>8 DEF Receive, ConnectionsPaid
  <2>2. wpc' = "died" \/ (wtask \in Task /\ delivered' = Append(delivered, wtask))
    BY <1>8 DEF Receive, Call, RInv, QInv, TypeOK, WorkerHolds
  <2>3. ASSUME wtask \in Task, delivered' = Append(delivered, wtask) PROVE delivered' # delivered
    <3>1. delivered \in Seq(Task) /\ Len(delivered) \in Nat
      BY LenProperties DEF RInv, QInv, TypeOK
    <3>2. Len(delivered') = Len(delivered) + 1
      BY <2>3, <3>1, AppendProperties
    <3> QED
      BY <3>1, <3>2
  <2> QED
    BY <1>2, <2>1, <2>2, <2>3
<1>9. ASSUME Reconnected PROVE RepeatsPaid'
  <2>1. needsReconnect /\ conn' = conn + 1 /\ UNCHANGED <<applied, wire>>
    BY <1>9 DEF Reconnected, Reconnect
  <2>2. conn > 0
    BY <2>1 DEF ConnectionsPaid
  <2>3. Copies' <= Cardinality(Touched)' + conn' - 2
    BY <1>0, <1>1, <2>1, <2>2 DEF RepeatsPaid
  <2>4. Copies' <= Cardinality(Touched)' + conn' - 1
    BY <1>0, <1>1, <2>1, <2>3
  <2> QED
    BY <1>0, <1>1, <2>1, <2>2, <2>3, <2>4 DEF RepeatsPaid
<1>10. ASSUME ConnectRefused PROVE RepeatsPaid'
  <2>1. conn = 0 /\ conn' = conn /\ UNCHANGED <<applied, wire>>
    BY <1>10 DEF ConnectRefused
  <2> QED
    BY <1>3, <2>1
<1>11. ASSUME (\E m \in wire : Handle(m) \/ HandleRaises(m)) \/ LoseConnection \/ Crash
       PROVE  RepeatsPaid'
  <2>1. UNCHANGED <<calling, needsReconnect, wpc, conn, delivered>>
    BY <1>11 DEF Handle, HandleRaises, LoseConnection, Crash, vars
  <2>2. wire' \subseteq wire
    BY <1>11 DEF Handle, HandleRaises, LoseConnection, Crash
  <2>3. \/ applied' = applied
        \/ \E m \in wire \ wire', whole \in BOOLEAN : Applies(m, whole)
    <3>1. ASSUME NEW m \in wire, Handle(m) PROVE applied' = applied \/ (m \notin wire' /\ Applies(m, TRUE))
      BY <3>1 DEF Handle, Applies
    <3>2. ASSUME NEW m \in wire, HandleRaises(m)
          PROVE  applied' = applied \/ (m \notin wire' /\ Applies(m, FALSE))
      BY <3>2 DEF HandleRaises, Applies
    <3>3. ASSUME Crash PROVE applied' = applied \/ \E m \in wire : m \notin wire' /\ Applies(m, FALSE)
      BY <3>3 DEF Crash, Applies
    <3>4. ASSUME LoseConnection PROVE applied' = applied
      BY <3>4 DEF LoseConnection
    <3> QED
      BY <1>11, <3>1, <3>2, <3>3, <3>4
  <2>4. /\ IsFiniteSet(wire') /\ Touched' \subseteq Touched
        /\ (Copies - Cardinality(Touched))' <= Copies - Cardinality(Touched)
    BY <1>0, <2>2, <2>3, NoNewCopy
  <2>5. CASE conn > 0
    BY <2>1, <2>4, <2>5, PaidStill
  <2>6. CASE conn = 0
    <3>1. applied' = applied /\ wire' = wire
      BY <2>2, <2>3, <2>6 DEF RepeatsPaid
    <3> QED
      BY <1>3, <2>1, <2>6, <3>1
  <2> QED
    BY <1>0, <2>5, <2>6
<1>12. ASSUME Expire \/ UNCHANGED allVars PROVE RepeatsPaid'
  <2>1. UNCHANGED <<calling, needsReconnect, wpc, conn, delivered, applied, wire>>
    BY <1>12 DEF Expire, allVars, vars
  <2> QED
    BY <1>0, <1>2, <1>3, <2>1
<1> QED
  BY <1>4, <1>5, <1>6, <1>7, <1>8, <1>9, <1>10, <1>11, <1>12 DEF RTNext, SocketStep, ServerStep

-----------------------------------------------------------------------------
(* The paid-up invariant always holds. *)
LEMMA PAlways == RTSpec => []PInv
<1>1. RTInit => PInv
  <2> SUFFICES ASSUME RTInit PROVE PInv
    OBVIOUS
  <2>1. RInv
    BY RInit
  <2>2. ConnectionsPaid
    <3>1. fatal \in BOOLEAN
      BY DEF RTInit
    <3>2. faults \in 0..MaxFaults /\ conn = 0 /\ faults = 0 /\ ~needsReconnect /\ ~calling /\ wire = {}
      BY NetworkAssumption DEF RTInit, Init
    <3> QED
      BY <3>1, <3>2 DEF ConnectionsPaid, LostToFault
  <2>3. RepeatsPaid
    BY NothingBefore, FS_EmptySet DEF RTInit, RepeatsPaid, SendsAgain
  <2> QED
    BY <2>1, <2>2, <2>3 DEF PInv
<1>2. PInv /\ [RTNext]_allVars => PInv'
  BY RInductive, ConnectionsKept, RepeatsKept DEF PInv
<1> QED
  BY <1>1, <1>2, PTL DEF RTSpec

(* What the client and the server know of the writes agrees: an acknowledged *)
(* write is in the storage, whole, and every repetition in the storage is    *)
(* paid for by a fault, whatever is lost, restarted, expired or refused.     *)
THEOREM EndsInAgreement == RTSpec => []EndsAgree
<1>1. PInv => EndsAgree
  <2> SUFFICES ASSUME PInv PROVE EndsAgree
    OBVIOUS
  <2>0. conn \in Nat /\ faults \in Nat /\ MaxFaults \in Nat /\ faults <= MaxFaults /\ conn <= faults + 1
    BY NetworkAssumption DEF PInv, RInv, NetTyped, ConnectionsPaid
  <2>1. TypeOK
    BY DEF PInv, RInv, QInv
  <2>2. {open, calling, registered, fatal} \subseteq BOOLEAN
    BY DEF PInv, RInv, NetTyped, ConnectionsPaid
  <2>3. wire \subseteq [conn : 1..(MaxFaults + 1), task : Task]
    <3>1. ASSUME NEW m \in wire PROVE m \in [conn : 1..(MaxFaults + 1), task : Task]
      <4>1. m \in Messages
        BY DEF PInv, RInv, NetTyped
      <4>2. m.conn > 0 /\ m.conn <= conn
        BY DEF PInv, RInv, ReplyAnswers, ConnectionsPaid
      <4> QED
        BY <2>0, <4>1, <4>2 DEF Messages
    <3> QED
      BY <3>1
  <2>4. applied \in Seq([task : Task, whole : BOOLEAN]) /\ reply \in {"none", "ok", "error"}
        /\ faults \in 0..MaxFaults /\ conn \in 0..(MaxFaults + 1)
    BY <2>0 DEF PInv, RInv, NetTyped, Entries
  <2>5. RTTypeOK
    BY <2>1, <2>2, <2>3, <2>4 DEF RTTypeOK
  <2>6. RepeatsNeedFaults
    <3>1. NetTyped /\ IsFiniteSet(wire)
      BY DEF PInv, RInv, RepeatsPaid
    <3>2. /\ Cardinality(Touched) \in Nat /\ Cardinality(wire) \in Nat /\ Len(applied) \in Nat
          /\ Cardinality(Touched) <= Cardinality(AppliedTasks) + Cardinality(wire)
          /\ Cardinality(AppliedTasks) \in Nat
      BY <3>1, TouchedTyped
    <3>3. Len(applied) <= Cardinality(AppliedTasks) + faults
      <4>1. CASE conn = 0
        <5>1. applied = << >>
          BY <4>1 DEF PInv, RepeatsPaid
        <5> QED
          BY <2>0, <3>2, <5>1
      <4>2. CASE conn > 0
        <5>1. Copies <= Cardinality(Touched) + conn - 1
          BY <4>2 DEF PInv, RepeatsPaid
        <5> QED
          BY <2>0, <3>2, <5>1 DEF Copies
      <4> QED
        BY <2>0, <4>1, <4>2
    <3> QED
      BY <3>3 DEF RepeatsNeedFaults, AppliedTasks
  <2> QED
    BY <2>5, <2>6 DEF EndsAgree, PInv, RInv
<1> QED
  BY <1>1, PAlways, PTL
=============================================================================
