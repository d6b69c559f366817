--------------------------- MODULE RemoteTracking ---------------------------
(***************************************************************************)
(* Remote tracking end to end: the request queue of a client, the          *)
(* websocket it writes on (aim/ext/transport/client.py) and the tracking  *)
(* server (tracking.py, router.py, heartbeat.py).                           *)
(*                                                                         *)
(* The worker of RequestQueue calls _run_write_instructions: it sends one  *)
(* message and waits for the one reply.  The server's handler executes a   *)
(* message without an await, so no other handler runs in between; only the *)
(* death of the server process can cut it in two.                          *)
(*                                                                         *)
(* Simplifications: one client, whose resources (run tree, sequence tree,  *)
(* lock, ...) are re-created and dropped together, so they are one flag;   *)
(* storage that survives a crash of the server holds what was applied.     *)
(***************************************************************************)
EXTENDS RequestQueue

CONSTANTS
  MaxFaults,      \* bound: faults of the network and of the server
  Faults          \* which of them happen, see NetworkAssumption

ASSUME NetworkAssumption ==
  /\ MaxFaults \in Nat
  /\ Faults \subseteq {"lose", "crash", "raise", "expire", "refuse"}
  /\ Outcomes = {"ok", "closed", "raised"}

VARIABLES
  conn,         \* number of the client's websocket, 0 before the first write
  open,         \* the client's websocket is connected
  calling,      \* the worker waits in ws.recv()
  reply,        \* what the client can receive: "none", "ok" or "error"
  wire,         \* messages sent and not yet read by a handler of the server
  registered,   \* the client's resources are in resource_pool
  applied,      \* what the storage has executed, in order
  faults,       \* how many faults happened
  fatal         \* history: one of them ends the worker, see Crash and the others

netVars == <<conn, open, calling, reply, wire, registered, applied, faults, fatal>>
allVars == <<vars, netVars>>

RTInit ==
  /\ Init
  /\ conn = 0
  /\ open = FALSE
  /\ calling = FALSE
  /\ reply = "none"
  /\ wire = {}
  /\ registered = TRUE
  /\ applied = <<>>
  /\ faults = 0
  /\ fatal = FALSE

(* A fault the client recovers from by reconnecting, or one it does not. *)
Fault(kind) == kind \in Faults /\ faults < MaxFaults /\ faults' = faults + 1

(* The worker is about to call task_f. *)
Ready == wpc = "exec" /\ CanRetry /\ ~needsReconnect /\ ~calling

-----------------------------------------------------------------------------
(* The property `ws`, at the first write. *)
Connect ==
  /\ Ready
  /\ conn = 0
  /\ conn' = 1
  /\ open' = TRUE
  /\ UNCHANGED <<vars, calling, reply, wire, registered, applied, faults, fatal>>

(* The first connection is refused: not a ConnectionClosedError, so the *)
(* exception leaves the worker.                                          *)
ConnectRefused ==
  /\ Ready
  /\ conn = 0
  /\ Fault("refuse")
  /\ fatal' = TRUE
  /\ Call("raised")
  /\ UNCHANGED <<conn, open, calling, reply, wire, registered, applied>>

Send_NoWait ==
  /\ Ready
  /\ conn > 0
  /\ open
  /\ wire' = wire \cup {[conn |-> conn, task |-> wtask]}
  /\ calling' \in BOOLEAN
  /\ UNCHANGED <<vars, conn, open, reply, registered, applied, faults, fatal>>

Send ==
  /\ Ready
  /\ conn > 0
  /\ open
  /\ wire' = wire \cup {[conn |-> conn, task |-> wtask]}
  /\ calling' = TRUE
  /\ UNCHANGED <<vars, conn, open, reply, registered, applied, faults, fatal>>

(* send or recv raises ConnectionClosedError; recv first returns what came. *)
FindClosed ==
  /\ \/ Ready /\ conn > 0
     \/ calling /\ reply = "none"
  /\ ~open
  /\ Call("closed")
  /\ calling' = FALSE
  /\ UNCHANGED <<conn, open, reply, wire, registered, applied, faults, fatal>>

(* recv returns b'OK', or the exception of the server is raised again. *)
Receive ==
  /\ calling
  /\ \/ reply = "ok" /\ Call("ok")
     \/ reply = "error" /\ Call("raised")
  /\ calling' = FALSE
  /\ reply' = "none"
  /\ UNCHANGED <<conn, open, wire, registered, applied, faults, fatal>>

Reinitialized_Not == registered

(* _reinitialize_all_resources: the resources are in the pool again. *)
Reinitialized == TRUE

(* Client.reconnect: the reconnect call, a new websocket, and every        *)
(* resource created again under the handler the client already holds.      *)
Reconnected ==
  /\ Reconnect(TRUE)
  /\ conn' = conn + 1
  /\ open' = TRUE
  /\ registered' = Reinitialized
  /\ reply' = "none"
  /\ UNCHANGED <<calling, wire, applied, faults, fatal>>

(* One of its three parts fails; get_resource drops what it fails to make. *)
ReconnectFails ==
  /\ Fault("lose")
  /\ Reconnect(FALSE)
  /\ registered' \in {registered, FALSE}
  /\ UNCHANGED <<conn, open, calling, reply, wire, applied, fatal>>

-----------------------------------------------------------------------------

(* What the handler of the server sends back. *)
Answer == IF registered THEN "ok" ELSE "error"

(* run_write_instructions: one message, all its instructions, the reply.   *)
(* A handler that is missing raises before anything is executed, and the   *)
(* handler of the connection ends with the exception as its last message.  *)
Handle(m) ==
  /\ m \in wire
  /\ wire' = wire \ {m}
  /\ applied' = IF registered THEN Append(applied, [task |-> m.task, whole |-> TRUE]) ELSE applied
  /\ IF m.conn = conn /\ open
     THEN /\ reply' = Answer
          /\ open' = registered
     ELSE UNCHANGED <<reply, open>>
  /\ UNCHANGED <<vars, conn, calling, registered, faults, fatal>>

(* An instruction of the message raises: those before it stay executed, the *)
(* client gets the exception, and the handler of the connection ends.       *)
HandleRaises(m) ==
  /\ m \in wire
  /\ Fault("raise")
  /\ fatal' = TRUE
  /\ registered
  /\ wire' = wire \ {m}
  /\ \/ UNCHANGED applied
     \/ applied' = Append(applied, [task |-> m.task, whole |-> FALSE])
  /\ IF m.conn = conn /\ open
     THEN reply' = "error" /\ open' = FALSE
     ELSE UNCHANGED <<reply, open>>
  /\ UNCHANGED <<vars, conn, calling, registered>>

(* The connection is lost: with it the message on its way, unless the      *)
(* server has it in a buffer, and the reply, unless the client has it.     *)
LoseConnection ==
  /\ Fault("lose")
  /\ open
  /\ open' = FALSE
  /\ \/ UNCHANGED wire
     \/ wire' = {m \in wire : m.conn # conn}
  /\ reply' \in {reply, "none"}
  /\ UNCHANGED <<vars, conn, calling, registered, applied, fatal>>

(* The server process dies, maybe after some instructions of a message,   *)
(* and is started again with an empty resource_pool.  `ws` connects for    *)
(* the first time without creating resources again: a restart before that  *)
(* ends the worker.                                                        *)
Crash ==
  /\ Fault("crash")
  /\ fatal' = (fatal \/ conn = 0)
  /\ \/ UNCHANGED applied
     \/ /\ registered
        /\ \E m \in wire : applied' = Append(applied, [task |-> m.task, whole |-> FALSE])
  /\ wire' = {}
  /\ open' = FALSE
  /\ registered' = FALSE
  /\ reply' \in {reply, "none"}
  /\ UNCHANGED <<vars, conn, calling>>

(* HeartbeatWatcher: no heartbeat for the keep-alive time, the websocket may *)
(* be connected all the while.                                               *)
Expire ==
  /\ Fault("expire")
  /\ fatal' = TRUE
  /\ registered
  /\ registered' = FALSE
  /\ UNCHANGED <<vars, conn, open, calling, reply, wire, applied>>

-----------------------------------------------------------------------------
(* The steps of the client that touch neither the socket nor the server. *)
LocalStep ==
  /\ (\E p \in Producers : ProducerNext(p)) \/ WorkerStep \/ Close \/ CloserStep
  /\ UNCHANGED netVars

SocketStep == Connect \/ Send \/ FindClosed \/ Receive \/ Reconnected

ServerStep == \E m \in wire : Handle(m)

RTNext ==
  \/ LocalStep
  \/ SocketStep
  \/ ConnectRefused
  \/ ReconnectFails
  \/ ServerStep
  \/ \E m \in wire : HandleRaises(m)
  \/ LoseConnection
  \/ Crash
  \/ Expire

RTSpec == RTInit /\ [][RTNext]_allVars

(* The threads of the client and of the server run; faults are finitely *)
(* many by MaxFaults, so the network needs no fairness of its own.       *)
RTFairSpec ==
  /\ RTSpec
  /\ \A p \in Producers : WF_allVars(ProducerStep(p) /\ UNCHANGED netVars)
  /\ WF_allVars(WorkerStep /\ UNCHANGED netVars)
  /\ WF_allVars(SocketStep)
  /\ WF_allVars(ServerStep)

-----------------------------------------------------------------------------
RTTypeOK ==
  /\ TypeOK
  /\ conn \in 0..(MaxFaults + 1)
  /\ {open, calling, registered, fatal} \subseteq BOOLEAN
  /\ reply \in {"none", "ok", "error"}
  /\ wire \subseteq [conn : 1..(MaxFaults + 1), task : Task]
  /\ applied \in Seq([task : Task, whole : BOOLEAN])
  /\ faults \in 0..MaxFaults

(* The pipeline implements its promise: through retries, reconnections,    *)
(* crashes of the server and put-backs the writes are applied in the order *)
(* they were put, each at least once before the next one is begun.  Only a *)
(* message of a dead connection is applied late.                           *)
Late == {m.task : m \in {n \in wire : n.conn # conn \/ ~open}}

Promise == INSTANCE OrderedDelivery WITH
             Tasks <- Task, sent <- accepted, log <- applied, late <- Late
ImplementsPromise == Promise!Spec

WholeIn(t, log) == \E i \in DOMAIN log : log[i].task = t /\ log[i].whole

(* A task the client takes off its queue is in the storage of the server,  *)
(* whole: b'OK' is only believed for the message it answers.               *)
AcknowledgedIsApplied == \A i \in DOMAIN delivered : WholeIn(delivered[i], applied)

(* A thread reads its own writes: when wait_for_finish lets it issue a     *)
(* read instruction, all it has written is applied, even if the resources  *)
(* were lost and re-created meanwhile.                                     *)
ReadsOwnWrites ==
  [][\A p \in Producers : ppc[p] = "joining" /\ ppc'[p] = "idle" =>
       \A i \in DOMAIN accepted : accepted[i].owner = p => WholeIn(accepted[i], applied)]_allVars

(* A write is repeated only for a fault: every entry beyond one for each   *)
(* task is paid for by a lost connection or a crash of the server.         *)
RepeatsNeedFaults ==
  Len(applied) <= Cardinality({applied[i].task : i \in DOMAIN applied}) + faults

(* What both ends know of the writes agrees, across lost connections,      *)
(* crashes, expiry and repetitions.                                        *)
EndsAgree == RTTypeOK /\ AcknowledgedIsApplied /\ RepeatsNeedFaults

(* Lost connections and restarts of the server delay a write but do not    *)
(* stop it: what was put is in the end applied, unless the client shuts    *)
(* its queue down, or a fault that ends the worker has happened.           *)
EventuallyApplied ==
  \A p \in Producers : \A n \in 1..MaxTasks :
    LET IsIt(t) == t.owner = p /\ t.num = n
    IN  (\E i \in DOMAIN accepted : IsIt(accepted[i]))
          ~> (shutdown \/ fatal \/ \E i \in DOMAIN applied : IsIt(applied[i].task) /\ applied[i].whole)
=============================================================================
