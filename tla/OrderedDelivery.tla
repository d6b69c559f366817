--------------------------- MODULE OrderedDelivery ---------------------------
(***************************************************************************)
(* What remote tracking promises to a run, whatever happens on the way:   *)
(* the writes of the client reach the storage of the server at least once *)
(* and in the order of the client's queue.  A write may be applied again,  *)
(* and a batch of instructions may be applied in part before it is applied *)
(* whole, but the next write is not begun before it is.  A copy of a write *)
(* that was given up may still turn up, behind the writes after it.        *)
(***************************************************************************)
EXTENDS Naturals, Sequences

CONSTANT Tasks    \* the writes

VARIABLES
  sent,     \* the writes in the order of the client's queue
  log,      \* what was applied: the task, and whether all of it was
  late      \* the writes of which a given-up copy is on its way

vars == <<sent, log, late>>

Applied(n) == \E i \in DOMAIN log : log[i].task = sent[n] /\ log[i].whole

Begun(n) == \E i \in DOMAIN log : log[i].task = sent[n]

(* It is the turn of the n-th write. *)
Turn(n) == \A k \in 1..(n - 1) : Applied(k)

Init == sent = <<>> /\ log = <<>> /\ late = {}

Submit ==
  /\ \E t \in Tasks : sent' = Append(sent, t)
  /\ UNCHANGED log

Apply(n, whole) ==
  /\ Turn(n)
  /\ sent[n] \in late \/ \A k \in (n + 1)..Len(sent) : ~Begun(k)
  /\ log' = Append(log, [task |-> sent[n], whole |-> whole])
  /\ UNCHANGED sent

(* Only a write whose turn it was is ever given up. *)
GiveUp == \A t \in late' \ late : \E n \in DOMAIN sent : t = sent[n] /\ Turn(n)

Next ==
  /\ \/ Submit
     \/ \E n \in DOMAIN sent, whole \in BOOLEAN : Apply(n, whole)
     \/ UNCHANGED <<sent, log>>
  /\ GiveUp

Spec == Init /\ [][Next]_vars
=============================================================================
