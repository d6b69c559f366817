---------------------------- MODULE LiveService ----------------------------
(***************************************************************************)
(* What a page may rely on when it uses the live update: a result is of a  *)
(* query the page itself has started, and a query that has fallen silent   *)
(* stays silent until it is started again.  LiveUpdate implements this;    *)
(* RunsTable is written against it.                                        *)
(***************************************************************************)
EXTENDS Sequences

CONSTANT Queries

VARIABLES
  sources,  \* the queries of which a result may still be posted
  results   \* results under way to the page, the oldest first

LSInit == sources = {} /\ results = <<>>

Start(q) == sources' = sources \cup {q} /\ UNCHANGED results

\* A stop, a failed call or the end of the worker may silence any of them.
Silence == sources' \in SUBSET sources /\ UNCHANGED results

Post(q) ==
  /\ q \in sources
  /\ results' = Append(results, q)
  /\ sources' \in SUBSET sources

Deliver ==
  /\ results # <<>>
  /\ results' = Tail(results)
  /\ UNCHANGED sources

LSNext ==
  \/ \E q \in Queries : Start(q) \/ Post(q)
  \/ Silence
  \/ Deliver

LSSpec == LSInit /\ [][LSNext]_<<sources, results>>
=============================================================================
