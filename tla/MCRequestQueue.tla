--------------------------- MODULE MCRequestQueue ---------------------------
EXTENDS RequestQueue, TLC

CONSTANTS p1, p2

(* One thread writes small tasks, the other one large ones. *)
OneAndTwo == (p1 :> {1}) @@ (p2 :> {2})
=============================================================================
