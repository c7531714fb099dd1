----------------------------- MODULE MCLifecycle -----------------------------
(* Two requests on the data plane, one of them on a mounted route, and one  *)
(* on the admin plane.                                                      *)
EXTENDS Lifecycle

CONSTANTS d1, m1, a1

MCRequests == {d1, m1, a1}
MCPlaneOf  == [r \in MCRequests |-> IF r = a1 THEN "admin" ELSE "data"]
MCTracked  == {d1, a1}

===============================================================================
