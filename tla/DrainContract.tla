----------------------------- MODULE DrainContract -----------------------------
(***************************************************************************)
(* What a drain promises, whatever the listeners, the signals and the      *)
(* callers of Shutdown do: the gate is shut once and for all; counted      *)
(* requests are handled if they come before that and refused if they come  *)
(* later, never the other way; a count found at zero stays there; and      *)
(* after a drain has completed no handler runs ever again.                 *)
(***************************************************************************)
CONSTANTS Requests, Counted, Callers     \* the requests, those that are counted

VARIABLES
    shut,      \* the gate
    place,     \* of each request: outside, inside (its handler runs), refused, gone
    zero,      \* who has found no counted request inside
    drain      \* how each caller's drain stands: pending, complete, timed out

vars == <<shut, place, zero, drain>>

Inside == {r \in Requests : place[r] = "inside"}

Init ==
    /\ shut = FALSE /\ zero = {}
    /\ place = [r \in Requests |-> "outside"]
    /\ drain = [c \in Callers |-> "pending"]

Put(r, from, to) == place[r] = from /\ place' = [place EXCEPT ![r] = to]

Admit(r) ==
    /\ Put(r, "outside", "inside")
    /\ r \in Counted => ~shut
    /\ \A c \in Callers : drain[c] # "complete"
    /\ UNCHANGED <<shut, zero, drain>>

Refuse(r) ==
    /\ Put(r, "outside", "refused")
    /\ r \in Counted /\ shut
    /\ UNCHANGED <<shut, zero, drain>>

Release(r) == Put(r, "inside", "gone") /\ UNCHANGED <<shut, zero, drain>>

Shut == ~shut /\ shut' = TRUE /\ UNCHANGED <<place, zero, drain>>

FindZero(c) ==
    /\ shut /\ c \notin zero /\ Inside \cap Counted = {}
    /\ zero' = zero \cup {c}
    /\ UNCHANGED <<shut, place, drain>>

End(c, how) == drain[c] = "pending" /\ drain' = [drain EXCEPT ![c] = how]

Complete(c) ==
    /\ End(c, "complete")
    /\ c \in zero /\ Inside = {}
    /\ UNCHANGED <<shut, place, zero>>

TimeUp(c) == shut /\ End(c, "timed out") /\ UNCHANGED <<shut, place, zero>>

Next ==
    \/ Shut
    \/ \E r \in Requests : Admit(r) \/ Refuse(r) \/ Release(r)
    \/ \E c \in Callers : FindZero(c) \/ Complete(c) \/ TimeUp(c)

Spec == Init /\ [][Next]_vars

===============================================================================
