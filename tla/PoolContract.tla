----------------------------- MODULE PoolContract -----------------------------
(***************************************************************************)
(* What the data plane promises for each request, whatever the catalog,    *)
(* the store and the upstreams do: it is refused, or it is given a pool of *)
(* members to try, one after the other and each once, until one member's   *)
(* response is delivered or the last member has failed.                    *)
(***************************************************************************)
EXTENDS Naturals

CONSTANT Requests

VARIABLES
    phase,     \* where the request is
    size,      \* the members it may try
    member     \* the member it is at

vars == <<phase, size, member>>

Init ==
    /\ phase  = [r \in Requests |-> "waiting"]
    /\ size   = [r \in Requests |-> 0]
    /\ member = [r \in Requests |-> 0]

Become(r, from, to) == phase[r] = from /\ phase' = [phase EXCEPT ![r] = to]

Refuse(r) == Become(r, "waiting", "refused") /\ UNCHANGED <<size, member>>

Admit(r) ==
    /\ Become(r, "waiting", "trying")
    /\ size'[r] \in Nat \ {0}
    /\ size' = [size EXCEPT ![r] = size'[r]]
    /\ member' = [member EXCEPT ![r] = 1]

Advance(r) ==
    /\ phase[r] = "trying" /\ member[r] < size[r]
    /\ member' = [member EXCEPT ![r] = @ + 1]
    /\ UNCHANGED <<phase, size>>

Exhaust(r) ==
    /\ Become(r, "trying", "exhausted")
    /\ member[r] = size[r]
    /\ UNCHANGED <<size, member>>

Deliver(r) == Become(r, "trying", "delivering") /\ UNCHANGED <<size, member>>
Finish(r)  == Become(r, "delivering", "delivered") /\ UNCHANGED <<size, member>>

Next == \E r \in Requests :
            Refuse(r) \/ Admit(r) \/ Advance(r) \/ Exhaust(r) \/ Deliver(r) \/ Finish(r)

Spec == Init /\ [][Next]_vars

===============================================================================
