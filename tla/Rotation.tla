------------------------------- MODULE Rotation -------------------------------
(***************************************************************************)
(* Many requests resolving against one catalog: the round robin counters   *)
(* that ResolveWithModality shares between them.  Each resolution is one   *)
(* step: catalog.mu covers the only access to shared state.                *)
(***************************************************************************)
EXTENDS Catalog

CONSTANTS
    Asks,      \* the (model, wire, header) triples clients send
    MaxPicks   \* bound on the history kept for one pool

(* Pools and surfaces are lists of strings in yaml, and a file is finite.  *)
ASSUME PoolsAssumption ==
    /\ \A m \in ModelIds : IsFiniteSet(DOMAIN Modalities(m))
    /\ \A id \in PoolIds :
          Pool(id).pool \in Seq([ref : STRING, model : STRING, surface : STRING])
    /\ \A r \in Refs :
          Document.providers[r].surfaces \in
              Seq([id : STRING, protocol : STRING, adapter : STRING])

VARIABLES
    rr,        \* poolKey -> roundRobinState.idx
    picks,     \* history: <<model, modality>> -> pool positions served, in order
    last       \* the latest resolution: what was asked, and the plan returned

vars == <<rr, picks, last>>

NoPlan == [strategy |-> "none", targets |-> <<>>]

Init ==
    /\ rr    = [k \in PoolKeys |-> 0]
    /\ picks = [id \in PoolIds |-> <<>>]
    /\ last  = [pool |-> <<>>, plan |-> NoPlan]

(* Resolution stops before it reaches a pool.                              *)
Unresolved(ask) ==
    /\ Pools(ask.model, ask.wire, ModalityHint(ask.wire, ask.header)) = {}
    /\ last' = [pool |-> <<>>, plan |-> NoPlan]
    /\ UNCHANGED <<rr, picks>>

(* Resolution picks from the pool of modality n, and may then still fail.  *)
Resolve(ask) ==
    \E n \in Pools(ask.model, ask.wire, ModalityHint(ask.wire, ask.header)) :
        LET id  == <<ask.model, n>>
            mod == Pool(id)
            idx == rr[PoolKey(n, ask.wire)]
        IN /\ Len(picks[id]) < MaxPicks
           /\ rr' = Advanced(rr, n, mod)
           /\ picks' = IF Strategy(mod) = "round_robin"
                       THEN [picks EXCEPT ![id] = Append(@, Turn(mod, idx))]
                       ELSE picks
           /\ last' = [pool |-> id,
                       plan |-> IF PlanBuilds(mod, idx)
                                THEN PlanOf(ask.model, mod, idx) ELSE NoPlan]

Next == \E ask \in Asks : Unresolved(ask) \/ Resolve(ask)

Spec == Init /\ [][Next]_vars

-------------------------------------------------------------------------------
TypeOK ==
    /\ rr \in [PoolKeys -> Nat]
    /\ picks \in [PoolIds -> Seq(Nat \ {0})]
    /\ last.pool \in PoolIds \cup {<<>>}

(* The pools whose counter no other round robin pool uses.                 *)
Alone(id) ==
    \A other \in PoolIds :
        /\ Strategy(Pool(other)) = "round_robin"
        /\ PoolKey(other[2], Pool(other).wire) = PoolKey(id[2], Pool(id).wire)
        => other = id

InRotation(id) ==
    \A i \in 1..(Len(picks[id]) - 1) :
        picks[id][i + 1] = (picks[id][i] % Len(Pool(id).pool)) + 1

(* A round robin pool that has its counter to itself serves its members in *)
(* turn: each pick is the member after the one picked before, however the  *)
(* requests of other models are interleaved (catalog.go pickEntries).      *)
AloneInRotation == \A id \in PoolIds : Alone(id) => InRotation(id)

(* docs/catalog.md says of round_robin "Picks one provider per request in  *)
(* rotation".  poolKey is the modality and the wire only, so two models    *)
(* with the same modality key and wire advance each other's counter, and   *)
(* neither is served in rotation.                                          *)
EveryPoolInRotation == \A id \in PoolIds : InRotation(id)

(* A plan is the pool it was resolved from: a failover plan has every      *)
(* member in yaml order, a round robin plan exactly one member, each with  *)
(* its provider's credential profile.  A target is a translate adapter, or *)
(* speaks another protocol than the wire's, only if its entry pins the     *)
(* surface; and if it does not, the engine has a handler for it or         *)
(* "adapters doctor" reports it: three tables, of the catalog, the adapter *)
(* registry and the command, agree on what a protocol is good for.         *)
PlanMirrorsPool ==
    last.plan # NoPlan =>
        LET mod == Pool(last.pool)
            ts  == last.plan.targets
            Mirrors(t, e) ==
                /\ t.ref = e.ref
                /\ t.profile = Document.providers[e.ref].profile
                /\ e.model # Omitted => t.model = e.model
                /\ e.surface = Omitted =>
                      /\ t.adapter = Omitted
                      /\ ProtocolMatchesWire(t.protocol, mod.wire)
                      /\ Registered(t, mod.wire) \/ t.protocol \in Missing
        IN /\ Strategy(mod) = "failover" =>
                 /\ Len(ts) = Len(mod.pool)
                 /\ \A k \in DOMAIN ts : Mirrors(ts[k], mod.pool[k])
           /\ Strategy(mod) = "round_robin" =>
                 /\ Len(ts) = 1
                 /\ Mirrors(ts[1], mod.pool[picks[last.pool][Len(picks[last.pool])]])

===============================================================================
