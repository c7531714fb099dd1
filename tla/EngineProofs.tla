----------------------------- MODULE EngineProofs -----------------------------
(***************************************************************************)
(* Proofs about the wire engine, for every catalog document, every set of  *)
(* requests and every behaviour of upstreams, clients and credential       *)
(* writers.                                                                *)
(***************************************************************************)
EXTENDS Engine, TLAPS

(* An element of a sequence.                                               *)
LEMMA ElementOfSeq ==
    ASSUME NEW S, NEW seq \in Seq(S), NEW k \in 1..Len(seq)
    PROVE  seq[k] \in S
OBVIOUS

(* A pool of one entry, as round robin picks it.                           *)
LEMMA SingletonSeq ==
    ASSUME NEW S, NEW x \in S
    PROVE  <<x>> \in Seq(S) /\ Len(<<x>>) = 1
OBVIOUS

(* The targets of a plan are a sequence.                                   *)
LEMMA SeqOfFunction ==
    ASSUME NEW S, NEW n \in Nat, NEW f \in [1..n -> S]
    PROVE  f \in Seq(S) /\ Len(f) = n
OBVIOUS

(* surfaceFor returns a surface of the provider.                           *)
LEMMA SurfaceType ==
    ASSUME NEW p \in Refs, NEW e, NEW w,
           NEW k \in SurfaceFor(Document.providers[p], e, w)
    PROVE  Surfaces(Document.providers[p])[k] \in Ports
<1> DEFINE prov == Document.providers[p]
<1>1. prov.surfaces \in Seq(Ports) /\ prov.protocol \in Texts
  BY DocumentAssumption
<1>2. k \in 1..Len(Surfaces(prov))
  BY DEF SurfaceFor
<1> HIDE DEF prov
<1>3. Surfaces(prov) \in Seq(Ports)
  <2> DEFINE default == [id |-> "default", protocol |-> prov.protocol, adapter |-> Omitted]
  <2>1. default \in Ports
    <3>1. "default" \in Texts /\ Omitted \in Texts
      BY InputAssumption
    <3>2. QED BY <1>1, <3>1 DEF Ports
  <2> HIDE DEF default
  <2>2. <<default>> \in Seq(Ports)
    BY <2>1, SingletonSeq
  <2>3. Surfaces(prov) \in {<<default>>, prov.surfaces}
    BY DEF Surfaces, default
  <2>4. QED BY <1>1, <2>2, <2>3
<1>4. Surfaces(prov)[k] \in Ports
  BY <1>2, <1>3, ElementOfSeq
<1>5. QED BY <1>4 DEF prov

(* targetFromEntry returns a target.                                       *)
LEMMA TargetType ==
    ASSUME NEW m \in Texts, NEW e \in Entries, NEW w, Buildable(e, w)
    PROVE  TargetOf(m, e, w) \in Targets
<1> DEFINE prov == Document.providers[e.ref]
           k == CHOOSE j \in SurfaceFor(prov, e, w) : TRUE
           s == Surfaces(prov)[k]
           model == IF e.model = Omitted THEN m ELSE e.model
<1>1. e.ref \in Refs /\ k \in SurfaceFor(prov, e, w)
  BY DEF Buildable
<1>2. s \in Ports
  BY <1>1, SurfaceType
<1>3. prov.inject \in SUBSET Texts /\ prov.preset \in Texts /\ prov.profile \in Profiles
  BY <1>1, DocumentAssumption DEF Profiles
<1>4. model \in Texts
  BY DEF Entries
<1>5. TargetOf(m, e, w) =
        [ref |-> e.ref, protocol |-> s.protocol, adapter |-> s.adapter,
         profile |-> prov.profile, model |-> model,
         inject |-> prov.inject, preset |-> prov.preset]
  BY DEF TargetOf
<1> HIDE DEF prov, s, model, k
<1>6. s.protocol \in Texts /\ s.adapter \in Texts
  BY <1>2 DEF Ports
<1>7. QED BY <1>1, <1>3, <1>4, <1>5, <1>6 DEF Targets

RoutePlans == {pl \in [strategy: {"failover", "round_robin"}, targets: Seq(Targets)] :
                   /\ Len(pl.targets) \in Nat \ {0}
                   /\ pl.strategy = "round_robin" => Len(pl.targets) = 1}

(* What a plan must have to be one resolution can return.                  *)
LEMMA RoutePlanRecord ==
    ASSUME NEW strategy \in {"failover", "round_robin"},
           NEW targets \in Seq(Targets), Len(targets) \in Nat \ {0},
           strategy = "round_robin" => Len(targets) = 1
    PROVE  [strategy |-> strategy, targets |-> targets] \in RoutePlans
BY DEF RoutePlans

(* A resolved plan has a target for each entry picked, and at least one.   *)
LEMMA PlanType ==
    ASSUME NEW m \in ModelIds \cap Texts, NEW n \in DOMAIN Modalities(m), NEW idx \in Nat,
           Modalities(m)[n].pool # <<>>,
           Strategy(Modalities(m)[n]) \in {"failover", "round_robin"},
           PlanBuilds(Modalities(m)[n], idx)
    PROVE  PlanOf(m, Modalities(m)[n], idx) \in RoutePlans
<1> DEFINE mod == Modalities(m)[n]
           entries == PickEntries(mod, idx)
           targets == [k \in 1..Len(entries) |-> TargetOf(m, entries[k], mod.wire)]
<1>1. <<m, n>> \in PoolIds
  BY DEF PoolIds
<1>2. mod.pool \in Seq(Entries) /\ Len(mod.pool) \in Nat \ {0}
  <2>1. Pool(<<m, n>>) = mod
    BY DEF Pool
  <2>2. mod.pool \in Seq(Entries)
    BY <1>1, <2>1, DocumentAssumption
  <2>3. QED BY <2>2
<1>3. /\ entries \in Seq(Entries) /\ Len(entries) \in Nat \ {0}
      /\ Strategy(mod) = "round_robin" => Len(entries) = 1
  <2>1. CASE Strategy(mod) = "round_robin"
    <3> DEFINE turn == Turn(mod, idx)
    <3>1. turn \in 1..Len(mod.pool)
      <4> DEFINE d == Len(mod.pool)
      <4>1. d \in Nat \ {0}
        BY <1>2
      <4>2. turn = (idx % d) + 1
        BY DEF Turn
      <4> HIDE DEF d, turn
      <4>3. idx % d \in 0..(d - 1)
        BY <4>1
      <4>4. turn \in 1..d
        BY <4>1, <4>2, <4>3
      <4>5. QED BY <4>4 DEF d, turn
    <3>2. mod.pool[turn] \in Entries
      BY <1>2, <3>1
    <3>3. entries = <<mod.pool[turn]>>
      BY <2>1 DEF PickEntries
    <3> HIDE DEF entries, turn
    <3>4. QED BY <3>2, <3>3
  <2>2. CASE Strategy(mod) # "round_robin"
    BY <1>2, <2>2 DEF PickEntries
  <2>3. QED BY <2>1, <2>2
<1>4. \A k \in 1..Len(entries) : TargetOf(m, entries[k], mod.wire) \in Targets
  <2>1. TAKE k \in 1..Len(entries)
  <2>2. entries[k] \in Entries
    BY <1>3
  <2>3. Buildable(entries[k], mod.wire)
    BY DEF PlanBuilds
  <2>4. QED BY <2>2, <2>3, TargetType
<1> HIDE DEF entries
<1>5. targets \in Seq(Targets) /\ Len(targets) = Len(entries)
  BY <1>3, <1>4
<1>6. PlanOf(m, mod, idx) = [strategy |-> Strategy(mod), targets |-> targets]
  BY DEF PlanOf, entries
<1> DEFINE strat == Strategy(mod)
<1>7. strat \in {"failover", "round_robin"}
  OBVIOUS
<1>8. PlanOf(m, Modalities(m)[n], idx) = [strategy |-> strat, targets |-> targets]
  BY <1>6
<1>9. strat = "round_robin" => Len(targets) = 1
  BY <1>3, <1>5
<1>10. Len(targets) \in Nat \ {0}
  BY <1>3, <1>5
<1> HIDE DEF targets, mod, strat
<1>11. QED BY <1>5, <1>7, <1>8, <1>9, <1>10, RoutePlanRecord

-------------------------------------------------------------------------------
(* The initial states.                                                     *)
(* A request that has no plan has no members to try.                       *)
LEMMA NoPlanIsEmpty ==
    ASSUME NEW pl, pl = NoPlan PROVE Len(pl.targets) = 0
BY DEF NoPlan

(* IInv holds initially: no request has arrived.                           *)
LEMMA InitIInv == Init => IInv
<1> SUFFICES ASSUME Init PROVE IInv
  OBVIOUS
<1>1. TypeOK
  <2> USE DEF Init
  <2>1. cred \in [Profiles -> [ver: Nat, status: {"absent", "active", "disabled"}, kind: Kinds]]
    BY DEF Kinds
  <2>2. plan \in [Requests -> [strategy: {"none", "failover", "round_robin"}, targets: Seq(Targets)]]
    <3>1. NoPlan \in [strategy: {"none", "failover", "round_robin"}, targets: Seq(Targets)]
      <4>1. <<>> \in Seq(Targets)
        OBVIOUS
      <4>2. QED BY <4>1 DEF NoPlan
    <3>2. QED BY <3>1
  <2>3. tries \in [Requests -> Seq(Attempts)]
    OBVIOUS
  <2>4. QED BY <2>1, <2>2, <2>3 DEF TypeOK, Steps, NoMat, Silence, Kinds
<1>2. ASSUME NEW r \in Requests PROVE Good(r)
  <2>1. /\ pc[r] = "idle" /\ at[r] = 0 /\ Len(tries[r]) = 0 /\ Unanswered(r)
        /\ open[r] = {} /\ plan[r] = NoPlan
    BY DEF Init, Silence, Unanswered
  <2>2. Size(r) = 0
    BY <2>1, NoPlanIsEmpty DEF Size
  <2> DEFINE e == pc[r]
  <2>3. e = "idle" /\ e \notin InLoop /\ e \notin Ready /\ e \notin Called
    BY <2>1 DEF InLoop, Ready, Called
  <2>4. LoopShape(r) /\ RelayShape(r)
    BY <2>1, <2>2, <2>3 DEF LoopShape, RelayShape
  <2>5. RoundRobinShape(r)
    BY <2>2 DEF RoundRobinShape
  <2>6. InOrder(r) /\ OwnLive(r) /\ OwnModel(r)
    BY <2>1 DEF InOrder, OwnLive, OwnModel
  <2>7. Justified(r)
    BY <2>1 DEF Justified, Unanswered
  <2>8. Closed(r) /\ Fresh(r) /\ Authority(r)
    BY <2>1 DEF Closed, Fresh, Authority
  <2>9. Admitted(r)
    BY <2>1, <2>3 DEF Admitted
  <2>10. QED BY <2>4, <2>5, <2>6, <2>7, <2>8, <2>9 DEF Good
<1>3. QED BY <1>1, <1>2 DEF IInv

(* What a step does not touch stays good.                                  *)
Kept(s) ==
    /\ UNCHANGED <<pc[s], input[s], plan[s], at[s], mat[s], tries[s], open[s], client[s], held[s]>>
    /\ live[s] \subseteq live'[s] /\ keys' \subseteq keys
    /\ pc[s] # "idle" => ActiveNow' \subseteq live'[s]

(* A step that keeps what a request has keeps all that is known of it.     *)
LEMMA Frame ==
    ASSUME NEW s \in Requests, Good(s), Kept(s)
    PROVE  Good(s)'
<1>a. UNCHANGED <<pc[s], input[s], plan[s], at[s], mat[s], tries[s], open[s], client[s], held[s]>>
  BY DEF Kept
<1>b. LoopShape(s) BY DEF Good
<1>0. Size(s)' = Size(s) BY <1>a DEF Size
<1>1. LoopShape(s)' BY <1>a, <1>b, <1>0 DEF LoopShape, Unanswered, Outcome
<1> USE DEF Kept, Good
<1>2. RelayShape(s)' BY <1>0 DEF RelayShape, CanFailOver, Outcome
<1>3. RoundRobinShape(s)' BY <1>0 DEF RoundRobinShape
<1>4. InOrder(s)' BY DEF InOrder
<1>5. Justified(s)' BY <1>0 DEF Justified
<1>6. Closed(s)' BY DEF Closed
<1>7. Fresh(s)' BY DEF Fresh, Target
<1>8. OwnLive(s)' BY DEF OwnLive
<1>9. OwnModel(s)' BY DEF OwnModel
<1>10. Authority(s)' BY DEF Authority
<1>11. Admitted(s)' BY DEF Admitted
<1>12. QED BY <1>1, <1>2, <1>3, <1>4, <1>5, <1>6, <1>7, <1>8, <1>9, <1>10, <1>11

(* The handler's program counter and the gateway's own answers.            *)
LEMMA GoToType ==
    ASSUME TypeOK, NEW r \in Requests, NEW from, NEW to \in Steps, GoTo(r, from, to)
    PROVE  /\ pc' \in [Requests -> Steps] /\ pc[r] = from /\ pc'[r] = to
           /\ \A s \in Requests \ {r} : pc'[s] = pc[s]
BY DEF TypeOK, GoTo

(* What an answer of the gateway itself changes (http.Error).              *)
LEMMA AnswerType ==
    ASSUME TypeOK, NEW r \in Requests, NEW from, NEW status \in Nat, Answer(r, from, status)
    PROVE  /\ pc' \in [Requests -> Steps] /\ pc[r] = from /\ pc'[r] = "done"
           /\ client' \in [Requests -> [status: Nat, from: Nat]]
           /\ client'[r].status = status /\ client'[r].from = 0
           /\ \A s \in Requests \ {r} : pc'[s] = pc[s] /\ client'[s] = client[s]
<1>1. "done" \in Steps /\ GoTo(r, from, "done")
  BY DEF Steps, Answer
<1>2. client' = [client EXCEPT ![r] = [status |-> status, from |-> 0]]
  BY DEF Answer
<1>3. client \in [Requests -> [status: Nat, from: Nat]]
  BY DEF TypeOK
<1>4. QED BY <1>1, <1>2, <1>3, GoToType

(* A step of request r alone: the others, and what they hold, stay put.    *)
LEMMA OneRequest ==
    ASSUME IInv, NEW r \in Requests, TypeOK', Good(r)', keys' = keys, cred' = cred,
           \A s \in Requests \ {r} :
              UNCHANGED <<pc[s], input[s], plan[s], at[s], mat[s], tries[s], open[s], client[s],
                          held[s], live[s]>>
    PROVE  IInv'
<1>1. ASSUME NEW s \in Requests, s # r PROVE Good(s)'
  <2>1. Good(s)
    BY DEF IInv
  <2>2. pc[s] # "idle" => ActiveNow \subseteq live[s]
    BY <2>1 DEF Good, Fresh
  <2>3. ActiveNow' = ActiveNow
    BY DEF ActiveNow
  <2>4. Kept(s)
    BY <1>1, <2>2, <2>3 DEF Kept
  <2>5. QED BY <2>1, <2>4, Frame
<1>2. QED BY <1>1 DEF IInv

-------------------------------------------------------------------------------
(* Steps before the loop, and the gateway's answers there.                 *)
LEMMA BeforeLoop ==
    ASSUME NEW r \in Requests, Good(r),
           pc[r] \in {"idle", "auth", "plan"}, pc'[r] \in {"auth", "plan", "done"},
           UNCHANGED <<plan[r], at[r], tries[r], open[r]>>,
           pc'[r] # "done" => client'[r] = client[r],
           pc'[r] = "done" => client'[r].from = 0,
           ActiveNow' \subseteq live'[r],
           pc'[r] = "auth" /\ input'[r].key \in keys' => held'[r],
           pc'[r] = "plan" => held'[r]
    PROVE  Good(r)'
<1>1. at[r] = 0 /\ Len(tries[r]) = 0 /\ Unanswered(r)
  BY DEF Good, LoopShape
<1>2. Size(r)' = Size(r)
  BY DEF Size
<1>3. LoopShape(r)'
  BY <1>1, <1>2 DEF Good, LoopShape, Unanswered, InLoop, Ready, Called
<1>4. RelayShape(r)' /\ RoundRobinShape(r)'
  BY <1>2 DEF Good, RelayShape, RoundRobinShape
<1>5. InOrder(r)' /\ Justified(r)' /\ OwnLive(r)' /\ OwnModel(r)'
  BY <1>1 DEF InOrder, Justified, OwnLive, OwnModel, Unanswered
<1>6. Closed(r)' /\ Authority(r)' /\ Admitted(r)'
  BY <1>1 DEF Good, Closed, Authority, Admitted, InLoop
<1>7. Fresh(r)'
  BY DEF Good, Fresh
<1>8. QED BY <1>3, <1>4, <1>5, <1>6, <1>7 DEF Good

(* Arrive preserves IInv.                                                  *)
LEMMA ArriveInv ==
    ASSUME IInv, NEW r \in Requests, NEW in \in Inputs, Arrive(r, in)
    PROVE  IInv'
<1>1. TypeOK /\ Good(r)
  BY DEF IInv
<1>2. UNCHANGED <<rr, keys, cred, plan, at, mat, tries, open, gone>>
  BY DEF Arrive, shared
<1>3. /\ pc[r] = "idle" /\ pc'[r] = "auth" /\ client' = client
      /\ pc' \in [Requests -> Steps] /\ client' \in [Requests -> [status: Nat, from: Nat]]
      /\ \A s \in Requests \ {r} : pc'[s] = pc[s] /\ client'[s] = client[s]
  BY <1>1, GoToType DEF Arrive, TypeOK, Steps
<1>4. /\ input' = [input EXCEPT ![r] = in]
      /\ held'  = [held EXCEPT ![r] = in.key \in keys]
      /\ live'  = [live EXCEPT ![r] = ActiveNow]
  BY DEF Arrive
<1>5. ActiveNow \in SUBSET (Profiles \X Nat)
  BY <1>1 DEF TypeOK, ActiveNow
<1>6. /\ input' \in [Requests -> Inputs \cup {NoInput}] /\ input'[r] = in
      /\ held' \in [Requests -> BOOLEAN] /\ held'[r] = (in.key \in keys)
      /\ live' \in [Requests -> SUBSET (Profiles \X Nat)] /\ live'[r] = ActiveNow
      /\ \A s \in Requests \ {r} :
            input'[s] = input[s] /\ held'[s] = held[s] /\ live'[s] = live[s]
  BY <1>1, <1>4, <1>5 DEF TypeOK
<1>7. TypeOK'
  BY <1>1, <1>2, <1>3, <1>6 DEF TypeOK
<1>8. ActiveNow' = ActiveNow
  BY <1>2 DEF ActiveNow
<1>9. Good(r)'
  BY <1>1, <1>2, <1>3, <1>6, <1>8, BeforeLoop
<1>10. QED BY <1>2, <1>3, <1>6, <1>7, <1>9, OneRequest

(* Authenticate preserves IInv: the key is read after it was presented.    *)
LEMMA AuthenticateInv ==
    ASSUME IInv, NEW r \in Requests, Authenticate(r)
    PROVE  IInv'
<1>1. TypeOK /\ Good(r)
  BY DEF IInv
<1>2. UNCHANGED <<rr, keys, cred, input, plan, at, mat, tries, open, gone, held, live>>
  BY DEF Authenticate, shared
<1>3. /\ pc[r] = "auth" /\ pc'[r] \in {"plan", "done"}
      /\ pc'[r] = "plan" => input[r].key \in keys
      /\ pc'[r] = "plan" => client' = client
      /\ pc'[r] = "done" => client'[r].from = 0
      /\ pc' \in [Requests -> Steps] /\ client' \in [Requests -> [status: Nat, from: Nat]]
      /\ \A s \in Requests \ {r} : pc'[s] = pc[s] /\ client'[s] = client[s]
  <2>1. CASE input[r].key \in keys /\ GoTo(r, "auth", "plan") /\ UNCHANGED client
    BY <1>1, <2>1, GoToType DEF TypeOK, Steps
  <2>2. CASE Answer(r, "auth", 401)
    BY <1>1, <2>2, AnswerType
  <2>3. QED BY <2>1, <2>2 DEF Authenticate
<1>4. TypeOK'
  BY <1>1, <1>2, <1>3 DEF TypeOK
<1>5. pc'[r] = "plan" => held[r]
  BY <1>1, <1>3 DEF Good, Authority
<1>6. ActiveNow' = ActiveNow /\ ActiveNow \subseteq live[r]
  BY <1>1, <1>2, <1>3 DEF ActiveNow, Good, Fresh
<1>7. Good(r)'
  BY <1>1, <1>2, <1>3, <1>5, <1>6, BeforeLoop
<1>8. QED BY <1>2, <1>3, <1>4, <1>7, OneRequest

(* RefuseRequest preserves IInv: nothing has been tried.                   *)
LEMMA RefuseRequestInv ==
    ASSUME IInv, NEW r \in Requests, RefuseRequest(r)
    PROVE  IInv'
<1>1. TypeOK /\ Good(r)
  BY DEF IInv
<1>2. UNCHANGED <<rr, keys, cred, input, plan, at, mat, tries, open, gone, held, live>>
  BY DEF RefuseRequest, shared
<1>3. /\ pc[r] = "plan" /\ pc'[r] = "done" /\ client'[r].from = 0
      /\ pc' \in [Requests -> Steps] /\ client' \in [Requests -> [status: Nat, from: Nat]]
      /\ \A s \in Requests \ {r} : pc'[s] = pc[s] /\ client'[s] = client[s]
  <2>1. Answer(r, "plan", 400) \/ Answer(r, "plan", 403) \/ Answer(r, "plan", 405)
    BY DEF RefuseRequest
  <2>2. QED BY <1>1, <2>1, AnswerType
<1>4. TypeOK'
  BY <1>1, <1>2, <1>3 DEF TypeOK
<1>5. ActiveNow' = ActiveNow /\ ActiveNow \subseteq live[r]
  BY <1>1, <1>2, <1>3 DEF ActiveNow, Good, Fresh
<1>6. Good(r)'
  BY <1>1, <1>2, <1>3, <1>5, BeforeLoop
<1>7. QED BY <1>2, <1>3, <1>4, <1>6, OneRequest

(* Resolution reaches pools of the document only, and their counters.      *)
LEMMA PoolsType ==
    ASSUME NEW m, NEW w, NEW h, NEW n \in Pools(m, w, h)
    PROVE  /\ m \in ModelIds /\ n \in DOMAIN Modalities(m)
           /\ Modalities(m)[n].pool # <<>>
           /\ Strategy(Modalities(m)[n]) \in {"failover", "round_robin"}
           /\ PoolKey(n, Modalities(m)[n].wire) \in PoolKeys
<1>1. m \in ModelIds
  BY DEF Pools
<1>2. /\ n \in Picked(Candidates(m, w), h)
      /\ Modalities(m)[n].pool # <<>>
      /\ Strategy(Modalities(m)[n]) \in {"failover", "round_robin"}
  BY <1>1 DEF Pools
<1>3. Picked(Candidates(m, w), h) \subseteq Candidates(m, w)
  BY DEF Picked
<1>4. n \in DOMAIN Modalities(m)
  BY <1>2, <1>3 DEF Candidates
<1>5. <<m, n>> \in PoolIds
  BY <1>1, <1>4 DEF PoolIds
<1>6. Pool(<<m, n>>) = Modalities(m)[n] /\ <<m, n>>[2] = n
  BY DEF Pool
<1>7. PoolKey(n, Modalities(m)[n].wire) \in PoolKeys
  BY <1>5, <1>6 DEF PoolKeys
<1>8. QED BY <1>1, <1>2, <1>4, <1>7

(* The round robin counters stay natural numbers.                          *)
LEMMA AdvancedType ==
    ASSUME NEW c \in [PoolKeys -> Nat], NEW n, NEW mod, PoolKey(n, mod.wire) \in PoolKeys
    PROVE  Advanced(c, n, mod) \in [PoolKeys -> Nat]
<1> DEFINE key == PoolKey(n, mod.wire)
<1>1. key \in PoolKeys
  OBVIOUS
<1>2. Advanced(c, n, mod) \in {c, [c EXCEPT ![key] = @ + 1]}
  BY DEF Advanced
<1> HIDE DEF key
<1>3. [c EXCEPT ![key] = @ + 1] \in [PoolKeys -> Nat]
  BY <1>1
<1>4. QED BY <1>2, <1>3

(* Route preserves IInv: the loop starts at the first member of a plan.    *)
LEMMA RouteInv ==
    ASSUME IInv, NEW r \in Requests, Route(r)
    PROVE  IInv'
<1>1. TypeOK /\ Good(r)
  BY DEF IInv
<1>2. UNCHANGED <<keys, cred, input, mat, tries, open, gone, held, live>>
  BY DEF Route
<1> DEFINE m == input[r].model
<1>3. pc[r] = "plan" /\ Permitted(input[r])
  BY DEF Route
<1>4. PICK n \in PoolsOf(input[r]) :
         LET mod == Modalities(m)[n]
             idx == rr[PoolKey(n, mod.wire)]
         IN /\ rr' = Advanced(rr, n, mod)
            /\ \/ /\ PlanBuilds(mod, idx) /\ GoTo(r, "plan", "credential")
                  /\ plan' = [plan EXCEPT ![r] = PlanOf(m, mod, idx)]
                  /\ at'   = [at EXCEPT ![r] = 1]
                  /\ UNCHANGED client
               \/ ~PlanBuilds(mod, idx) /\ Answer(r, "plan", 400) /\ UNCHANGED <<plan, at>>
  BY DEF Route
<1> DEFINE mod == Modalities(m)[n]
           idx == rr[PoolKey(n, mod.wire)]
<1>5. /\ m \in ModelIds /\ n \in DOMAIN Modalities(m) /\ mod.pool # <<>>
      /\ Strategy(mod) \in {"failover", "round_robin"}
      /\ PoolKey(n, mod.wire) \in PoolKeys
  BY PoolsType DEF PoolsOf
<1>6. m \in Texts
  <2>1. input[r] \in Inputs \cup {NoInput}
    BY <1>1 DEF TypeOK
  <2>2. QED BY <2>1, InputAssumption DEF NoInput
<1>7. idx \in Nat /\ rr' \in [PoolKeys -> Nat]
  BY <1>1, <1>4, <1>5, AdvancedType DEF TypeOK
<1>8. held[r] /\ at[r] = 0 /\ Len(tries[r]) = 0 /\ Unanswered(r) /\ open[r] = {}
  BY <1>1, <1>3 DEF Good, Authority, LoopShape, Closed
<1>9. ActiveNow' = ActiveNow /\ ActiveNow \subseteq live[r]
  BY <1>1, <1>2, <1>3 DEF ActiveNow, Good, Fresh
<1>10. CASE Answer(r, "plan", 400) /\ UNCHANGED <<plan, at>>
  <2>1. /\ pc'[r] = "done" /\ client'[r].from = 0
        /\ pc' \in [Requests -> Steps] /\ client' \in [Requests -> [status: Nat, from: Nat]]
        /\ \A s \in Requests \ {r} : pc'[s] = pc[s] /\ client'[s] = client[s]
    BY <1>1, <1>10, AnswerType
  <2>2. TypeOK'
    BY <1>1, <1>2, <1>7, <1>10, <2>1 DEF TypeOK
  <2>3. Good(r)'
    BY <1>1, <1>2, <1>3, <1>9, <1>10, <2>1, BeforeLoop
  <2>4. QED BY <1>2, <1>10, <2>1, <2>2, <2>3, OneRequest
<1>11. CASE /\ PlanBuilds(mod, idx) /\ GoTo(r, "plan", "credential")
            /\ plan' = [plan EXCEPT ![r] = PlanOf(m, mod, idx)]
            /\ at'   = [at EXCEPT ![r] = 1]
            /\ UNCHANGED client
  <2>1. /\ pc'[r] = "credential" /\ pc' \in [Requests -> Steps]
        /\ \A s \in Requests \ {r} : pc'[s] = pc[s]
    BY <1>1, <1>11, GoToType DEF Steps
  <2>2. PlanOf(m, mod, idx) \in RoutePlans
    BY <1>5, <1>6, <1>7, <1>11, PlanType
  <2>3. /\ plan'[r] \in RoutePlans /\ at'[r] = 1
        /\ plan' \in [Requests -> [strategy: {"none", "failover", "round_robin"},
                                   targets: Seq(Targets)]]
        /\ at' \in [Requests -> Nat]
        /\ \A s \in Requests \ {r} : plan'[s] = plan[s] /\ at'[s] = at[s]
    <3> DEFINE new == PlanOf(m, mod, idx)
    <3>1. new \in RoutePlans /\ plan' = [plan EXCEPT ![r] = new]
      BY <1>11, <2>2
    <3> HIDE DEF new
    <3>2. new \in [strategy: {"none", "failover", "round_robin"}, targets: Seq(Targets)]
      BY <3>1 DEF RoutePlans
    <3>3. QED BY <1>1, <1>11, <3>1, <3>2 DEF TypeOK
  <2>4. TypeOK'
    BY <1>1, <1>2, <1>7, <1>11, <2>1, <2>3 DEF TypeOK
  <2>5. Size(r)' \in Nat \ {0} /\ (plan'[r].strategy # "failover" => Size(r)' = 1)
    <3>1. PICK found : found = plan'[r]
      OBVIOUS
    <3>2. found \in RoutePlans /\ Size(r)' = Len(found.targets)
      BY <2>3, <3>1 DEF Size
    <3> QED
      BY <3>1, <3>2 DEF RoutePlans
  <2>6. LoopShape(r)'
    BY <1>2, <1>8, <1>11, <2>1, <2>3, <2>5 DEF LoopShape, Unanswered, InLoop, Ready, Called
  <2>7. RelayShape(r)' /\ RoundRobinShape(r)'
    BY <2>1, <2>5 DEF RelayShape, RoundRobinShape
  <2>8. InOrder(r)' /\ Justified(r)' /\ OwnLive(r)' /\ OwnModel(r)'
    BY <1>2, <1>8, <1>11 DEF InOrder, Justified, OwnLive, OwnModel, Unanswered
  <2>9. Closed(r)' /\ Authority(r)' /\ Admitted(r)'
    BY <1>2, <1>3, <1>8, <2>1 DEF Closed, Authority, Admitted, InLoop
  <2>10. Fresh(r)'
    BY <1>2, <1>9, <2>1 DEF Fresh
  <2>11. Good(r)'
    BY <2>6, <2>7, <2>8, <2>9, <2>10 DEF Good
  <2>12. QED BY <1>2, <1>11, <2>1, <2>3, <2>4, <2>11, OneRequest
<1>12. QED BY <1>4, <1>10, <1>11

-------------------------------------------------------------------------------
(* The loop: the member it is at, and the history it leaves.               *)
LEMMA TargetInPlan ==
    ASSUME TypeOK, NEW r \in Requests, at[r] \in 1..Size(r)
    PROVE  Target(r) \in Targets /\ Target(r).profile \in Profiles
<1>1. plan[r].targets \in Seq(Targets)
  BY DEF TypeOK
<1>2. Target(r) \in Targets
  BY <1>1, ElementOfSeq DEF Target, Size
<1>3. QED BY <1>2 DEF Targets

(* The history gains a record and keeps those it has.                      *)
LEMMA RecordStep ==
    ASSUME TypeOK, NEW r \in Requests, NEW rec \in Attempts,
           tries' = [tries EXCEPT ![r] = Append(@, rec)]
    PROVE  /\ tries' \in [Requests -> Seq(Attempts)]
           /\ Len(tries'[r]) = Len(tries[r]) + 1
           /\ \A k \in 1..Len(tries[r]) : tries'[r][k] = tries[r][k]
           /\ tries'[r][Len(tries[r]) + 1] = rec
           /\ \A s \in Requests \ {r} : tries'[s] = tries[s]
<1>1. tries \in [Requests -> Seq(Attempts)]
  BY DEF TypeOK
<1>2. QED BY <1>1

(* An iteration that never called its upstream.                            *)
LEMMA RecordUnsent ==
    ASSUME TypeOK, NEW r \in Requests, at[r] \in Nat \ {0}, Len(tries[r]) = at[r] - 1,
           Record(r, FALSE, 0, Omitted, Failed)
    PROVE  /\ tries' \in [Requests -> Seq(Attempts)] /\ Len(tries'[r]) = at[r]
           /\ \A k \in 1..(at[r] - 1) : tries'[r][k] = tries[r][k]
           /\ tries'[r][at[r]].pos = at[r] /\ tries'[r][at[r]].outcome = Failed
           /\ ~tries'[r][at[r]].sent
           /\ \A s \in Requests \ {r} : tries'[s] = tries[s]
<1> DEFINE rec == [pos |-> at[r], sent |-> FALSE, ver |-> 0, model |-> Omitted,
                   outcome |-> Failed]
<1>1. rec \in Attempts
  BY InputAssumption DEF Attempts, Failed
<1>2. tries' = [tries EXCEPT ![r] = Append(@, rec)]
  BY DEF Record
<1>3. rec.pos = at[r] /\ rec.outcome = Failed /\ ~rec.sent
  OBVIOUS
<1> HIDE DEF rec
<1>4. /\ tries' \in [Requests -> Seq(Attempts)] /\ Len(tries'[r]) = at[r]
      /\ \A k \in 1..(at[r] - 1) : tries'[r][k] = tries[r][k]
      /\ tries'[r][at[r]] = rec
      /\ \A s \in Requests \ {r} : tries'[s] = tries[s]
  <2> DEFINE n == Len(tries[r])
  <2>1. /\ tries' \in [Requests -> Seq(Attempts)] /\ Len(tries'[r]) = n + 1
        /\ \A k \in 1..n : tries'[r][k] = tries[r][k]
        /\ tries'[r][n + 1] = rec
        /\ \A s \in Requests \ {r} : tries'[s] = tries[s]
    BY <1>1, <1>2, RecordStep
  <2>2. n = at[r] - 1
    OBVIOUS
  <2> HIDE DEF n
  <2>3. n + 1 = at[r]
    BY <2>2
  <2>4. QED BY <2>1, <2>2, <2>3
<1>5. QED BY <1>3, <1>4

(* Only the outcome of the newest record changes.                          *)
LEMMA SettleStep ==
    ASSUME TypeOK, NEW r \in Requests, NEW o \in Nat, Len(tries[r]) > 0, Settle(r, o)
    PROVE  LET n == Len(tries[r]) IN
           /\ tries' \in [Requests -> Seq(Attempts)]
           /\ Len(tries'[r]) = n
           /\ \A k \in 1..(n - 1) : tries'[r][k] = tries[r][k]
           /\ tries'[r][n].pos = tries[r][n].pos
           /\ tries'[r][n].sent = tries[r][n].sent
           /\ tries'[r][n].ver = tries[r][n].ver
           /\ tries'[r][n].model = tries[r][n].model
           /\ tries'[r][n].outcome = o
           /\ \A s \in Requests \ {r} : tries'[s] = tries[s]
<1> DEFINE n == Len(tries[r])
           old == tries[r][n]
           new == [old EXCEPT !.outcome = o]
<1>1. tries \in [Requests -> Seq(Attempts)] /\ n \in Nat \ {0}
  BY DEF TypeOK
<1>2. old \in Attempts
  BY <1>1, ElementOfSeq
<1> HIDE DEF old
<1>3. /\ new \in Attempts
      /\ new.pos = old.pos /\ new.sent = old.sent /\ new.ver = old.ver
      /\ new.model = old.model /\ new.outcome = o
  BY <1>2 DEF Attempts
<1>4. tries' = [tries EXCEPT ![r] = [tries[r] EXCEPT ![n] = new]]
  BY DEF Settle, old
<1> HIDE DEF new
<1>5. [tries[r] EXCEPT ![n] = new] \in Seq(Attempts)
  BY <1>1, <1>3
<1>6. /\ tries' \in [Requests -> Seq(Attempts)]
      /\ Len(tries'[r]) = n
      /\ \A k \in 1..(n - 1) : tries'[r][k] = tries[r][k]
      /\ tries'[r][n] = new
      /\ \A s \in Requests \ {r} : tries'[s] = tries[s]
  BY <1>1, <1>4, <1>5
<1>7. QED BY <1>3, <1>6 DEF old

(* TakeCredential preserves IInv: the row is active when it is read.       *)
LEMMA TakeCredentialInv ==
    ASSUME IInv, NEW r \in Requests, TakeCredential(r)
    PROVE  IInv'
<1>1. TypeOK /\ Good(r)
  BY DEF IInv
<1>2. UNCHANGED <<rr, keys, cred, input, plan, at, tries, open, client, gone, held, live>>
  BY DEF TakeCredential, shared
<1>3. /\ pc[r] = "credential" /\ pc'[r] = "forward" /\ pc' \in [Requests -> Steps]
      /\ \A s \in Requests \ {r} : pc'[s] = pc[s]
  BY <1>1, GoToType DEF TakeCredential, Steps
<1>4. at[r] \in 1..Size(r)
  BY <1>1, <1>3 DEF Good, LoopShape, InLoop
<1> DEFINE p == Target(r).profile
           c == cred[p]
<1>5. p \in Profiles
  BY <1>1, <1>4, TargetInPlan
<1>6. c.ver \in Nat /\ c.kind \in Kinds
  BY <1>1, <1>5 DEF TypeOK
<1>7. c.status = "active" /\ mat' = [mat EXCEPT ![r] = [ver |-> c.ver, kind |-> c.kind]]
  BY DEF TakeCredential
<1>8. <<p, c.ver>> \in ActiveNow
  BY <1>5, <1>7 DEF ActiveNow
<1>9. ActiveNow' = ActiveNow /\ ActiveNow \subseteq live[r]
  BY <1>1, <1>2, <1>3 DEF ActiveNow, Good, Fresh
<1>10. Target(r)' = Target(r) /\ Size(r)' = Size(r)
  BY <1>2 DEF Target, Size
<1> HIDE DEF c
<1>11. /\ mat' \in [Requests -> [ver: Nat, kind: Kinds]] /\ mat'[r].ver = c.ver
       /\ \A s \in Requests \ {r} : mat'[s] = mat[s]
  BY <1>1, <1>6, <1>7 DEF TypeOK
<1> HIDE DEF p
<1>12. TypeOK'
  BY <1>1, <1>2, <1>3, <1>11 DEF TypeOK
<1>13. Fresh(r)'
  BY <1>2, <1>3, <1>8, <1>9, <1>10, <1>11 DEF Fresh, p
<1>14. LoopShape(r)'
  BY <1>1, <1>2, <1>3, <1>10 DEF Good, LoopShape, Unanswered, InLoop, Ready, Called
<1>15. RelayShape(r)' /\ RoundRobinShape(r)'
  BY <1>1, <1>2, <1>3, <1>10 DEF Good, RelayShape, RoundRobinShape
<1>16. InOrder(r)' /\ Justified(r)' /\ OwnLive(r)' /\ OwnModel(r)'
  BY <1>1, <1>2, <1>3, <1>10 DEF Good, InOrder, Justified, OwnLive, OwnModel
<1>17. Closed(r)' /\ Authority(r)' /\ Admitted(r)'
  BY <1>1, <1>2, <1>3 DEF Good, Closed, Authority, Admitted, InLoop
<1>18. Good(r)'
  BY <1>13, <1>14, <1>15, <1>16, <1>17 DEF Good
<1>19. QED BY <1>2, <1>3, <1>11, <1>12, <1>18, OneRequest

(* What an iteration that failed does: the next member, or 502.            *)
LEMMA NextOrFailStep ==
    ASSUME TypeOK, NEW r \in Requests, NEW from, NextOrFail(r, from)
    PROVE  /\ pc[r] = from /\ pc' \in [Requests -> Steps] /\ at' \in [Requests -> Nat]
           /\ client' \in [Requests -> [status: Nat, from: Nat]]
           /\ \A s \in Requests \ {r} :
                 pc'[s] = pc[s] /\ at'[s] = at[s] /\ client'[s] = client[s]
           /\ \/ /\ CanFailOver(r) /\ pc'[r] = "credential"
                 /\ at'[r] = at[r] + 1 /\ client'[r] = client[r]
              \/ /\ ~CanFailOver(r) /\ pc'[r] = "done" /\ at'[r] = at[r]
                 /\ client'[r].status = 502 /\ client'[r].from = 0
<1>1. CASE /\ CanFailOver(r) /\ GoTo(r, from, "credential")
           /\ at' = [at EXCEPT ![r] = @ + 1] /\ UNCHANGED client
  <2>1. at' \in [Requests -> Nat] /\ at'[r] = at[r] + 1 /\ \A s \in Requests \ {r} : at'[s] = at[s]
    BY <1>1 DEF TypeOK
  <2>2. QED BY <1>1, <2>1, GoToType DEF TypeOK, Steps
<1>2. CASE ~CanFailOver(r) /\ Answer(r, from, 502) /\ UNCHANGED at
  BY <1>2, AnswerType DEF TypeOK
<1>3. QED BY <1>1, <1>2 DEF NextOrFail

(* An iteration that ends in an error, whichever: the history gains or     *)
(* settles its record, and the loop goes on or the gateway answers 502.    *)
LEMMA IterationFails ==
    ASSUME IInv, NEW r \in Requests, NEW from \in InLoop \ {"relay"}, NextOrFail(r, from),
           UNCHANGED <<rr, keys, cred, input, plan, mat, open, gone, held, live>>,
           open[r] = {},
           tries' \in [Requests -> Seq(Attempts)], Len(tries'[r]) = at[r],
           \A k \in 1..(at[r] - 1) : tries'[r][k] = tries[r][k],
           at[r] - 1 <= Len(tries[r]),
           tries'[r][at[r]].outcome = Failed,
           tries'[r][at[r]].pos = at[r],
           \/ ~tries'[r][at[r]].sent
           \/ /\ Len(tries[r]) = at[r]
              /\ tries[r][at[r]].sent /\ tries[r][at[r]].pos = at[r]
              /\ tries'[r][at[r]].ver = tries[r][at[r]].ver
              /\ tries'[r][at[r]].model = tries[r][at[r]].model,
           \A s \in Requests \ {r} : tries'[s] = tries[s]
    PROVE  IInv'
<1>1. TypeOK /\ Good(r)
  BY DEF IInv
<1>2. /\ pc[r] = from /\ pc' \in [Requests -> Steps] /\ at' \in [Requests -> Nat]
      /\ client' \in [Requests -> [status: Nat, from: Nat]]
      /\ \A s \in Requests \ {r} :
            pc'[s] = pc[s] /\ at'[s] = at[s] /\ client'[s] = client[s]
      /\ \/ /\ CanFailOver(r) /\ pc'[r] = "credential"
            /\ at'[r] = at[r] + 1 /\ client'[r] = client[r]
         \/ /\ ~CanFailOver(r) /\ pc'[r] = "done" /\ at'[r] = at[r]
            /\ client'[r].status = 502 /\ client'[r].from = 0
  BY <1>1, NextOrFailStep
<1>3. /\ at[r] \in 1..Size(r) /\ Size(r) \in Nat /\ at[r] \in Nat \ {0}
      /\ Unanswered(r) /\ held[r] /\ Permitted(input[r])
  <2>1. at[r] \in 1..Size(r) /\ Unanswered(r)
    BY <1>1, <1>2 DEF Good, LoopShape
  <2>2. held[r] /\ Permitted(input[r])
    BY <1>1, <1>2 DEF Good, Admitted
  <2>3. Size(r) \in Nat
    BY <1>1 DEF TypeOK, Size
  <2>4. QED BY <2>1, <2>2, <2>3
<1>4. TypeOK'
  BY <1>1, <1>2 DEF TypeOK
<1>5. Size(r)' = Size(r)
  BY DEF Size
<1>6. CanFailOver(r) => plan[r].strategy = "failover" /\ at[r] < Size(r)
  BY DEF CanFailOver
<1>7. ~CanFailOver(r) => at[r] = Size(r)
  BY <1>1, <1>3 DEF CanFailOver, Good, RoundRobinShape
<1>8. LoopShape(r)'
  BY <1>2, <1>3, <1>5, <1>6 DEF LoopShape, Unanswered, InLoop, Ready, Called
<1>9. RelayShape(r)' /\ RoundRobinShape(r)'
  BY <1>1, <1>2, <1>5 DEF Good, RelayShape, RoundRobinShape
<1>10. InOrder(r)'
  <2>1. SUFFICES ASSUME NEW k \in 1..at[r]
                 PROVE  /\ tries'[r][k].pos = k
                        /\ k < at'[r] => /\ plan'[r].strategy = "failover"
                                         /\ Retryable(tries'[r][k].outcome)
    BY DEF InOrder, Retryable
  <2>2. CASE k = at[r]
    BY <1>2, <1>3, <1>6, <2>2 DEF Retryable
  <2>3. CASE k # at[r]
    <3>1. k \in 1..(at[r] - 1) /\ k < at[r] /\ tries'[r][k] = tries[r][k] /\ k \in 1..Len(tries[r])
      BY <1>1, <1>3, <2>3 DEF TypeOK
    <3>2. QED BY <1>1, <3>1 DEF Good, InOrder
  <2>4. QED BY <2>2, <2>3
<1>11. Justified(r)'
  BY <1>2, <1>3, <1>5, <1>7 DEF Justified, Unanswered
<1>12. OwnLive(r)' /\ OwnModel(r)'
  <2>1. ASSUME NEW k \in 1..at[r], tries'[r][k].sent
        PROVE  /\ k \in 1..Len(tries[r]) /\ tries[r][k].sent
               /\ tries'[r][k].pos = tries[r][k].pos
               /\ tries'[r][k].ver = tries[r][k].ver
               /\ tries'[r][k].model = tries[r][k].model
    <3>1. CASE k = at[r]
      BY <1>3, <2>1, <3>1
    <3>2. CASE k # at[r]
      <4>1. k \in 1..(at[r] - 1) /\ k \in 1..Len(tries[r])
        BY <1>1, <1>3, <3>2 DEF TypeOK
      <4>2. QED BY <2>1, <4>1
    <3>3. QED BY <3>1, <3>2
  <2>2. QED BY <1>1, <2>1 DEF Good, OwnLive, OwnModel
<1>13. Closed(r)' /\ Authority(r)' /\ Admitted(r)'
  BY <1>2, <1>3 DEF Closed, Authority, Admitted
<1>14. Fresh(r)'
  <2>1. ActiveNow' = ActiveNow /\ pc[r] # "idle"
    BY <1>2 DEF ActiveNow, InLoop
  <2>2. QED BY <1>1, <1>2, <2>1 DEF Good, Fresh
<1>15. Good(r)'
  BY <1>8, <1>9, <1>10, <1>11, <1>12, <1>13, <1>14 DEF Good
<1>16. QED BY <1>2, <1>4, <1>15, OneRequest

(* CredentialUnavailable preserves IInv.                                   *)
LEMMA CredentialUnavailableInv ==
    ASSUME IInv, NEW r \in Requests, CredentialUnavailable(r)
    PROVE  IInv'
<1>1. TypeOK /\ Good(r)
  BY DEF IInv
<1>2. UNCHANGED <<rr, keys, cred, input, plan, mat, open, gone, held, live>>
  BY DEF CredentialUnavailable, shared
<1>3. pc[r] = "credential" /\ NextOrFail(r, "credential") /\ Record(r, FALSE, 0, Omitted, Failed)
  BY DEF CredentialUnavailable
<1>4. at[r] \in Nat \ {0} /\ Len(tries[r]) = at[r] - 1 /\ open[r] = {}
  BY <1>1, <1>3 DEF Good, LoopShape, Closed, InLoop, Ready
<1>5. /\ tries' \in [Requests -> Seq(Attempts)] /\ Len(tries'[r]) = at[r]
      /\ \A k \in 1..(at[r] - 1) : tries'[r][k] = tries[r][k]
      /\ tries'[r][at[r]].pos = at[r] /\ tries'[r][at[r]].outcome = Failed
      /\ ~tries'[r][at[r]].sent
      /\ \A s \in Requests \ {r} : tries'[s] = tries[s]
  BY <1>1, <1>3, <1>4, RecordUnsent
<1>6. QED BY <1>2, <1>3, <1>4, <1>5, IterationFails DEF InLoop

(* ForwardFails preserves IInv.                                            *)
LEMMA ForwardFailsInv ==
    ASSUME IInv, NEW r \in Requests, ForwardFails(r)
    PROVE  IInv'
<1>1. TypeOK /\ Good(r)
  BY DEF IInv
<1>2. UNCHANGED <<rr, keys, cred, input, plan, mat, open, gone, held, live>>
  BY DEF ForwardFails, shared
<1>3. pc[r] = "forward" /\ NextOrFail(r, "forward") /\ Record(r, FALSE, 0, Omitted, Failed)
  BY DEF ForwardFails
<1>4. at[r] \in Nat \ {0} /\ Len(tries[r]) = at[r] - 1 /\ open[r] = {}
  BY <1>1, <1>3 DEF Good, LoopShape, Closed, InLoop, Ready
<1>5. /\ tries' \in [Requests -> Seq(Attempts)] /\ Len(tries'[r]) = at[r]
      /\ \A k \in 1..(at[r] - 1) : tries'[r][k] = tries[r][k]
      /\ tries'[r][at[r]].pos = at[r] /\ tries'[r][at[r]].outcome = Failed
      /\ ~tries'[r][at[r]].sent
      /\ \A s \in Requests \ {r} : tries'[s] = tries[s]
  BY <1>1, <1>3, <1>4, RecordUnsent
<1>6. QED BY <1>2, <1>3, <1>4, <1>5, IterationFails DEF InLoop

(* CallFails preserves IInv.                                               *)
LEMMA CallFailsInv ==
    ASSUME IInv, NEW r \in Requests, CallFails(r)
    PROVE  IInv'
<1>1. TypeOK /\ Good(r)
  BY DEF IInv
<1>2. UNCHANGED <<rr, keys, cred, input, plan, mat, open, gone, held, live>>
  BY DEF CallFails, shared
<1>3. pc[r] = "await" /\ NextOrFail(r, "await") /\ Settle(r, Failed)
  BY DEF CallFails
<1>4. /\ at[r] \in Nat \ {0} /\ Len(tries[r]) = at[r] /\ open[r] = {}
      /\ tries[r][at[r]].sent
  BY <1>1, <1>3 DEF Good, LoopShape, Closed, InLoop, Called
<1>5. tries[r][at[r]].pos = at[r]
  BY <1>1, <1>4 DEF Good, InOrder
<1>6. Failed \in Nat
  BY DEF Failed
<1>7. QED BY <1>1, <1>2, <1>3, <1>4, <1>5, <1>6, SettleStep, IterationFails DEF InLoop

(* The call carries the member's own model, and a credential of its        *)
(* profile that is still fresh.                                            *)
LEMMA SentModelType ==
    ASSUME NEW in \in Inputs \cup {NoInput}, NEW t \in Targets
    PROVE  /\ SentModel(in, t) \in Texts
           /\ in.form = "json" => SentModel(in, t) = t.model
<1>1. in.model \in Texts /\ in.form \in Forms
  BY InputAssumption DEF NoInput, Forms
<1>2. t.model \in Texts /\ Omitted \in Texts
  BY InputAssumption DEF Targets
<1>3. QED BY <1>1, <1>2 DEF SentModel, Forms

(* Forward preserves IInv: it sends the credential read last, and the      *)
(* model of the target it sends to.                                        *)
LEMMA ForwardInv ==
    ASSUME IInv, NEW r \in Requests, Forward(r)
    PROVE  IInv'
<1>1. TypeOK /\ Good(r)
  BY DEF IInv
<1>2. UNCHANGED <<rr, keys, cred, input, plan, at, mat, open, client, gone, held, live>>
  BY DEF Forward, shared
<1>3. /\ pc[r] = "forward" /\ pc'[r] = "await" /\ pc' \in [Requests -> Steps]
      /\ \A s \in Requests \ {r} : pc'[s] = pc[s]
  BY <1>1, GoToType DEF Forward, Steps
<1>4. /\ at[r] \in 1..Size(r) /\ at[r] \in Nat \ {0} /\ Len(tries[r]) = at[r] - 1
      /\ Unanswered(r) /\ open[r] = {}
  BY <1>1, <1>3 DEF Good, LoopShape, Closed, InLoop, Ready
<1> DEFINE sent == SentModel(input[r], Target(r))
           rec  == [pos |-> at[r], sent |-> TRUE, ver |-> mat[r].ver, model |-> sent,
                    outcome |-> Pending]
           n    == Len(tries[r])
<1>5. Target(r) \in Targets /\ input[r] \in Inputs \cup {NoInput} /\ mat[r].ver \in Nat
  BY <1>1, <1>4, TargetInPlan DEF TypeOK
<1>6. sent \in Texts /\ (input[r].form = "json" => sent = Target(r).model)
  BY <1>5, SentModelType
<1>7. tries' = [tries EXCEPT ![r] = Append(@, rec)]
  BY DEF Forward, Record
<1> HIDE DEF sent
<1>8. rec \in Attempts
  BY <1>4, <1>5, <1>6 DEF Attempts, Pending
<1>9. rec.pos = at[r] /\ rec.sent /\ rec.ver = mat[r].ver /\ rec.model = sent
  OBVIOUS
<1> HIDE DEF rec
<1>10. /\ tries' \in [Requests -> Seq(Attempts)] /\ Len(tries'[r]) = at[r]
       /\ \A k \in 1..(at[r] - 1) : tries'[r][k] = tries[r][k]
       /\ tries'[r][at[r]] = rec
       /\ \A s \in Requests \ {r} : tries'[s] = tries[s]
  <2>1. /\ tries' \in [Requests -> Seq(Attempts)] /\ Len(tries'[r]) = n + 1
        /\ \A k \in 1..n : tries'[r][k] = tries[r][k]
        /\ tries'[r][n + 1] = rec
        /\ \A s \in Requests \ {r} : tries'[s] = tries[s]
    BY <1>1, <1>7, <1>8, RecordStep
  <2>2. n = at[r] - 1
    BY <1>4
  <2> HIDE DEF n
  <2>3. n + 1 = at[r]
    BY <1>4, <2>2
  <2>4. QED BY <2>1, <2>2, <2>3
<1>11. TypeOK'
  BY <1>1, <1>2, <1>3, <1>10 DEF TypeOK
<1>12. Size(r)' = Size(r) /\ Target(r)' = Target(r) /\ Target(r) = plan[r].targets[at[r]]
  BY <1>2 DEF Size, Target
<1>13. LoopShape(r)'
  BY <1>1, <1>2, <1>3, <1>4, <1>9, <1>10, <1>12
  DEF Good, LoopShape, Unanswered, InLoop, Ready, Called
<1>14. RelayShape(r)' /\ RoundRobinShape(r)'
  BY <1>1, <1>2, <1>3, <1>12 DEF Good, RelayShape, RoundRobinShape
<1>15. \A k \in 1..at[r] : k = at[r] \/ (k \in 1..(at[r] - 1) /\ k \in 1..Len(tries[r]))
  BY <1>4
<1>16. InOrder(r)'
  <2>1. SUFFICES ASSUME NEW k \in 1..at[r]
                 PROVE  /\ tries'[r][k].pos = k
                        /\ k < at'[r] => /\ plan'[r].strategy = "failover"
                                         /\ Retryable(tries'[r][k].outcome)
    BY <1>10 DEF InOrder, Retryable
  <2>2. CASE k = at[r]
    BY <1>2, <1>4, <1>9, <1>10, <2>2
  <2>3. CASE k \in 1..(at[r] - 1) /\ k \in 1..Len(tries[r])
    BY <1>1, <1>2, <1>10, <2>3 DEF Good, InOrder
  <2>4. QED BY <1>15, <2>2, <2>3
<1>17. Justified(r)'
  BY <1>2, <1>3, <1>4 DEF Justified, Unanswered
<1>18. OwnLive(r)'
  <2>1. <<Target(r).profile, mat[r].ver>> \in live[r]
    BY <1>1, <1>3 DEF Good, Fresh
  <2>2. QED BY <1>1, <1>2, <1>4, <1>9, <1>10, <1>12, <1>15, <2>1 DEF Good, OwnLive
<1>19. OwnModel(r)'
  BY <1>1, <1>2, <1>4, <1>6, <1>9, <1>10, <1>12, <1>15 DEF Good, OwnModel
<1>20. Closed(r)' /\ Authority(r)' /\ Admitted(r)'
  BY <1>1, <1>2, <1>3, <1>4 DEF Good, Closed, Authority, Admitted, InLoop
<1>21. Fresh(r)'
  BY <1>1, <1>2, <1>3 DEF Good, Fresh, ActiveNow
<1>22. Good(r)'
  BY <1>13, <1>14, <1>16, <1>17, <1>18, <1>19, <1>20, <1>21 DEF Good
<1>23. QED BY <1>2, <1>3, <1>10, <1>11, <1>22, OneRequest

(* Respond preserves IInv: the body that opens is the current member's.    *)
LEMMA RespondInv ==
    ASSUME IInv, NEW r \in Requests, NEW status \in UpstreamStatuses, Respond(r, status)
    PROVE  IInv'
<1>1. TypeOK /\ Good(r) /\ status \in Nat
  BY InputAssumption DEF IInv
<1>2. UNCHANGED <<rr, keys, cred, input, plan, at, mat, client, gone, held, live>>
  BY DEF Respond, shared
<1>3. /\ pc[r] = "await" /\ pc'[r] = "headers" /\ pc' \in [Requests -> Steps]
      /\ \A s \in Requests \ {r} : pc'[s] = pc[s]
  BY <1>1, GoToType DEF Respond, Steps
<1>4. /\ at[r] \in 1..Size(r) /\ at[r] \in Nat \ {0} /\ Len(tries[r]) = at[r]
      /\ tries[r][at[r]].sent /\ Unanswered(r) /\ open[r] = {}
  BY <1>1, <1>3 DEF Good, LoopShape, Closed, InLoop, Called
<1>5. /\ tries' \in [Requests -> Seq(Attempts)] /\ Len(tries'[r]) = at[r]
      /\ \A k \in 1..(at[r] - 1) : tries'[r][k] = tries[r][k]
      /\ tries'[r][at[r]].pos = tries[r][at[r]].pos
      /\ tries'[r][at[r]].sent = tries[r][at[r]].sent
      /\ tries'[r][at[r]].ver = tries[r][at[r]].ver
      /\ tries'[r][at[r]].model = tries[r][at[r]].model
      /\ \A s \in Requests \ {r} : tries'[s] = tries[s]
  <2> DEFINE n == Len(tries[r])
  <2>1. Settle(r, status) /\ n > 0 /\ n = at[r]
    BY <1>4 DEF Respond
  <2>2. /\ tries' \in [Requests -> Seq(Attempts)] /\ Len(tries'[r]) = n
        /\ \A k \in 1..(n - 1) : tries'[r][k] = tries[r][k]
        /\ tries'[r][n].pos = tries[r][n].pos
        /\ tries'[r][n].sent = tries[r][n].sent
        /\ tries'[r][n].ver = tries[r][n].ver
        /\ tries'[r][n].model = tries[r][n].model
        /\ \A s \in Requests \ {r} : tries'[s] = tries[s]
    BY <1>1, <2>1, SettleStep
  <2> HIDE DEF n
  <2>3. QED BY <2>1, <2>2
<1>6. /\ open' \in [Requests -> SUBSET Nat] /\ open'[r] = {at[r]}
      /\ \A s \in Requests \ {r} : open'[s] = open[s]
  <2>1. open' = [open EXCEPT ![r] = @ \cup {at[r]}]
    BY DEF Respond
  <2>2. open \in [Requests -> SUBSET Nat]
    BY <1>1 DEF TypeOK
  <2>3. QED BY <1>4, <2>1, <2>2
<1>7. TypeOK'
  BY <1>1, <1>2, <1>3, <1>5, <1>6 DEF TypeOK
<1>8. Size(r)' = Size(r)
  BY <1>2 DEF Size
<1>9. LoopShape(r)'
  BY <1>1, <1>2, <1>3, <1>4, <1>5, <1>8
  DEF Good, LoopShape, Unanswered, InLoop, Ready, Called
<1>10. RelayShape(r)' /\ RoundRobinShape(r)'
  BY <1>1, <1>2, <1>3, <1>8 DEF Good, RelayShape, RoundRobinShape
<1>11. \A k \in 1..at[r] : k \in 1..Len(tries[r]) /\ (k = at[r] \/ (k \in 1..(at[r] - 1)))
  BY <1>4
<1>12. InOrder(r)'
  BY <1>1, <1>2, <1>4, <1>5, <1>11 DEF Good, InOrder
<1>13. Justified(r)'
  BY <1>2, <1>3, <1>4 DEF Justified, Unanswered
<1>14. OwnLive(r)' /\ OwnModel(r)'
  <2>1. ASSUME NEW k \in 1..at[r]
        PROVE  /\ k \in 1..Len(tries[r])
               /\ tries'[r][k].sent = tries[r][k].sent
               /\ tries'[r][k].pos = tries[r][k].pos
               /\ tries'[r][k].ver = tries[r][k].ver
               /\ tries'[r][k].model = tries[r][k].model
    BY <1>5, <1>11
  <2>2. OwnLive(r)'
    BY <1>1, <1>2, <1>5, <2>1 DEF Good, OwnLive
  <2>3. OwnModel(r)'
    BY <1>1, <1>2, <1>5, <2>1 DEF Good, OwnModel
  <2>4. QED BY <2>2, <2>3
<1>15. Closed(r)' /\ Authority(r)' /\ Admitted(r)'
  BY <1>1, <1>2, <1>3, <1>6 DEF Good, Closed, Authority, Admitted, InLoop
<1>16. Fresh(r)'
  BY <1>1, <1>2, <1>3 DEF Good, Fresh, ActiveNow
<1>17. Good(r)'
  BY <1>9, <1>10, <1>12, <1>13, <1>14, <1>15, <1>16 DEF Good
<1>18. QED BY <1>2, <1>3, <1>5, <1>6, <1>7, <1>17, OneRequest

(* FailOver preserves IInv: the body is closed before the next member.     *)
LEMMA FailOverInv ==
    ASSUME IInv, NEW r \in Requests, FailOver(r)
    PROVE  IInv'
<1>1. TypeOK /\ Good(r)
  BY DEF IInv
<1>2. UNCHANGED <<rr, keys, cred, input, plan, mat, tries, client, gone, held, live>>
  BY DEF FailOver, shared
<1>3. /\ pc[r] = "headers" /\ pc'[r] = "credential" /\ pc' \in [Requests -> Steps]
      /\ \A s \in Requests \ {r} : pc'[s] = pc[s]
  BY <1>1, GoToType DEF FailOver, Steps
<1>4. /\ at[r] \in 1..Size(r) /\ at[r] \in Nat \ {0} /\ Len(tries[r]) = at[r]
      /\ Unanswered(r) /\ open[r] \subseteq {at[r]}
  BY <1>1, <1>3 DEF Good, LoopShape, Closed, InLoop, Called
<1>5. CanFailOver(r) /\ Retryable(tries[r][at[r]].outcome)
  BY <1>4 DEF FailOver, Outcome
<1>6. plan[r].strategy = "failover" /\ at[r] < Size(r) /\ Size(r) \in Nat
  BY <1>1, <1>5 DEF CanFailOver, Size, TypeOK
<1>7. /\ at' \in [Requests -> Nat] /\ at'[r] = at[r] + 1
      /\ open' \in [Requests -> SUBSET Nat] /\ open'[r] = {}
      /\ \A s \in Requests \ {r} : open'[s] = open[s] /\ at'[s] = at[s]
  <2>1. open' = [open EXCEPT ![r] = @ \ {at[r]}] /\ at' = [at EXCEPT ![r] = @ + 1]
    BY DEF FailOver
  <2>2. open \in [Requests -> SUBSET Nat] /\ at \in [Requests -> Nat]
    BY <1>1 DEF TypeOK
  <2>3. QED BY <1>4, <2>1, <2>2
<1>8. TypeOK'
  BY <1>1, <1>2, <1>3, <1>7 DEF TypeOK
<1>9. Size(r)' = Size(r)
  BY <1>2 DEF Size
<1>10. LoopShape(r)'
  BY <1>2, <1>3, <1>4, <1>6, <1>7, <1>9 DEF LoopShape, Unanswered, InLoop, Ready, Called
<1>11. RelayShape(r)' /\ RoundRobinShape(r)'
  BY <1>1, <1>2, <1>3, <1>9 DEF Good, RelayShape, RoundRobinShape
<1>12. InOrder(r)'
  BY <1>1, <1>2, <1>4, <1>5, <1>6 DEF Good, InOrder
<1>13. Justified(r)'
  BY <1>2, <1>3, <1>4 DEF Justified, Unanswered
<1>14. OwnLive(r)' /\ OwnModel(r)'
  BY <1>1, <1>2 DEF Good, OwnLive, OwnModel
<1>15. Closed(r)' /\ Authority(r)' /\ Admitted(r)'
  BY <1>1, <1>2, <1>3, <1>7 DEF Good, Closed, Authority, Admitted, InLoop
<1>16. Fresh(r)'
  BY <1>1, <1>2, <1>3 DEF Good, Fresh, ActiveNow
<1>17. Good(r)'
  BY <1>10, <1>11, <1>12, <1>13, <1>14, <1>15, <1>16 DEF Good
<1>18. QED BY <1>2, <1>3, <1>7, <1>8, <1>17, OneRequest

(* StartRelay preserves IInv: only where the loop cannot go on.            *)
LEMMA StartRelayInv ==
    ASSUME IInv, NEW r \in Requests, StartRelay(r)
    PROVE  IInv'
<1>1. TypeOK /\ Good(r)
  BY DEF IInv
<1>2. UNCHANGED <<rr, keys, cred, input, plan, at, mat, tries, open, gone, held, live>>
  BY DEF StartRelay, shared
<1>3. /\ pc[r] = "headers" /\ pc'[r] = "relay" /\ pc' \in [Requests -> Steps]
      /\ \A s \in Requests \ {r} : pc'[s] = pc[s]
  BY <1>1, GoToType DEF StartRelay, Steps
<1>4. /\ at[r] \in 1..Size(r) /\ at[r] \in Nat \ {0} /\ Len(tries[r]) = at[r]
      /\ tries[r][at[r]].sent
  BY <1>1, <1>3 DEF Good, LoopShape, InLoop, Called
<1>5. Outcome(r) = tries[r][at[r]].outcome /\ Outcome(r) \in Nat
  <2>1. tries[r] \in Seq(Attempts)
    BY <1>1 DEF TypeOK
  <2>2. tries[r][at[r]] \in Attempts
    BY <1>4, <2>1, ElementOfSeq
  <2>3. QED BY <1>4, <2>2 DEF Outcome, Attempts
<1>6. /\ client' \in [Requests -> [status: Nat, from: Nat]]
      /\ client'[r].status = Outcome(r) /\ client'[r].from = at[r]
      /\ \A s \in Requests \ {r} : client'[s] = client[s]
  <2>1. client' = [client EXCEPT ![r] = [status |-> Outcome(r), from |-> at[r]]]
    BY DEF StartRelay
  <2>2. client \in [Requests -> [status: Nat, from: Nat]]
    BY <1>1 DEF TypeOK
  <2>3. QED BY <1>4, <1>5, <2>1, <2>2
<1>7. TypeOK'
  BY <1>1, <1>2, <1>3, <1>6 DEF TypeOK
<1>8. ~(CanFailOver(r) /\ Retryable(Outcome(r))) /\ Size(r) \in Nat
  BY <1>1 DEF StartRelay, TypeOK, Size
<1>9. Size(r)' = Size(r) /\ Outcome(r)' = Outcome(r) /\ CanFailOver(r)' = CanFailOver(r)
  BY <1>2 DEF Size, Outcome, CanFailOver
<1>10. LoopShape(r)'
  BY <1>2, <1>3, <1>4, <1>6, <1>9 DEF LoopShape, InLoop, Ready, Called
<1>11. RelayShape(r)' /\ RoundRobinShape(r)'
  BY <1>1, <1>2, <1>8, <1>9 DEF Good, RelayShape, RoundRobinShape
<1>12. InOrder(r)' /\ OwnLive(r)' /\ OwnModel(r)'
  BY <1>1, <1>2 DEF Good, InOrder, OwnLive, OwnModel
<1>13. Justified(r)'
  <2>1. plan[r].strategy = "failover" /\ Retryable(Outcome(r)) => at[r] = Size(r)
    BY <1>4, <1>8 DEF CanFailOver
  <2>2. QED BY <1>2, <1>3, <1>4, <1>5, <1>6, <1>9, <2>1 DEF Justified
<1>14. Closed(r)' /\ Authority(r)' /\ Admitted(r)'
  BY <1>1, <1>2, <1>3 DEF Good, Closed, Authority, Admitted, InLoop
<1>15. Fresh(r)'
  BY <1>1, <1>2, <1>3 DEF Good, Fresh, ActiveNow
<1>16. Good(r)'
  BY <1>10, <1>11, <1>12, <1>13, <1>14, <1>15 DEF Good
<1>17. QED BY <1>2, <1>3, <1>6, <1>7, <1>16, OneRequest

(* EndRelay preserves IInv.                                                *)
LEMMA EndRelayInv ==
    ASSUME IInv, NEW r \in Requests, EndRelay(r)
    PROVE  IInv'
<1>1. TypeOK /\ Good(r)
  BY DEF IInv
<1>2. UNCHANGED <<rr, keys, cred, input, plan, at, mat, tries, client, gone, held, live>>
  BY DEF EndRelay, shared
<1>3. /\ pc[r] = "relay" /\ pc'[r] = "done" /\ pc' \in [Requests -> Steps]
      /\ \A s \in Requests \ {r} : pc'[s] = pc[s]
  BY <1>1, GoToType DEF EndRelay, Steps
<1>4. /\ at[r] \in 1..Size(r) /\ at[r] \in Nat \ {0} /\ Len(tries[r]) = at[r]
      /\ tries[r][at[r]].sent /\ open[r] \subseteq {at[r]}
      /\ client[r].status = Outcome(r) /\ client[r].from = at[r]
  BY <1>1, <1>3 DEF Good, LoopShape, Closed, InLoop, Called
<1>5. /\ open' \in [Requests -> SUBSET Nat] /\ open'[r] = {}
      /\ \A s \in Requests \ {r} : open'[s] = open[s]
  <2>1. open' = [open EXCEPT ![r] = @ \ {at[r]}]
    BY DEF EndRelay
  <2>2. open \in [Requests -> SUBSET Nat]
    BY <1>1 DEF TypeOK
  <2>3. QED BY <1>4, <2>1, <2>2
<1>6. TypeOK'
  BY <1>1, <1>2, <1>3, <1>5 DEF TypeOK
<1>7. Size(r)' = Size(r)
  BY <1>2 DEF Size
<1>8. LoopShape(r)'
  BY <1>1, <1>2, <1>3, <1>4, <1>7 DEF Good, LoopShape, InLoop, Ready, Called
<1>9. RelayShape(r)' /\ RoundRobinShape(r)'
  BY <1>1, <1>2, <1>3, <1>7 DEF Good, RelayShape, RoundRobinShape
<1>10. InOrder(r)' /\ OwnLive(r)' /\ OwnModel(r)'
  BY <1>1, <1>2 DEF Good, InOrder, OwnLive, OwnModel
<1>11. Justified(r)'
  BY <1>1, <1>2, <1>4, <1>7 DEF Good, Justified
<1>12. Closed(r)' /\ Authority(r)' /\ Admitted(r)'
  BY <1>1, <1>2, <1>3, <1>5 DEF Good, Closed, Authority, Admitted, InLoop
<1>13. Fresh(r)'
  BY <1>1, <1>2, <1>3 DEF Good, Fresh, ActiveNow
<1>14. Good(r)'
  BY <1>8, <1>9, <1>10, <1>11, <1>12, <1>13 DEF Good
<1>15. QED BY <1>2, <1>3, <1>5, <1>6, <1>14, OneRequest

-------------------------------------------------------------------------------
(* What the clients and the writers of broker.db do.                       *)
LEMMA AllKept ==
    ASSUME IInv, TypeOK', \A s \in Requests : Kept(s)
    PROVE  IInv'
BY Frame DEF IInv

(* Cancel preserves IInv.                                                  *)
LEMMA CancelInv ==
    ASSUME IInv, NEW r \in Requests, Cancel(r)
    PROVE  IInv'
<1>1. TypeOK /\ \A s \in Requests : Good(s)
  BY DEF IInv
<1>2. /\ UNCHANGED <<rr, keys, cred, pc, input, plan, at, mat, tries, open, client, held, live>>
      /\ gone' = [gone EXCEPT ![r] = TRUE]
  BY DEF Cancel, shared
<1>3. TypeOK'
  BY <1>1, <1>2 DEF TypeOK
<1>4. ASSUME NEW s \in Requests PROVE Kept(s)
  BY <1>1, <1>2 DEF Kept, Good, Fresh, ActiveNow
<1>5. QED BY <1>3, <1>4, AllKept

(* Revoke preserves IInv: what was held on arrival stays so.               *)
LEMMA RevokeInv ==
    ASSUME IInv, NEW k \in Keys, Revoke(k)
    PROVE  IInv'
<1>1. TypeOK /\ \A s \in Requests : Good(s)
  BY DEF IInv
<1>2. /\ UNCHANGED <<rr, cred, pc, input, plan, at, mat, tries, open, client, gone, held, live>>
      /\ keys' = keys \ {k}
  BY DEF Revoke, local
<1>3. TypeOK'
  BY <1>1, <1>2 DEF TypeOK
<1>4. ASSUME NEW s \in Requests PROVE Kept(s)
  BY <1>1, <1>2 DEF Kept, Good, Fresh, ActiveNow
<1>5. QED BY <1>3, <1>4, AllKept

(* Disable preserves IInv: fewer rows are active, none newly so.           *)
LEMMA DisableInv ==
    ASSUME IInv, NEW p \in Profiles, Disable(p)
    PROVE  IInv'
<1>1. TypeOK /\ \A s \in Requests : Good(s)
  BY DEF IInv
<1>2. UNCHANGED <<rr, keys, pc, input, plan, at, mat, tries, open, client, gone, held, live>>
  BY DEF Disable, local
<1>3. /\ cred' \in [Profiles -> [ver: Nat, status: {"absent", "active", "disabled"}, kind: Kinds]]
      /\ cred'[p].status = "disabled"
      /\ \A q \in Profiles \ {p} : cred'[q] = cred[q]
  BY <1>1 DEF Disable, TypeOK
<1>4. TypeOK'
  BY <1>1, <1>2, <1>3 DEF TypeOK
<1>5. ActiveNow' \subseteq ActiveNow
  <2>1. \A q \in Profiles : cred'[q].status = "active" => q # p /\ cred'[q] = cred[q]
    BY <1>3
  <2>2. QED BY <2>1 DEF ActiveNow
<1>6. ASSUME NEW s \in Requests PROVE Kept(s)
  BY <1>1, <1>2, <1>5 DEF Kept, Good, Fresh
<1>7. QED BY <1>4, <1>6, AllKept

(* Renew preserves IInv: a new row is live for every request under way.    *)
LEMMA RenewInv ==
    ASSUME IInv, NEW p \in Profiles, NEW kind \in Kinds, Renew(p, kind)
    PROVE  IInv'
<1>1. TypeOK /\ \A s \in Requests : Good(s)
  BY DEF IInv
<1>2. UNCHANGED <<rr, keys, pc, input, plan, at, mat, tries, open, client, gone, held>>
  BY DEF Renew, local
<1> DEFINE v == cred[p].ver + 1
<1>3. /\ v \in Nat
      /\ cred' = [cred EXCEPT ![p] = [ver |-> v, status |-> "active", kind |-> kind]]
      /\ live' = [s \in Requests |-> IF pc[s] = "idle" THEN live[s] ELSE live[s] \cup {<<p, v>>}]
  BY <1>1 DEF Renew, TypeOK
<1> HIDE DEF v
<1>4. /\ cred' \in [Profiles -> [ver: Nat, status: {"absent", "active", "disabled"}, kind: Kinds]]
      /\ cred'[p].ver = v
      /\ \A q \in Profiles \ {p} : cred'[q] = cred[q]
  BY <1>1, <1>3 DEF TypeOK
<1>5. live' \in [Requests -> SUBSET (Profiles \X Nat)]
  BY <1>1, <1>3 DEF TypeOK
<1>6. TypeOK'
  BY <1>1, <1>2, <1>4, <1>5 DEF TypeOK
<1>7. ActiveNow' \subseteq ActiveNow \cup {<<p, v>>}
  BY <1>4 DEF ActiveNow
<1>8. ASSUME NEW s \in Requests PROVE Kept(s)
  <2>1. pc[s] # "idle" => ActiveNow \subseteq live[s]
    BY <1>1 DEF Good, Fresh
  <2>2. live[s] \subseteq live'[s] /\ (pc[s] # "idle" => live'[s] = live[s] \cup {<<p, v>>})
    BY <1>3
  <2>3. QED BY <1>2, <1>7, <2>1, <2>2 DEF Kept
<1>9. QED BY <1>6, <1>8, AllKept

-------------------------------------------------------------------------------
(* Every step preserves the inductive invariant.                           *)
LEMMA StepIInv == IInv /\ [Next]_vars => IInv'
<1> SUFFICES ASSUME IInv, [Next]_vars PROVE IInv'
  OBVIOUS
<1>1. ASSUME NEW r \in Requests, Handle(r) PROVE IInv'
  BY <1>1, AuthenticateInv, RefuseRequestInv, RouteInv, TakeCredentialInv,
     CredentialUnavailableInv, ForwardInv, ForwardFailsInv, CallFailsInv, RespondInv,
     FailOverInv, StartRelayInv DEF Handle
<1>2. ASSUME NEW r \in Requests, EndRelay(r) PROVE IInv'
  BY <1>2, EndRelayInv
<1>3. ASSUME NEW r \in Requests, NEW in \in Inputs, Arrive(r, in) PROVE IInv'
  BY <1>3, ArriveInv
<1>4. CASE Outside
  BY <1>4, CancelInv, RevokeInv, DisableInv, RenewInv DEF Outside
<1>5. CASE UNCHANGED vars
  <2>1. TypeOK /\ \A s \in Requests : Good(s)
    BY DEF IInv
  <2>2. UNCHANGED <<rr, keys, cred, pc, input, plan, at, mat, tries, open, client, gone, held, live>>
    BY <1>5 DEF vars, shared, local
  <2>3. TypeOK'
    BY <2>1, <2>2 DEF TypeOK
  <2>4. ASSUME NEW s \in Requests PROVE Kept(s)
    BY <2>1, <2>2 DEF Kept, Good, Fresh, ActiveNow
  <2>5. QED BY <2>3, <2>4, AllKept
<1>6. QED BY <1>1, <1>2, <1>3, <1>4, <1>5 DEF Next

(* IInv holds throughout: the handler's position, its history, the bodies   *)
(* it has open and what it holds from the store agree (wire.go handleWire). *)
THEOREM Invariance == Spec => []IInv
BY InitIInv, StepIInv, PTL DEF Spec

(* Every variable keeps its type: in particular the loop variable is       *)
(* always a member of the plan where handleWire indexes the plan with it.  *)
THEOREM TypeCorrect == Spec => []TypeOK
<1>1. IInv => TypeOK
  BY DEF IInv
<1>2. QED BY <1>1, Invariance, PTL

(* The loop visits the plan's members in order and passes over one only if *)
(* it failed or answered with a retryable status.                          *)
THEOREM InOrderAlways == Spec => []AttemptsInOrder
<1>1. IInv => AttemptsInOrder
  BY DEF IInv, Good, AttemptsInOrder
<1>2. QED BY <1>1, Invariance, PTL

(* The answer the client gets is the last contacted member's, retryable    *)
(* only when no member is left, or the gateway's 502 after all have failed. *)
THEOREM JustifiedAlways == Spec => []AnswerJustified
<1>1. IInv => AnswerJustified
  BY DEF IInv, Good, AnswerJustified
<1>2. QED BY <1>1, Invariance, PTL

(* Every exit of the loop closes the upstream response body.               *)
THEOREM ClosedAlways == Spec => []BodiesClosed
<1>1. IInv => BodiesClosed
  BY DEF IInv, Good, BodiesClosed
<1>2. QED BY <1>1, Invariance, PTL

(* No call carries a credential that was disabled or replaced before its   *)
(* request arrived, nor one of another profile than the member's.          *)
THEOREM NeverStale == Spec => []NoStaleCredential
<1>1. IInv => NoStaleCredential
  BY DEF IInv, Good, NoStaleCredential
<1>2. QED BY <1>1, Invariance, PTL

(* Each member of the pool is sent its own model in a JSON body.           *)
THEOREM OwnModelAlways == Spec => []OwnModelInJson
<1>1. IInv => OwnModelInJson
  BY DEF IInv, Good, OwnModelInJson
<1>2. QED BY <1>1, Invariance, PTL

(* A request that reaches the loop has a valid key with the scope it needs. *)
THEOREM AuthorizedAlways == Spec => []OnlyAuthorized
<1>1. IInv => OnlyAuthorized
  BY DEF IInv, Good, OnlyAuthorized
<1>2. QED BY <1>1, Invariance, PTL

-------------------------------------------------------------------------------
(* Action properties.                                                      *)

(* A step of one handler moves no other request.                           *)
LEMMA OthersUnmoved ==
    ASSUME TypeOK, NEW r \in Requests, NEW s \in Requests \ {r},
           Handle(r) \/ EndRelay(r) \/ \E in \in Inputs : Arrive(r, in)
    PROVE  UNCHANGED <<pc[s], plan[s], at[s], tries[s], client[s]>>
<1> DEFINE Unmoved == UNCHANGED <<pc[s], plan[s], at[s], tries[s], client[s]>>
<1>1. /\ DOMAIN pc = Requests /\ DOMAIN plan = Requests /\ DOMAIN at = Requests
      /\ DOMAIN tries = Requests /\ DOMAIN client = Requests
  BY DEF TypeOK
<1>2. ASSUME NEW from, NEW to, GoTo(r, from, to) PROVE pc'[s] = pc[s]
  BY <1>1, <1>2 DEF GoTo
<1>3. ASSUME NEW from, NEW status, Answer(r, from, status)
      PROVE  pc'[s] = pc[s] /\ client'[s] = client[s]
  BY <1>1, <1>3 DEF Answer, GoTo
<1>4. ASSUME NEW from, NextOrFail(r, from)
      PROVE  pc'[s] = pc[s] /\ client'[s] = client[s] /\ at'[s] = at[s]
  BY <1>1, <1>2, <1>3, <1>4 DEF NextOrFail
<1>5. ASSUME NEW sent, NEW ver, NEW m, NEW o, Record(r, sent, ver, m, o)
      PROVE  tries'[s] = tries[s]
  BY <1>1, <1>5 DEF Record
<1>6. ASSUME NEW o, Settle(r, o) PROVE tries'[s] = tries[s]
  BY <1>1, <1>6 DEF Settle
<1>7. CASE \E in \in Inputs : Arrive(r, in)
  BY <1>2, <1>3, <1>7 DEF Arrive
<1>8. CASE Authenticate(r) \/ RefuseRequest(r)
  BY <1>2, <1>3, <1>8 DEF Authenticate, RefuseRequest
<1>9. CASE Route(r)
  BY <1>1, <1>2, <1>3, <1>9 DEF Route
<1>10. CASE TakeCredential(r)
  BY <1>2, <1>10 DEF TakeCredential
<1>11. CASE CredentialUnavailable(r)
  BY <1>4, <1>5, <1>11 DEF CredentialUnavailable
<1>12. CASE Forward(r)
  BY <1>2, <1>5, <1>12 DEF Forward
<1>13. CASE ForwardFails(r)
  BY <1>4, <1>5, <1>13 DEF ForwardFails
<1>14. CASE CallFails(r)
  BY <1>4, <1>6, <1>14 DEF CallFails
<1>15. CASE \E status \in UpstreamStatuses : Respond(r, status)
  BY <1>2, <1>6, <1>15 DEF Respond
<1>16. CASE FailOver(r)
  BY <1>1, <1>2, <1>16 DEF FailOver
<1>17. CASE StartRelay(r) \/ EndRelay(r)
  BY <1>1, <1>2, <1>17 DEF StartRelay, EndRelay
<1>18. QED BY <1>7, <1>8, <1>9, <1>10, <1>11, <1>12, <1>13, <1>14, <1>15, <1>16, <1>17 DEF Handle

(* Nor do the clients and the writers of broker.db.                        *)
LEMMA OutsideUnmoved ==
    ASSUME Outside \/ UNCHANGED vars
    PROVE  UNCHANGED <<pc, plan, at, tries, client>>
BY DEF Outside, Cancel, Revoke, Disable, Renew, vars, shared, local

(* The handler does nothing more once it relays or has returned.           *)
LEMMA HandlerSteps ==
    ASSUME NEW r \in Requests, Handle(r) \/ \E in \in Inputs : Arrive(r, in)
    PROVE  pc[r] \in Steps \ {"relay", "done"}
BY DEF Handle, Arrive, Authenticate, RefuseRequest, Route, TakeCredential, CredentialUnavailable,
   Forward, ForwardFails, CallFails, Respond, FailOver, StartRelay, Answer, GoTo, Steps

(* Once the status line is out nothing more is tried, and it stands.       *)
THEOREM AnswerIsFinal == Spec => NoWorkAfterAnswer
<1>1. ASSUME IInv, [Next]_vars, NEW s \in Requests, client[s].status # 0
      PROVE  client'[s] = client[s] /\ tries'[s] = tries[s] /\ at'[s] = at[s]
  <2>1. TypeOK /\ Good(s)
    BY <1>1 DEF IInv
  <2>2. pc[s] \in {"relay", "done"}
    BY <1>1, <2>1 DEF Good, LoopShape, Unanswered, InLoop, TypeOK, Steps
  <2>3. ASSUME NEW r \in Requests, Handle(r) \/ EndRelay(r) \/ \E in \in Inputs : Arrive(r, in)
        PROVE  client'[s] = client[s] /\ tries'[s] = tries[s] /\ at'[s] = at[s]
    <3>1. CASE r # s
      BY <2>1, <2>3, <3>1, OthersUnmoved
    <3>2. CASE r = s
      <4>1. EndRelay(s)
        BY <2>2, <2>3, <3>2, HandlerSteps
      <4>2. QED BY <4>1 DEF EndRelay
    <3>3. QED BY <3>1, <3>2
  <2>4. CASE Outside \/ UNCHANGED vars
    BY <2>4, OutsideUnmoved
  <2>5. QED BY <1>1, <2>3, <2>4 DEF Next
<1>2. IInv /\ [Next]_vars => [AnswersStand]_vars
  BY <1>1 DEF AnswersStand
<1>3. QED BY <1>2, Invariance, PTL DEF Spec, NoWorkAfterAnswer

(* The calls in a history are told by the sent field alone.                *)
LEMMA CallsUnmoved ==
    ASSUME NEW old \in Seq(Attempts), NEW new \in Seq(Attempts), NEW n \in Nat,
           Len(old) \in {n, n + 1}, Len(new) = n + 1,
           \A k \in 1..n : new[k].sent = old[k].sent,
           Len(old) = n => ~new[n + 1].sent,
           Len(old) = n + 1 => new[n + 1].sent = old[n + 1].sent
    PROVE  Calls(new) = Calls(old)
<1>1. DOMAIN old = 1..Len(old) /\ DOMAIN new = 1..(n + 1)
  OBVIOUS
<1>2. \A k \in 1..n : k \in 1..Len(old) /\ k \in 1..(n + 1)
  OBVIOUS
<1>3. \A k \in 1..n : k \in Calls(new) <=> k \in Calls(old)
  BY <1>1, <1>2 DEF Calls
<1>4. n + 1 \in Calls(new) <=> n + 1 \in Calls(old)
  <2>1. CASE Len(old) = n
    BY <1>1, <2>1 DEF Calls
  <2>2. CASE Len(old) = n + 1
    BY <1>1, <2>2 DEF Calls
  <2>3. QED BY <2>1, <2>2
<1>5. Calls(new) \subseteq 1..(n + 1) /\ Calls(old) \subseteq 1..(n + 1)
  <2>1. 1..Len(old) \subseteq 1..(n + 1)
    OBVIOUS
  <2>2. QED BY <1>1, <2>1 DEF Calls
<1>6. \A k \in 1..(n + 1) : k \in 1..n \/ k = n + 1
  OBVIOUS
<1>7. \A k \in 1..(n + 1) : k \in Calls(new) <=> k \in Calls(old)
  BY <1>3, <1>4, <1>6
<1> DEFINE C == Calls(new)
           D == Calls(old)
           N == 1..(n + 1)
<1>8. C \subseteq N /\ D \subseteq N /\ \A k \in N : k \in C <=> k \in D
  BY <1>5, <1>7
<1> HIDE DEF C, D, N
<1>9. C = D
  BY <1>8
<1>10. QED BY <1>9 DEF C, D

(* No upstream is called for a client that is gone.                        *)
THEOREM GoneIsNotCalledFor == Spec => NoCallAfterCancel
<1>1. ASSUME IInv, [Next]_vars, NEW s \in Requests, gone[s]
      PROVE  Calls(tries'[s]) = Calls(tries[s])
  <2>1. TypeOK /\ Good(s) /\ tries[s] \in Seq(Attempts)
    BY <1>1 DEF IInv, TypeOK
  <2>2. ASSUME Handle(s) PROVE Calls(tries'[s]) = Calls(tries[s])
    <3>1. CASE tries' = tries
      BY <3>1
    <3>2. CASE CredentialUnavailable(s) \/ ForwardFails(s)
      <4>1. Record(s, FALSE, 0, Omitted, Failed) /\ pc[s] \in {"credential", "forward"}
        BY <3>2 DEF CredentialUnavailable, ForwardFails
      <4>2. at[s] \in Nat \ {0} /\ Len(tries[s]) = at[s] - 1
        BY <2>1, <4>1 DEF Good, LoopShape, InLoop, Ready
      <4>3. /\ tries' \in [Requests -> Seq(Attempts)] /\ Len(tries'[s]) = at[s]
            /\ \A k \in 1..(at[s] - 1) : tries'[s][k] = tries[s][k]
            /\ ~tries'[s][at[s]].sent
        BY <2>1, <4>1, <4>2, RecordUnsent
      <4> DEFINE n == at[s] - 1
      <4>4. /\ n \in Nat /\ Len(tries[s]) = n /\ Len(tries'[s]) = n + 1 /\ n + 1 = at[s]
            /\ \A k \in 1..n : tries'[s][k].sent = tries[s][k].sent
            /\ ~tries'[s][n + 1].sent /\ tries'[s] \in Seq(Attempts)
        BY <4>2, <4>3
      <4> HIDE DEF n
      <4>5. QED BY <2>1, <4>4, CallsUnmoved
    <3>3. CASE CallFails(s) \/ \E status \in UpstreamStatuses : Respond(s, status)
      <4>1. PICK o \in Nat : Settle(s, o)
        BY <3>3, InputAssumption DEF CallFails, Respond, Failed
      <4>2. pc[s] = "await"
        BY <3>3 DEF CallFails, Respond, GoTo
      <4>3. at[s] \in Nat \ {0} /\ Len(tries[s]) = at[s]
        BY <2>1, <4>2 DEF Good, LoopShape, InLoop, Called
      <4> DEFINE m == Len(tries[s])
                 n == m - 1
      <4>4. /\ tries' \in [Requests -> Seq(Attempts)] /\ Len(tries'[s]) = m
            /\ \A k \in 1..(m - 1) : tries'[s][k] = tries[s][k]
            /\ tries'[s][m].sent = tries[s][m].sent
        BY <2>1, <4>1, <4>3, SettleStep
      <4>5. m \in Nat \ {0}
        BY <4>3
      <4>6. Len(tries[s]) = m
        OBVIOUS
      <4> HIDE DEF m
      <4>7. /\ n \in Nat /\ Len(tries[s]) = n + 1 /\ Len(tries'[s]) = n + 1 /\ n + 1 = m
            /\ \A k \in 1..n : tries'[s][k].sent = tries[s][k].sent
            /\ tries'[s][n + 1].sent = tries[s][n + 1].sent /\ tries'[s] \in Seq(Attempts)
        BY <4>4, <4>5, <4>6
      <4> HIDE DEF n
      <4>8. Len(tries[s]) # n
        BY <4>7
      <4>9. QED BY <2>1, <4>7, <4>8, CallsUnmoved
    <3>4. ~Forward(s)
      BY <1>1 DEF Forward
    <3>5. Authenticate(s) \/ RefuseRequest(s) \/ Route(s) \/ TakeCredential(s) \/ FailOver(s)
             \/ StartRelay(s) => tries' = tries
      BY DEF Authenticate, RefuseRequest, Route, TakeCredential, FailOver, StartRelay
    <3>6. QED BY <2>2, <3>1, <3>2, <3>3, <3>4, <3>5 DEF Handle
  <2>3. ASSUME NEW r \in Requests, Handle(r) \/ EndRelay(r) \/ \E in \in Inputs : Arrive(r, in)
        PROVE  Calls(tries'[s]) = Calls(tries[s])
    <3>1. CASE r # s
      BY <2>1, <2>3, <3>1, OthersUnmoved
    <3>2. CASE r = s /\ ~Handle(s)
      BY <2>3, <3>2 DEF EndRelay, Arrive
    <3>3. QED BY <2>2, <2>3, <3>1, <3>2
  <2>4. CASE Outside \/ UNCHANGED vars
    BY <2>4, OutsideUnmoved
  <2>5. QED BY <1>1, <2>3, <2>4 DEF Next
<1>2. IInv /\ [Next]_vars => [GoneAreNotCalledFor]_vars
  BY <1>1 DEF GoneAreNotCalledFor
<1>3. QED BY <1>2, Invariance, PTL DEF Spec, NoCallAfterCancel

-------------------------------------------------------------------------------
(* The engine implements its contract.                                     *)
LEMMA ContractInit == Init => Contract!Init
<1> SUFFICES ASSUME Init PROVE Contract!Init
  OBVIOUS
<1>1. \A r \in Requests : PhaseOf(r) = "waiting"
  BY DEF Init, PhaseOf
<1>2. \A r \in Requests : Size(r) = 0
  BY NoPlanIsEmpty DEF Init, Size
<1>3. at = [r \in Requests |-> 0]
  BY DEF Init
<1>4. QED BY <1>1, <1>2, <1>3 DEF Contract!Init, PhaseMap, SizeMap

(* A step of one handler changes its own phase, size and member only.      *)
LEMMA MapStep ==
    ASSUME TypeOK, TypeOK', NEW r \in Requests,
           Handle(r) \/ EndRelay(r) \/ \E in \in Inputs : Arrive(r, in)
    PROVE  /\ PhaseMap' = [PhaseMap EXCEPT ![r] = PhaseOf(r)']
           /\ SizeMap' = [SizeMap EXCEPT ![r] = Size(r)']
           /\ at' = [at EXCEPT ![r] = at'[r]]
<1>1. ASSUME NEW s \in Requests \ {r}
      PROVE  UNCHANGED <<pc[s], plan[s], at[s], tries[s], client[s]>>
  BY <1>1, OthersUnmoved
<1>2. ASSUME NEW s \in Requests \ {r} PROVE PhaseOf(s)' = PhaseOf(s) /\ Size(s)' = Size(s)
  BY <1>1, <1>2 DEF PhaseOf, Size
<1>3. at \in [Requests -> Nat] /\ at' \in [Requests -> Nat]
  BY DEF TypeOK
<1>4. at' = [at EXCEPT ![r] = at'[r]]
  BY <1>1, <1>3
<1>5. PhaseMap' = [PhaseMap EXCEPT ![r] = PhaseOf(r)']
  BY <1>2 DEF PhaseMap
<1>6. SizeMap' = [SizeMap EXCEPT ![r] = Size(r)']
  BY <1>2 DEF SizeMap
<1>7. QED BY <1>4, <1>5, <1>6

(* What a step of the contract needs to know of a step of the engine.      *)
LEMMA Stutter ==
    ASSUME TypeOK, TypeOK', NEW r \in Requests,
           Handle(r) \/ EndRelay(r) \/ \E in \in Inputs : Arrive(r, in),
           PhaseOf(r)' = PhaseOf(r), Size(r)' = Size(r), at'[r] = at[r]
    PROVE  UNCHANGED Contract!vars
<1>1. /\ PhaseMap' = [PhaseMap EXCEPT ![r] = PhaseOf(r)]
      /\ SizeMap' = [SizeMap EXCEPT ![r] = Size(r)]
      /\ at' = [at EXCEPT ![r] = at[r]]
  BY MapStep
<1>2. PhaseMap' = PhaseMap
  BY <1>1 DEF PhaseMap
<1>3. SizeMap' = SizeMap
  BY <1>1 DEF SizeMap
<1>4. at' = at
  BY <1>1 DEF TypeOK
<1>5. QED BY <1>2, <1>3, <1>4 DEF Contract!vars

(* A step that changes only the phase of a request is one of PoolContract. *)
LEMMA Move ==
    ASSUME TypeOK, TypeOK', NEW r \in Requests,
           Handle(r) \/ EndRelay(r) \/ \E in \in Inputs : Arrive(r, in),
           Size(r)' = Size(r), at'[r] = at[r],
           <<PhaseOf(r), PhaseOf(r)'>> \in {<<"waiting", "refused">>, <<"trying", "delivering">>,
                                            <<"delivering", "delivered">>}
    PROVE  Contract!Next
<1>1. /\ PhaseMap' = [PhaseMap EXCEPT ![r] = PhaseOf(r)'] /\ PhaseMap[r] = PhaseOf(r)
      /\ SizeMap' = [SizeMap EXCEPT ![r] = Size(r)]
      /\ at' = [at EXCEPT ![r] = at[r]]
  BY MapStep DEF PhaseMap
<1>2. SizeMap' = SizeMap
  BY <1>1 DEF SizeMap
<1>3. at' = at
  BY <1>1 DEF TypeOK
<1>4. CASE PhaseOf(r) = "waiting" /\ PhaseOf(r)' = "refused"
  <2>1. Contract!Refuse(r)
    BY <1>1, <1>2, <1>3, <1>4 DEF Contract!Refuse, Contract!Become
  <2>2. QED BY <2>1 DEF Contract!Next
<1>5. CASE PhaseOf(r) = "trying" /\ PhaseOf(r)' = "delivering"
  <2>1. Contract!Deliver(r)
    BY <1>1, <1>2, <1>3, <1>5 DEF Contract!Deliver, Contract!Become
  <2>2. QED BY <2>1 DEF Contract!Next
<1>6. CASE PhaseOf(r) = "delivering" /\ PhaseOf(r)' = "delivered"
  <2>1. Contract!Finish(r)
    BY <1>1, <1>2, <1>3, <1>6 DEF Contract!Finish, Contract!Become
  <2>2. QED BY <2>1 DEF Contract!Next
<1>7. QED BY <1>4, <1>5, <1>6

(* Going on to the next member is PoolContract's Advance.                  *)
LEMMA NextMember ==
    ASSUME TypeOK, TypeOK', NEW r \in Requests, Handle(r),
           PhaseOf(r) = "trying", PhaseOf(r)' = "trying", Size(r)' = Size(r),
           at[r] < Size(r), at'[r] = at[r] + 1
    PROVE  Contract!Next
<1>1. /\ PhaseMap' = [PhaseMap EXCEPT ![r] = PhaseOf(r)'] /\ PhaseMap[r] = PhaseOf(r)
      /\ SizeMap' = [SizeMap EXCEPT ![r] = Size(r)] /\ SizeMap[r] = Size(r)
      /\ at' = [at EXCEPT ![r] = at[r] + 1]
  BY MapStep DEF PhaseMap, SizeMap
<1>2. SizeMap' = SizeMap
  BY <1>1 DEF SizeMap
<1>3. PhaseMap' = PhaseMap
  BY <1>1 DEF PhaseMap
<1>4. Contract!Advance(r)
  BY <1>1, <1>2, <1>3 DEF Contract!Advance
<1>5. QED BY <1>4 DEF Contract!Next

(* Failing on the last member is PoolContract's Exhaust.                   *)
LEMMA LastMember ==
    ASSUME TypeOK, TypeOK', NEW r \in Requests, Handle(r),
           PhaseOf(r) = "trying", PhaseOf(r)' = "exhausted", Size(r)' = Size(r),
           at[r] = Size(r), at'[r] = at[r]
    PROVE  Contract!Next
<1>1. /\ PhaseMap' = [PhaseMap EXCEPT ![r] = PhaseOf(r)'] /\ PhaseMap[r] = PhaseOf(r)
      /\ SizeMap' = [SizeMap EXCEPT ![r] = Size(r)] /\ SizeMap[r] = Size(r)
      /\ at' = [at EXCEPT ![r] = at[r]]
  BY MapStep DEF PhaseMap, SizeMap
<1>2. SizeMap' = SizeMap
  BY <1>1 DEF SizeMap
<1>3. at' = at
  BY <1>1 DEF TypeOK
<1>4. Contract!Exhaust(r)
  BY <1>1, <1>2, <1>3 DEF Contract!Exhaust, Contract!Become
<1>5. QED BY <1>4 DEF Contract!Next

(* An iteration that ends in an error is the contract's Advance or Exhaust. *)
LEMMA FailStep ==
    ASSUME IInv, IInv', NEW r \in Requests, NEW from \in {"credential", "forward", "await"},
           Handle(r), NextOrFail(r, from), UNCHANGED plan
    PROVE  Contract!Next
<1>1. TypeOK /\ TypeOK' /\ Good(r)
  BY DEF IInv
<1>2. /\ pc[r] = from
      /\ \/ /\ CanFailOver(r) /\ pc'[r] = "credential"
            /\ at'[r] = at[r] + 1 /\ client'[r] = client[r]
         \/ /\ ~CanFailOver(r) /\ pc'[r] = "done" /\ at'[r] = at[r]
            /\ client'[r].status = 502 /\ client'[r].from = 0
  BY <1>1, NextOrFailStep
<1>3. at[r] \in 1..Size(r) /\ Size(r) \in Nat /\ Size(r)' = Size(r)
  <2>1. at[r] \in 1..Size(r)
    BY <1>1, <1>2 DEF Good, LoopShape, InLoop
  <2>2. QED BY <1>1, <2>1 DEF TypeOK, Size
<1>4. PhaseOf(r) = "trying"
  BY <1>2 DEF PhaseOf
<1>5. CASE CanFailOver(r)
  <2>1. at[r] < Size(r)
    BY <1>5 DEF CanFailOver
  <2>2. PhaseOf(r)' = "trying"
    BY <1>2, <1>5 DEF PhaseOf
  <2>3. QED BY <1>1, <1>2, <1>3, <1>4, <1>5, <2>1, <2>2, NextMember
<1>6. CASE ~CanFailOver(r)
  <2>1. at[r] = Size(r)
    BY <1>1, <1>3, <1>6 DEF CanFailOver, Good, RoundRobinShape
  <2>2. PhaseOf(r)' = "exhausted"
    BY <1>2, <1>3, <1>6 DEF PhaseOf
  <2>3. QED BY <1>1, <1>2, <1>3, <1>4, <1>6, <2>1, <2>2, LastMember
<1>7. QED BY <1>5, <1>6

(* Resolution is PoolContract's Admit, or its Refuse.                      *)
LEMMA RouteStep ==
    ASSUME IInv, IInv', NEW r \in Requests, Route(r)
    PROVE  Contract!Next
<1>1. TypeOK /\ TypeOK' /\ Good(r) /\ Good(r)' /\ Handle(r)
  BY DEF IInv, Handle
<1>2. pc[r] = "plan" /\ at[r] = 0
  BY <1>1 DEF Route, Good, LoopShape
<1>3. PhaseOf(r) = "waiting"
  BY <1>2 DEF PhaseOf
<1>4. CASE Answer(r, "plan", 400) /\ UNCHANGED <<plan, at>>
  <2>1. pc'[r] = "done" /\ client'[r].from = 0
    BY <1>1, <1>4, AnswerType
  <2>2. PhaseOf(r)' = "refused"
    BY <1>2, <1>4, <2>1 DEF PhaseOf
  <2>3. Size(r)' = Size(r)
    BY <1>4 DEF Size
  <2>4. QED BY <1>1, <1>3, <1>4, <2>2, <2>3, Move
<1>5. CASE GoTo(r, "plan", "credential") /\ at' = [at EXCEPT ![r] = 1]
  <2>1. pc'[r] = "credential" /\ at'[r] = 1
    BY <1>1, <1>5 DEF GoTo, TypeOK
  <2>2. PhaseOf(r)' = "trying"
    BY <2>1 DEF PhaseOf
  <2>3. Size(r)' \in Nat \ {0}
    <3>1. at'[r] \in 1..Size(r)'
      BY <1>1, <2>1 DEF Good, LoopShape, InLoop
    <3>2. Size(r)' \in Nat
      BY <1>1 DEF TypeOK, Size
    <3>3. QED BY <2>1, <3>1, <3>2
  <2>4. /\ PhaseMap' = [PhaseMap EXCEPT ![r] = PhaseOf(r)'] /\ PhaseMap[r] = PhaseOf(r)
        /\ SizeMap' = [SizeMap EXCEPT ![r] = Size(r)'] /\ SizeMap'[r] = Size(r)'
        /\ at' = [at EXCEPT ![r] = at'[r]]
    BY <1>1, MapStep DEF PhaseMap, SizeMap
  <2>5. Contract!Admit(r)
    BY <1>3, <2>1, <2>2, <2>3, <2>4 DEF Contract!Admit, Contract!Become
  <2>6. QED BY <2>5 DEF Contract!Next
<1>6. QED BY <1>4, <1>5 DEF Route

(* Every step of a handler is one of PoolContract, or changes nothing it   *)
(* has.                                                                    *)
LEMMA HandlerContract ==
    ASSUME IInv, IInv', NEW r \in Requests,
           Handle(r) \/ EndRelay(r) \/ \E in \in Inputs : Arrive(r, in)
    PROVE  [Contract!Next]_Contract!vars
<1>1. TypeOK /\ TypeOK' /\ Good(r)
  BY DEF IInv
<1>2. pc[r] \in {"idle", "auth", "plan"} => at[r] = 0 /\ PhaseOf(r) = "waiting"
  BY <1>1 DEF Good, LoopShape, PhaseOf
<1>3. ASSUME UNCHANGED <<plan, at>>, pc[r] \in {"idle", "auth", "plan"},
             \/ pc'[r] \in {"auth", "plan"}
             \/ pc'[r] = "done" /\ client'[r].from = 0
      PROVE  [Contract!Next]_Contract!vars
  <2>1. Size(r)' = Size(r) /\ at'[r] = at[r] /\ at[r] = 0
    BY <1>2, <1>3 DEF Size
  <2>2. CASE pc'[r] \in {"auth", "plan"}
    <3>1. PhaseOf(r)' = "waiting"
      BY <2>2 DEF PhaseOf
    <3>2. QED BY <1>1, <1>2, <1>3, <2>1, <3>1, Stutter
  <2>3. CASE pc'[r] = "done" /\ client'[r].from = 0
    <3>1. PhaseOf(r)' = "refused"
      BY <2>1, <2>3 DEF PhaseOf
    <3>2. QED BY <1>1, <1>2, <1>3, <2>1, <3>1, Move
  <2>4. QED BY <1>3, <2>2, <2>3
<1>4. ASSUME UNCHANGED <<plan, at>>, pc[r] \in InLoop \ {"relay"}, pc'[r] \in InLoop \ {"relay"}
      PROVE  [Contract!Next]_Contract!vars
  <2>1. PhaseOf(r) = "trying" /\ PhaseOf(r)' = "trying" /\ Size(r)' = Size(r) /\ at'[r] = at[r]
    BY <1>4 DEF PhaseOf, Size, InLoop
  <2>2. QED BY <1>1, <2>1, Stutter
<1>5. CASE \E in \in Inputs : Arrive(r, in)
  <2>1. UNCHANGED <<plan, at>>
    BY <1>5 DEF Arrive
  <2>2. pc[r] = "idle" /\ pc'[r] = "auth"
    BY <1>1, <1>5 DEF Arrive, GoTo, TypeOK
  <2>3. QED BY <1>3, <2>1, <2>2
<1>6. CASE Authenticate(r)
  <2>1. UNCHANGED <<plan, at>>
    BY <1>6 DEF Authenticate
  <2>2. GoTo(r, "auth", "plan") \/ Answer(r, "auth", 401)
    BY <1>6 DEF Authenticate
  <2>3. CASE GoTo(r, "auth", "plan")
    <3>1. pc[r] = "auth" /\ pc'[r] = "plan"
      BY <1>1, <2>3 DEF GoTo, TypeOK
    <3>2. QED BY <1>3, <2>1, <3>1
  <2>4. CASE Answer(r, "auth", 401)
    BY <1>1, <1>3, <2>1, <2>4, AnswerType
  <2>5. QED BY <2>2, <2>3, <2>4
<1>7. CASE RefuseRequest(r)
  <2>1. /\ UNCHANGED <<plan, at>>
        /\ Answer(r, "plan", 400) \/ Answer(r, "plan", 403) \/ Answer(r, "plan", 405)
    BY <1>7 DEF RefuseRequest
  <2>2. pc[r] = "plan" /\ pc'[r] = "done" /\ client'[r].from = 0
    BY <1>1, <2>1, AnswerType
  <2>3. QED BY <1>3, <2>1, <2>2
<1>8. CASE Route(r)
  BY <1>8, RouteStep
<1>9. CASE TakeCredential(r)
  <2>1. UNCHANGED <<plan, at>> /\ pc[r] = "credential" /\ pc'[r] = "forward"
    BY <1>1, <1>9, GoToType DEF TakeCredential, Steps
  <2>2. QED BY <1>4, <2>1 DEF InLoop
<1>10. CASE CredentialUnavailable(r)
  BY <1>10, FailStep DEF CredentialUnavailable, Handle
<1>11. CASE Forward(r)
  <2>1. UNCHANGED <<plan, at>> /\ pc[r] = "forward" /\ pc'[r] = "await"
    BY <1>1, <1>11, GoToType DEF Forward, Steps
  <2>2. QED BY <1>4, <2>1 DEF InLoop
<1>12. CASE ForwardFails(r)
  BY <1>12, FailStep DEF ForwardFails, Handle
<1>13. CASE CallFails(r)
  BY <1>13, FailStep DEF CallFails, Handle
<1>14. ASSUME NEW status \in UpstreamStatuses, Respond(r, status)
       PROVE  [Contract!Next]_Contract!vars
  <2>1. UNCHANGED <<plan, at>> /\ pc[r] = "await" /\ pc'[r] = "headers"
    BY <1>1, <1>14, GoToType DEF Respond, Steps
  <2>2. QED BY <1>4, <2>1 DEF InLoop
<1>15. CASE FailOver(r)
  <2>1. /\ UNCHANGED plan /\ pc[r] = "headers" /\ pc'[r] = "credential" /\ CanFailOver(r)
        /\ at' = [at EXCEPT ![r] = @ + 1]
    BY <1>1, <1>15, GoToType DEF FailOver, Steps
  <2>2. /\ PhaseOf(r) = "trying" /\ PhaseOf(r)' = "trying" /\ Size(r)' = Size(r)
        /\ at[r] < Size(r) /\ at'[r] = at[r] + 1
    BY <1>1, <2>1 DEF PhaseOf, Size, CanFailOver, TypeOK
  <2>3. QED BY <1>1, <1>15, <2>2, NextMember DEF Handle
<1>16. CASE StartRelay(r)
  <2>1. UNCHANGED <<plan, at>> /\ pc[r] = "headers" /\ pc'[r] = "relay"
    BY <1>1, <1>16, GoToType DEF StartRelay, Steps
  <2>2. PhaseOf(r) = "trying" /\ PhaseOf(r)' = "delivering" /\ Size(r)' = Size(r) /\ at'[r] = at[r]
    BY <2>1 DEF PhaseOf, Size
  <2>3. QED BY <1>1, <2>2, Move
<1>17. CASE EndRelay(r)
  <2>1. UNCHANGED <<plan, at, client>> /\ pc[r] = "relay" /\ pc'[r] = "done"
    BY <1>1, <1>17, GoToType DEF EndRelay, Steps
  <2>2. client[r].from # 0
    <3>1. at[r] \in 1..Size(r) /\ client[r].from = at[r]
      BY <1>1, <2>1 DEF Good, LoopShape, InLoop
    <3>2. QED BY <1>1, <3>1 DEF TypeOK
  <2>3. PhaseOf(r) = "delivering" /\ PhaseOf(r)' = "delivered"
    BY <2>1, <2>2 DEF PhaseOf
  <2>4. Size(r)' = Size(r) /\ at'[r] = at[r]
    BY <2>1 DEF Size
  <2>5. QED BY <1>1, <2>3, <2>4, Move
<1>18. QED
  BY <1>5, <1>6, <1>7, <1>8, <1>9, <1>10, <1>11, <1>12, <1>13, <1>14, <1>15, <1>16, <1>17
  DEF Handle

(* Every behaviour of the engine is one the contract allows: a request is  *)
(* refused, or tries its members one after the other, each once, until one *)
(* response is delivered or the last has failed.                           *)
THEOREM Refinement == Spec => ImplementsContract
<1>1. ASSUME IInv, IInv', [Next]_vars PROVE [Contract!Next]_Contract!vars
  <2>1. CASE Outside \/ UNCHANGED vars
    <3>1. UNCHANGED <<pc, plan, at, client>>
      BY <2>1, OutsideUnmoved
    <3>2. \A r \in Requests : PhaseOf(r)' = PhaseOf(r) /\ Size(r)' = Size(r)
      BY <3>1 DEF PhaseOf, Size
    <3>3. PhaseMap' = PhaseMap /\ SizeMap' = SizeMap
      BY <3>2 DEF PhaseMap, SizeMap
    <3>4. QED BY <3>1, <3>3 DEF Contract!vars
  <2>2. ASSUME NEW r \in Requests, Handle(r) \/ EndRelay(r) \/ \E in \in Inputs : Arrive(r, in)
        PROVE  [Contract!Next]_Contract!vars
    BY <1>1, <2>2, HandlerContract
  <2>3. QED BY <1>1, <2>1, <2>2 DEF Next
<1>2. QED BY <1>1, ContractInit, Invariance, PTL DEF Spec, ImplementsContract, Contract!Spec

-------------------------------------------------------------------------------
(* The termination argument under Answered.                                *)

(* What a handler has left to do: the stage it is in, and in the loop a    *)
(* bound on its steps.  A member takes it five at the most.                *)
Stage(r) == CASE pc[r] = "idle"    -> 4
              [] pc[r] = "auth"    -> 3
              [] pc[r] = "plan"    -> 2
              [] pc[r] \in InLoop  -> 1
              [] OTHER             -> 0
Rest(step) == CASE step = "credential" -> 5
                [] step = "forward"    -> 4
                [] step = "await"      -> 3
                [] step = "headers"    -> 2
                [] OTHER               -> 1
Ahead(r) == IF pc[r] \in InLoop THEN 5 * (Size(r) - at[r]) + Rest(pc[r]) ELSE 0

Closer(r) == \/ Stage(r)' < Stage(r)
             \/ Stage(r)' = Stage(r) /\ Ahead(r)' < Ahead(r)

(* Every step of a handler brings it closer to its answer, nothing that    *)
(* others do sets it back, and in the loop at most five steps for each     *)
(* member of the plan are ahead of it.                                     *)
StepsAhead == \A r \in Requests : Ahead(r) \in 0..(5 * Size(r))
CloserToTheAnswer ==
    \A r \in Requests : /\ Handle(r) \/ EndRelay(r) => Closer(r)
                        /\ Closer(r) \/ UNCHANGED <<Stage(r), Ahead(r)>>

(* Where a step of the handler takes it.                                   *)
LEMMA HandlerMoves ==
    ASSUME TypeOK, NEW r \in Requests, Handle(r) \/ EndRelay(r)
    PROVE  \/ pc[r] = "auth" /\ pc'[r] \in {"plan", "done"}
           \/ pc[r] = "plan" /\ pc'[r] \in {"credential", "done"}
           \/ pc[r] \in InLoop /\ pc'[r] = "done"
           \/ /\ UNCHANGED <<plan, at>>
              /\ <<pc[r], pc'[r]>> \in {<<"credential", "forward">>, <<"forward", "await">>,
                                        <<"await", "headers">>, <<"headers", "relay">>}
           \/ /\ UNCHANGED plan /\ pc[r] \in InLoop \ {"relay"} /\ pc'[r] = "credential"
              /\ CanFailOver(r) /\ at'[r] = at[r] + 1
<1> DEFINE Moves ==
           \/ pc[r] = "auth" /\ pc'[r] \in {"plan", "done"}
           \/ pc[r] = "plan" /\ pc'[r] \in {"credential", "done"}
           \/ pc[r] \in InLoop /\ pc'[r] = "done"
           \/ /\ UNCHANGED <<plan, at>>
              /\ <<pc[r], pc'[r]>> \in {<<"credential", "forward">>, <<"forward", "await">>,
                                        <<"await", "headers">>, <<"headers", "relay">>}
           \/ /\ UNCHANGED plan /\ pc[r] \in InLoop \ {"relay"} /\ pc'[r] = "credential"
              /\ CanFailOver(r) /\ at'[r] = at[r] + 1
<1>1. ASSUME NEW from, NEW to \in Steps, GoTo(r, from, to) PROVE pc[r] = from /\ pc'[r] = to
  BY <1>1, GoToType
<1>2. ASSUME NEW from, NEW status, Answer(r, from, status) PROVE pc[r] = from /\ pc'[r] = "done"
  BY <1>2, <1>1 DEF Answer, Steps
<1>3. ASSUME NEW from \in {"credential", "forward", "await"}, NextOrFail(r, from), UNCHANGED plan
      PROVE  Moves
  BY <1>3, NextOrFailStep DEF InLoop
<1>4. CASE Authenticate(r)
  BY <1>4, <1>1, <1>2 DEF Authenticate, Steps
<1>5. CASE RefuseRequest(r)
  BY <1>5, <1>2 DEF RefuseRequest
<1>6. CASE Route(r)
  <2>1. GoTo(r, "plan", "credential") \/ Answer(r, "plan", 400)
    BY <1>6 DEF Route
  <2>. QED BY <2>1, <1>1, <1>2 DEF Steps
<1>7. CASE TakeCredential(r)
  BY <1>7, <1>1 DEF TakeCredential, Steps
<1>8. CASE CredentialUnavailable(r)
  BY <1>8, <1>3 DEF CredentialUnavailable
<1>9. CASE Forward(r)
  BY <1>9, <1>1 DEF Forward, Steps
<1>10. CASE ForwardFails(r)
  BY <1>10, <1>3 DEF ForwardFails
<1>11. CASE CallFails(r)
  BY <1>11, <1>3 DEF CallFails
<1>12. CASE \E status \in UpstreamStatuses : Respond(r, status)
  BY <1>12, <1>1 DEF Respond, Steps
<1>13. CASE FailOver(r)
  <2>1. pc[r] = "headers" /\ pc'[r] = "credential"
    BY <1>13, <1>1 DEF FailOver, Steps
  <2>2. UNCHANGED plan /\ CanFailOver(r) /\ at'[r] = at[r] + 1
    BY <1>13 DEF FailOver, TypeOK
  <2>. QED BY <2>1, <2>2 DEF InLoop
<1>14. CASE StartRelay(r)
  BY <1>14, <1>1 DEF StartRelay, Steps
<1>15. CASE EndRelay(r)
  BY <1>15, <1>1 DEF EndRelay, Steps, InLoop
<1>. QED
  BY <1>4, <1>5, <1>6, <1>7, <1>8, <1>9, <1>10, <1>11, <1>12, <1>13, <1>14, <1>15 DEF Handle

(* In the loop, a handler is at a member, and something is ahead of it.    *)
LEMMA AheadType ==
    ASSUME TypeOK, NEW r \in Requests, Good(r)
    PROVE  /\ Size(r) \in Nat /\ at[r] \in Nat
           /\ pc[r] \in InLoop => at[r] \in 1..Size(r) /\ Ahead(r) \in 1..(5 * Size(r))
           /\ pc[r] \notin InLoop => Ahead(r) = 0
<1>1. Size(r) \in Nat /\ at[r] \in Nat
  BY DEF TypeOK, Size
<1>2. pc[r] \in InLoop => at[r] \in 1..Size(r)
  BY DEF Good, LoopShape
<1>3. Rest(pc[r]) \in 1..5
  BY DEF Rest
<1>. QED BY <1>1, <1>2, <1>3 DEF Ahead

(* A step of the handler brings it closer.                                 *)
LEMMA HandlerCloser ==
    ASSUME TypeOK, TypeOK', NEW r \in Requests, Good(r), Good(r)', Handle(r) \/ EndRelay(r)
    PROVE  Closer(r)
<1>1. CASE pc[r] = "auth" /\ pc'[r] \in {"plan", "done"}
  BY <1>1 DEF Closer, Stage, InLoop
<1>2. CASE pc[r] = "plan" /\ pc'[r] \in {"credential", "done"}
  BY <1>2 DEF Closer, Stage, InLoop
<1>3. CASE pc[r] \in InLoop /\ pc'[r] = "done"
  BY <1>3 DEF Closer, Stage, InLoop
<1>4. Size(r) \in Nat /\ at[r] \in Nat
  BY AheadType
<1>5. CASE /\ UNCHANGED <<plan, at>>
           /\ <<pc[r], pc'[r]>> \in {<<"credential", "forward">>, <<"forward", "await">>,
                                     <<"await", "headers">>, <<"headers", "relay">>}
  <2>1. Stage(r) = 1 /\ Stage(r)' = 1
    BY <1>5 DEF Stage, InLoop
  <2>2. Size(r)' = Size(r) /\ at'[r] = at[r]
    BY <1>5 DEF Size
  <2>3. /\ Ahead(r) = 5 * (Size(r) - at[r]) + Rest(pc[r])
        /\ Ahead(r)' = 5 * (Size(r) - at[r]) + Rest(pc'[r])
    BY <1>5, <2>2 DEF Ahead, InLoop
  <2>4. Rest(pc[r]) \in Nat /\ Rest(pc'[r]) = Rest(pc[r]) - 1
    BY <1>5 DEF Rest
  <2>5. Ahead(r)' < Ahead(r)
    BY <1>4, <2>3, <2>4
  <2>. QED BY <2>1, <2>5 DEF Closer
<1>6. CASE /\ UNCHANGED plan /\ pc[r] \in InLoop \ {"relay"} /\ pc'[r] = "credential"
           /\ CanFailOver(r) /\ at'[r] = at[r] + 1
  <2>1. Stage(r) = 1 /\ Stage(r)' = 1
    BY <1>6 DEF Stage, InLoop
  <2>2. Size(r)' = Size(r)
    BY <1>6 DEF Size
  <2>3. /\ Ahead(r) = 5 * (Size(r) - at[r]) + Rest(pc[r])
        /\ Ahead(r)' = 5 * (Size(r) - (at[r] + 1)) + 5
    BY <1>6, <2>2 DEF Ahead, InLoop, Rest
  <2>4. Rest(pc[r]) \in Nat \ {0}
    BY DEF Rest
  <2>5. Ahead(r)' < Ahead(r)
    BY <1>4, <2>3, <2>4
  <2>. QED BY <2>1, <2>5 DEF Closer
<1>. QED BY <1>1, <1>2, <1>3, <1>5, <1>6, HandlerMoves

(* Between its arrival and its answer a request takes a bounded number of  *)
(* steps, whatever its pool, and whatever is revoked, disabled, renewed,   *)
(* cancelled or answered by upstreams meanwhile: the loop of handleWire    *)
(* cannot run for ever (wire.go).                                          *)
THEOREM LoopTerminates == Spec => [][CloserToTheAnswer]_vars /\ []StepsAhead
<1>1. ASSUME IInv, IInv', [Next]_vars, NEW s \in Requests
      PROVE  /\ Handle(s) \/ EndRelay(s) => Closer(s)
             /\ Closer(s) \/ UNCHANGED <<Stage(s), Ahead(s)>>
  <2>1. TypeOK /\ TypeOK' /\ Good(s) /\ Good(s)'
    BY <1>1 DEF IInv
  <2>2. Handle(s) \/ EndRelay(s) => Closer(s)
    BY <2>1, HandlerCloser
  <2>3. ASSUME UNCHANGED <<pc[s], plan[s], at[s]>> PROVE UNCHANGED <<Stage(s), Ahead(s)>>
    BY <2>3 DEF Stage, Ahead, Size
  <2>4. ASSUME NEW r \in Requests, Handle(r) \/ EndRelay(r) \/ \E in \in Inputs : Arrive(r, in)
        PROVE  Closer(s) \/ UNCHANGED <<Stage(s), Ahead(s)>>
    <3>1. CASE r # s
      BY <2>1, <2>3, <2>4, <3>1, OthersUnmoved
    <3>2. CASE r = s /\ \E in \in Inputs : Arrive(r, in)
      <4>1. pc[s] = "idle" /\ pc'[s] = "auth"
        BY <2>1, <3>2, GoToType DEF Arrive, Steps
      <4>. QED BY <4>1 DEF Closer, Stage, InLoop
    <3>. QED BY <2>2, <2>4, <3>1, <3>2
  <2>5. CASE Outside \/ UNCHANGED vars
    <3>1. UNCHANGED <<pc, plan, at>>
      BY <2>5, OutsideUnmoved
    <3>2. UNCHANGED <<pc[s], plan[s], at[s]>>
      BY <3>1
    <3>3. UNCHANGED <<Stage(s), Ahead(s)>>
      BY <3>2, <2>3
    <3>. QED BY <3>3, <2>2
  <2>. QED BY <1>1, <2>2, <2>4, <2>5 DEF Next
<1>2. IInv /\ IInv' /\ [Next]_vars => [CloserToTheAnswer]_vars
  BY <1>1 DEF CloserToTheAnswer
<1>3. IInv => StepsAhead
  <2> SUFFICES ASSUME IInv, NEW r \in Requests PROVE Ahead(r) \in 0..(5 * Size(r))
    BY DEF StepsAhead
  <2>1. TypeOK /\ Good(r)
    BY DEF IInv
  <2>. QED BY <2>1, AheadType
<1>. QED BY <1>2, <1>3, Invariance, PTL DEF Spec

===============================================================================
