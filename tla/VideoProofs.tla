------------------------------- MODULE VideoProofs ------------------------------
(***************************************************************************)
(* Proofs about Video: which catalogs keep a video's submission and its    *)
(* polls together.  A pool that names one provider does, for every number  *)
(* of its entries, strategy, surface and upstream model they give it; the  *)
(* run VideoPolls shows that a pool of two providers does not.             *)
(***************************************************************************)
EXTENDS Video, RotationProofs

(* The pools a request for a video may be resolved to.                     *)
PoolsOf(ask) == Pools(ask.model, ask.wire, ModalityHint(ask.wire, ask.header))

(* All entries of a pool of videos name one provider.                      *)
OneProvider ==
    \A ask \in Asks : OfVideos(ask) =>
        \A n \in PoolsOf(ask) :
            LET pool == Modalities(ask.model)[n].pool IN
            \A j, k \in DOMAIN pool : pool[j].ref = pool[k].ref

(* The providers that the entries of a pool of the request name.           *)
RefsOf(ask) ==
    UNION {{Modalities(ask.model)[n].pool[k].ref : k \in DOMAIN Modalities(ask.model)[n].pool} :
              n \in PoolsOf(ask)}

(* Every job was taken by a provider of the pool that it was asked from.   *)
Taken == \A j \in DOMAIN jobs :
             /\ jobs[j].ask \in Asks /\ OfVideos(jobs[j].ask)
             /\ jobs[j].taker \in RefsOf(jobs[j].ask)

VideoInv == IInv /\ jobs \in Seq([ask : Asks, taker : Refs]) /\ Taken /\ PollFindsItsJob

(* A target of a plan names the provider of an entry of the pool, whatever *)
(* the strategy and the position it picks (targetFromEntry).               *)
LEMMA TargetOfAnEntry ==
  ASSUME TypeOK, NEW ask \in Asks, Resolve(ask), NEW k \in DOMAIN last'.plan.targets
  PROVE  last'.plan.targets[k].ref \in RefsOf(ask) /\ last'.plan.targets[k].ref \in Refs
<1>1. PICK n \in PoolsOf(ask) :
        LET id  == <<ask.model, n>>
            mod == Pool(id)
            idx == rr[PoolKey(n, ask.wire)]
        IN last' = [pool |-> id,
                    plan |-> IF PlanBuilds(mod, idx)
                             THEN PlanOf(ask.model, mod, idx) ELSE NoPlan]
  BY DEF Resolve, PoolsOf
<1>2. PICK id, idx : id = <<ask.model, n>> /\ idx = rr[PoolKey(n, ask.wire)]
  OBVIOUS
<1>3. /\ id \in PoolIds /\ Pool(id).pool # <<>> /\ idx \in Nat
      /\ Pool(id) = Modalities(ask.model)[n]
  <2>1. /\ id \in PoolIds /\ Pool(id).pool # <<>>
        /\ Key(id) \in PoolKeys /\ Key(id) = PoolKey(n, ask.wire)
    BY <1>2, Reached DEF PoolsOf
  <2>. QED BY <1>2, <2>1 DEF TypeOK, Pool
<1>4. last'.plan = IF PlanBuilds(Pool(id), idx) THEN PlanOf(ask.model, Pool(id), idx) ELSE NoPlan
  BY <1>1, <1>2
<1> DEFINE entries == PickEntries(Pool(id), idx)
<1>5. PlanBuilds(Pool(id), idx)
  <2>1. NoPlan.targets = <<>> /\ DOMAIN <<>> = {}
    BY DEF NoPlan
  <2>. QED BY <1>4, <2>1
<1>6. last'.plan.targets = [j \in 1..Len(entries) |-> TargetOf(ask.model, entries[j], Pool(id).wire)]
  <2>1. PlanOf(ask.model, Pool(id), idx).targets =
          [j \in 1..Len(entries) |-> TargetOf(ask.model, entries[j], Pool(id).wire)]
    BY DEF PlanOf
  <2>. QED BY <1>4, <1>5, <2>1, Zenon
<1>7. k \in 1..Len(entries) /\ Buildable(entries[k], Pool(id).wire)
  BY <1>5, <1>6 DEF PlanBuilds
<1>8. last'.plan.targets[k].ref = entries[k].ref
  <2>1. last'.plan.targets[k] = TargetOf(ask.model, entries[k], Pool(id).wire)
    BY <1>6, <1>7, Zenon
  <2>2. \A e : TargetOf(ask.model, e, Pool(id).wire).ref = e.ref
    BY DEF TargetOf
  <2>. QED BY <2>1, <2>2, Zenon
<1>9. \E j \in DOMAIN Pool(id).pool : entries[k] = Pool(id).pool[j]
  <2>1. CASE Strategy(Pool(id)) = "round_robin"
    <3>1. entries = <<Pool(id).pool[Turn(Pool(id), idx)]>>
      BY <2>1 DEF PickEntries
    <3>2. k = 1 /\ entries[k] = Pool(id).pool[Turn(Pool(id), idx)]
      BY <1>7, <3>1
    <3>3. Turn(Pool(id), idx) \in 1..Len(Pool(id).pool)
      BY <1>3, TurnType
    <3>4. Turn(Pool(id), idx) \in DOMAIN Pool(id).pool
      BY <1>3, <3>3, PoolsAssumption
    <3>. QED BY <3>2, <3>4
  <2>2. CASE Strategy(Pool(id)) # "round_robin"
    <3>1. entries = Pool(id).pool
      BY <2>2 DEF PickEntries
    <3>2. k \in DOMAIN Pool(id).pool
      BY <1>3, <1>7, <3>1, PoolsAssumption
    <3>. QED BY <3>1, <3>2
  <2>. QED BY <2>1, <2>2
<1> HIDE DEF entries
<1>10. entries[k].ref \in Refs
  BY <1>7 DEF Buildable
<1>11. entries[k].ref \in RefsOf(ask)
  BY <1>3, <1>9 DEF RefsOf
<1>. QED BY <1>8, <1>10, <1>11

(* Where a pool names one provider, the request has at most one, whichever *)
(* pool it is resolved to: there is only one.                              *)
LEMMA OneRef ==
  ASSUME OneProvider, NEW ask \in Asks, OfVideos(ask),
         NEW a \in RefsOf(ask), NEW b \in RefsOf(ask)
  PROVE  a = b
<1>1. PICK m \in PoolsOf(ask) : \E k \in DOMAIN Modalities(ask.model)[m].pool :
                                   a = Modalities(ask.model)[m].pool[k].ref
  BY DEF RefsOf
<1>2. PICK n \in PoolsOf(ask) : \E k \in DOMAIN Modalities(ask.model)[n].pool :
                                   b = Modalities(ask.model)[n].pool[k].ref
  BY DEF RefsOf
<1>3. m = n
  BY ResolutionIsAFunction DEF PoolsOf
<1>. QED BY <1>1, <1>2, <1>3 DEF OneProvider

(* A request of Video is one of Rotation.                                  *)
LEMMA ResolveKeeps ==
  ASSUME IInv, NEW ask \in Asks, Resolve(ask) \/ Unresolved(ask)
  PROVE  IInv'
<1>1. CASE Resolve(ask)
  <2>1. PICK id : /\ ResolveEffect(id)
                  /\ last'.plan = IF PlanBuilds(Pool(id), rr[Key(id)])
                                  THEN PlanOf(ask.model, Pool(id), rr[Key(id)]) ELSE NoPlan
    BY <1>1, Resolving
  <2>2. TypeOK' /\ Counted' /\ Served'
    BY <2>1, ResolveTypes, ResolveInTurn DEF IInv
  <2>3. PlanMirrorsPool'
    BY <2>1, ResolveMirrors DEF IInv
  <2>. QED BY <2>2, <2>3 DEF IInv
<1>2. CASE Unresolved(ask)
  BY <1>2 DEF Unresolved, IInv, TypeOK, Counted, Served, PlanMirrorsPool
<1>. QED BY <1>1, <1>2

(* With one provider to a pool of videos, a poll that is answered at all   *)
(* is answered by the provider that took the job, however submissions,     *)
(* failovers and polls of all models are interleaved: what the run         *)
(* VideoPolls finds needs a pool of two providers (wire.go handleWire).    *)
THEOREM OneProviderFindsItsJob ==
  ASSUME OneProvider
  PROVE  VideoSpec => []PollFindsItsJob
<1>1. VideoInit => VideoInv
  <2> SUFFICES ASSUME VideoInit PROVE VideoInv
    OBVIOUS
  <2>1. IInv
    BY InitInvariant DEF VideoInit
  <2>2. jobs = <<>> /\ answer.found
    BY DEF VideoInit
  <2>. QED BY <2>1, <2>2 DEF VideoInv, Taken, PollFindsItsJob
<1>2. VideoInv /\ [VideoNext]_videoVars => VideoInv'
  <2> SUFFICES ASSUME VideoInv, [VideoNext]_videoVars PROVE VideoInv'
    OBVIOUS
  <2> USE DEF VideoInv
  <2>1. ASSUME NEW ask \in Asks, Submit(ask) PROVE VideoInv'
    <3>1. IInv'
      BY <2>1, ResolveKeeps DEF Submit
    <3>2. PICK k \in DOMAIN last'.plan.targets :
             jobs' = Append(jobs, [ask |-> ask, taker |-> last'.plan.targets[k].ref])
      BY <2>1 DEF Submit
    <3> DEFINE job == [ask |-> ask, taker |-> last'.plan.targets[k].ref]
    <3>3. OfVideos(ask) /\ job.taker \in RefsOf(ask) /\ job \in [ask : Asks, taker : Refs]
      BY <2>1, TargetOfAnEntry DEF Submit, IInv
    <3>4. job.ask = ask
      OBVIOUS
    <3> HIDE DEF job
    <3>5. jobs' = Append(jobs, job)
      BY <3>2 DEF job
    <3>6. jobs' \in Seq([ask : Asks, taker : Refs])
      BY <3>3, <3>5
    <3>7. Taken'
      <4>1. ASSUME NEW j \in DOMAIN jobs'
            PROVE  /\ jobs'[j].ask \in Asks /\ OfVideos(jobs'[j].ask)
                   /\ jobs'[j].taker \in RefsOf(jobs'[j].ask)
        <5>1. CASE j \in DOMAIN jobs
          <6>1. jobs'[j] = jobs[j]
            BY <3>3, <3>5, <5>1
          <6>. QED BY <5>1, <6>1 DEF Taken
        <5>2. CASE j \notin DOMAIN jobs
          <6>1. jobs'[j] = job
            BY <3>3, <3>5, <4>1, <5>2
          <6>. QED BY <3>3, <3>4, <6>1
        <5>. QED BY <5>1, <5>2
      <4>. QED BY <4>1 DEF Taken
    <3>8. PollFindsItsJob'
      BY <2>1 DEF Submit, PollFindsItsJob
    <3>. QED BY <3>1, <3>6, <3>7, <3>8
  <2>2. ASSUME NEW ask \in Asks, SubmitFails(ask) PROVE VideoInv'
    <3>1. IInv'
      BY <2>2, ResolveKeeps DEF SubmitFails
    <3>2. jobs' = jobs /\ answer' = answer
      BY <2>2 DEF SubmitFails
    <3>. QED BY <3>1, <3>2 DEF Taken, PollFindsItsJob
  <2>3. ASSUME NEW j \in DOMAIN jobs, Poll(j) PROVE VideoInv'
    <3>1. /\ jobs[j].ask \in Asks /\ OfVideos(jobs[j].ask)
          /\ jobs[j].taker \in RefsOf(jobs[j].ask) /\ Resolve(jobs[j].ask) /\ jobs' = jobs
      BY <2>3 DEF Taken, Poll
    <3>2. PICK k \in DOMAIN last'.plan.targets :
             answer' = [job |-> j, found |-> last'.plan.targets[k].ref = jobs[j].taker]
      BY <2>3 DEF Poll
    <3>3. last'.plan.targets[k].ref \in RefsOf(jobs[j].ask)
      BY <3>1, TargetOfAnEntry DEF IInv
    <3>4. last'.plan.targets[k].ref = jobs[j].taker
      BY <3>1, <3>3, OneRef
    <3>5. PollFindsItsJob'
      BY <3>2, <3>4 DEF PollFindsItsJob
    <3>6. IInv'
      BY <3>1, ResolveKeeps
    <3>. QED BY <3>1, <3>5, <3>6 DEF Taken
  <2>4. CASE UNCHANGED videoVars
    <3>1. UNCHANGED <<rr, picks, last, jobs, answer>>
      BY <2>4 DEF videoVars, vars
    <3>2. IInv'
      BY <3>1 DEF IInv, TypeOK, Counted, Served, PlanMirrorsPool
    <3>. QED BY <3>1, <3>2 DEF Taken, PollFindsItsJob
  <2>. QED BY <2>1, <2>2, <2>3, <2>4 DEF VideoNext
<1>3. VideoInv => PollFindsItsJob
  BY DEF VideoInv
<1>. QED BY <1>1, <1>2, <1>3, PTL DEF VideoSpec

===============================================================================
