----------------------------- MODULE RotationProofs -----------------------------
(***************************************************************************)
(* Proofs about Rotation, for every catalog document and every order of    *)
(* requests: a pool with a counter of its own serves its members in turn,  *)
(* and a plan mirrors the pool that it was resolved from.                  *)
(***************************************************************************)
EXTENDS Rotation, FiniteSetTheorems, TLAPS

(* Quotient and remainder.                                                 *)
LEMMA Euclid ==
  ASSUME NEW L \in Nat \ {0}, NEW i \in Nat
  PROVE  \E q \in Nat, r \in 0..(L - 1) : r = i % L /\ i = L * q + r
<1> DEFINE r == i % L  q == i \div L
<1>1. i = L * q + r /\ r \in 0..(L-1) /\ q \in Nat
  OBVIOUS
<1>. QED BY <1>1

(* There is one way to write a number with a remainder.                    *)
LEMMA Remainder ==
  ASSUME NEW L \in Nat \ {0}, NEW q \in Nat, NEW r \in 0..(L - 1)
  PROVE  (L * q + r) % L = r
<1> DEFINE x == L * q + r
<1>0. x \in Nat
  <2>1. L * q \in Nat
    OBVIOUS
  <2>. QED BY <2>1
<1> HIDE DEF x
<1>1. PICK p \in Nat, s \in 0..(L - 1) : s = x % L /\ x = L * p + s
  BY <1>0, Euclid
<1>2. L * q + r = L * p + s
  BY <1>1 DEF x
<1>3. CASE p = q
  <2>1. s = r
    BY <1>2, <1>3
  <2>. QED BY <2>1, <1>1 DEF x
<1>4. CASE p > q
  <2>1. PICK d \in Nat : p = q + 1 + d
    <3>1. p - q - 1 \in Nat /\ p = q + 1 + (p - q - 1)
      BY <1>4
    <3>. QED BY <3>1
  <2>2. L * p = L * q + L + L * d /\ L * d \in Nat
    BY <2>1
  <2>. QED BY <1>2, <2>2
<1>5. CASE p < q
  <2>1. PICK d \in Nat : q = p + 1 + d
    <3>1. q - p - 1 \in Nat /\ q = p + 1 + (q - p - 1)
      BY <1>5
    <3>. QED BY <3>1
  <2>2. L * q = L * p + L + L * d /\ L * d \in Nat
    BY <2>1
  <2>. QED BY <1>2, <2>2
<1>. QED BY <1>3, <1>4, <1>5

(* A turn follows from the turn before.                                    *)
LEMMA NextRemainder ==
  ASSUME NEW L \in Nat \ {0}, NEW i \in Nat
  PROVE  ((i % L) + 1) % L = (i + 1) % L
<1>1. PICK q \in Nat, r \in 0..(L-1) : r = i % L /\ i = L * q + r
  BY Euclid
<1>2. CASE r + 1 < L
  <2>1. i + 1 = L * q + (r + 1) /\ r + 1 \in 0..(L-1)
    BY <1>1, <1>2
  <2>2. (L * q + (r + 1)) % L = r + 1 /\ (L * 0 + (r + 1)) % L = r + 1
     BY <2>1, Remainder
  <2>3. L * 0 + (r + 1) = r + 1
     OBVIOUS
  <2>. QED BY <2>1, <2>2, <2>3, <1>1
<1>3. CASE r + 1 = L
  <2>1. i + 1 = L * (q + 1) + 0 /\ r + 1 = L * 1 + 0 /\ q + 1 \in Nat /\ 0 \in 0..(L-1)
    BY <1>1, <1>3
  <2>2. (L * (q + 1) + 0) % L = 0 /\ (L * 1 + 0) % L = 0
     BY <2>1, Remainder
  <2>. QED BY <2>1, <2>2, <1>1
<1>. QED BY <1>1, <1>2, <1>3

-------------------------------------------------------------------------------
(* The counter of a pool that shares it with no other has counted its      *)
(* picks, and each was the member whose turn it was.                       *)
Key(id) == PoolKey(id[2], Pool(id).wire)
Rotates(id) == Strategy(Pool(id)) = "round_robin"
Counted == \A id \in PoolIds : Alone(id) /\ Rotates(id) => rr[Key(id)] = Len(picks[id])
Served ==
    \A id \in PoolIds :
        /\ picks[id] # <<>> => Rotates(id) /\ Pool(id).pool # <<>>
        /\ Alone(id) => \A i \in 1..Len(picks[id]) : picks[id][i] = Turn(Pool(id), i - 1)

IInv == TypeOK /\ Counted /\ Served /\ PlanMirrorsPool

(* What resolution reaches is a pool of the document, on the wire asked.   *)
LEMMA Reached ==
  ASSUME NEW m, NEW w, NEW h, NEW n \in Pools(m, w, h)
  PROVE  /\ <<m, n>> \in PoolIds /\ Pool(<<m, n>>) = Modalities(m)[n]
         /\ Pool(<<m, n>>).wire = w /\ Pool(<<m, n>>).pool # <<>>
         /\ PoolKey(n, w) \in PoolKeys /\ PoolKey(n, w) = Key(<<m, n>>)
<1>1. /\ m \in ModelIds /\ n \in Picked(Candidates(m, w), h)
      /\ Modalities(m)[n].pool # <<>>
  BY DEF Pools
<1>2. Picked(Candidates(m, w), h) \subseteq Candidates(m, w)
  BY DEF Picked
<1>3. n \in DOMAIN Modalities(m) /\ Modalities(m)[n].wire = w
  BY <1>1, <1>2 DEF Candidates
<1>4. <<m, n>> \in PoolIds
  BY <1>1, <1>3 DEF PoolIds
<1>5. Pool(<<m, n>>) = Modalities(m)[n]
  BY DEF Pool
<1>6. Key(<<m, n>>) = PoolKey(n, w)
  BY <1>3, <1>5 DEF Key
<1>7. Key(<<m, n>>) \in PoolKeys
  BY <1>4 DEF PoolKeys, Key
<1>. QED BY <1>1, <1>3, <1>4, <1>5, <1>6, <1>7

(* A turn is a position of the pool.                                       *)
LEMMA TurnType ==
  ASSUME NEW id \in PoolIds, Pool(id).pool # <<>>, NEW idx \in Nat
  PROVE  /\ Len(Pool(id).pool) \in Nat \ {0}
         /\ Turn(Pool(id), idx) \in 1..Len(Pool(id).pool)
<1> DEFINE L == Len(Pool(id).pool)
<1>1. L \in Nat \ {0}
  BY PoolsAssumption
<1>2. Turn(Pool(id), idx) = (idx % L) + 1
  BY DEF Turn
<1> HIDE DEF L
<1>3. idx % L \in 0..(L - 1)
  BY <1>1
<1>4. (idx % L) + 1 \in 1..L
  BY <1>1, <1>3
<1>. QED BY <1>1, <1>2, <1>4 DEF L

(* What Resolve does to the counters and the history.                      *)
ResolveEffect(id) ==
    /\ id \in PoolIds /\ Pool(id).pool # <<>> /\ Key(id) \in PoolKeys
    /\ Rotates(id) =>
          /\ rr' = [rr EXCEPT ![Key(id)] = @ + 1]
          /\ picks' = [picks EXCEPT ![id] = Append(@, Turn(Pool(id), rr[Key(id)]))]
    /\ ~Rotates(id) => rr' = rr /\ picks' = picks
    /\ last'.pool = id

(* A request that resolves advances one pool's counter and plans from it.  *)
LEMMA Resolving ==
  ASSUME NEW ask \in Asks, Resolve(ask)
  PROVE  \E id : /\ ResolveEffect(id)
                 /\ last'.plan = IF PlanBuilds(Pool(id), rr[Key(id)])
                                 THEN PlanOf(ask.model, Pool(id), rr[Key(id)]) ELSE NoPlan
<1>1. PICK n \in Pools(ask.model, ask.wire, ModalityHint(ask.wire, ask.header)) :
        LET id  == <<ask.model, n>>
            mod == Pool(id)
            idx == rr[PoolKey(n, ask.wire)]
        IN /\ rr' = Advanced(rr, n, mod)
           /\ picks' = IF Strategy(mod) = "round_robin"
                       THEN [picks EXCEPT ![id] = Append(@, Turn(mod, idx))]
                       ELSE picks
           /\ last' = [pool |-> id,
                       plan |-> IF PlanBuilds(mod, idx)
                                THEN PlanOf(ask.model, mod, idx) ELSE NoPlan]
  BY DEF Resolve
<1>2. PICK id : id = <<ask.model, n>>
  OBVIOUS
<1>3. /\ id \in PoolIds /\ Pool(id).pool # <<>> /\ Pool(id).wire = ask.wire
      /\ Key(id) \in PoolKeys /\ Key(id) = PoolKey(n, ask.wire)
  BY <1>2, Reached
<1>4. /\ rr' = Advanced(rr, n, Pool(id))
      /\ picks' = IF Rotates(id) THEN [picks EXCEPT ![id] = Append(@, Turn(Pool(id), rr[Key(id)]))]
                  ELSE picks
      /\ last' = [pool |-> id,
                  plan |-> IF PlanBuilds(Pool(id), rr[Key(id)])
                           THEN PlanOf(ask.model, Pool(id), rr[Key(id)]) ELSE NoPlan]
  BY <1>1, <1>2, <1>3 DEF Rotates
<1>5. rr' = IF Rotates(id) THEN [rr EXCEPT ![Key(id)] = @ + 1] ELSE rr
  BY <1>3, <1>4 DEF Advanced, Rotates
<1>. QED BY <1>3, <1>4, <1>5 DEF ResolveEffect

(* It keeps the types.                                                     *)
LEMMA ResolveTypes ==
  ASSUME TypeOK, NEW id, ResolveEffect(id)
  PROVE  TypeOK'
<1>1. rr[Key(id)] \in Nat
  BY DEF TypeOK, ResolveEffect
<1>2. Turn(Pool(id), rr[Key(id)]) \in Nat \ {0}
  <2>1. /\ Len(Pool(id).pool) \in Nat \ {0}
        /\ Turn(Pool(id), rr[Key(id)]) \in 1..Len(Pool(id).pool)
    BY <1>1, TurnType DEF ResolveEffect
  <2>. QED BY <2>1
<1>3. rr' \in [PoolKeys -> Nat]
  BY DEF TypeOK, ResolveEffect
<1>4. picks' \in [PoolIds -> Seq(Nat \ {0})]
  <2>1. picks[id] \in Seq(Nat \ {0})
    BY DEF TypeOK, ResolveEffect
  <2>2. Append(picks[id], Turn(Pool(id), rr[Key(id)])) \in Seq(Nat \ {0})
    BY <1>2, <2>1
  <2>. QED BY <2>2 DEF TypeOK, ResolveEffect
<1>5. last'.pool \in PoolIds \cup {<<>>}
  BY DEF ResolveEffect
<1>. QED BY <1>3, <1>4, <1>5 DEF TypeOK

(* A pool alone with its counter is served by its own picks only.          *)
LEMMA ResolveInTurn ==
  ASSUME TypeOK, Counted, Served, NEW id, ResolveEffect(id)
  PROVE  Counted' /\ Served'
<1>1. /\ id \in PoolIds /\ Pool(id).pool # <<>> /\ Key(id) \in PoolKeys
      /\ rr \in [PoolKeys -> Nat] /\ picks \in [PoolIds -> Seq(Nat \ {0})]
      /\ picks[id] \in Seq(Nat \ {0}) /\ rr[Key(id)] \in Nat
  BY DEF TypeOK, ResolveEffect
<1>2. CASE ~Rotates(id)
  BY <1>2 DEF ResolveEffect, Counted, Served
<1>3. CASE Rotates(id)
  <2> DEFINE turn == Turn(Pool(id), rr[Key(id)])
             longer == Append(picks[id], turn)
  <2>1. turn \in Nat \ {0}
    <3>1. /\ Len(Pool(id).pool) \in Nat \ {0}
          /\ turn \in 1..Len(Pool(id).pool)
      BY <1>1, TurnType
    <3>. QED BY <3>1
  <2>2. /\ rr' = [rr EXCEPT ![Key(id)] = @ + 1]
        /\ picks' = [picks EXCEPT ![id] = longer]
    BY <1>3 DEF ResolveEffect
  <2>3. /\ Len(longer) = Len(picks[id]) + 1 /\ Len(picks[id]) \in Nat
        /\ longer # <<>> /\ longer[Len(picks[id]) + 1] = turn
        /\ \A i \in 1..Len(picks[id]) : longer[i] = picks[id][i]
    <3> HIDE DEF turn
    <3>1. longer \in Seq(Nat \ {0}) /\ Len(longer) = Len(picks[id]) + 1 /\ Len(picks[id]) \in Nat
      BY <1>1, <2>1
    <3>2. longer[Len(picks[id]) + 1] = turn
      BY <1>1, <2>1
    <3>3. \A i \in 1..Len(picks[id]) : longer[i] = picks[id][i]
      BY <1>1, <2>1
    <3>4. longer # <<>>
      <4> HIDE DEF longer
      <4>. QED BY <3>1
    <3>. QED BY <3>1, <3>2, <3>3, <3>4
  <2>4. picks'[id] = longer /\ rr'[Key(id)] = rr[Key(id)] + 1
    BY <1>1, <2>2
  <2>5. \A other \in PoolIds \ {id} : picks'[other] = picks[other]
    BY <1>1, <2>2
  <2> HIDE DEF longer
  <2>6. \A other \in PoolIds \ {id} : Alone(other) => Key(other) # Key(id) \/ ~Rotates(other)
    BY <1>1, <1>3 DEF Alone, Key, Rotates
  <2>7. \A other \in PoolIds : Key(other) \in PoolKeys
    BY DEF PoolKeys, Key
  <2>8. Counted'
    <3>1. ASSUME NEW other \in PoolIds, Alone(other), Rotates(other)
          PROVE  rr'[Key(other)] = Len(picks'[other])
      <4>1. rr[Key(other)] = Len(picks[other])
        BY <3>1 DEF Counted
      <4>2. CASE other = id
        BY <4>1, <4>2, <2>3, <2>4
      <4>3. CASE other # id
        BY <4>1, <4>3, <3>1, <1>1, <2>2, <2>5, <2>6, <2>7
      <4>. QED BY <4>2, <4>3
    <3>. QED BY <3>1 DEF Counted
  <2>9. Served'
    <3>1. ASSUME NEW other \in PoolIds
          PROVE  /\ picks'[other] # <<>> => Rotates(other) /\ Pool(other).pool # <<>>
                 /\ Alone(other) => \A i \in 1..Len(picks'[other]) :
                                       picks'[other][i] = Turn(Pool(other), i - 1)
      <4>1. CASE other # id
        BY <4>1, <2>5 DEF Served
      <4>2. CASE other = id
        <5>1. ASSUME Alone(id), NEW i \in 1..Len(longer) PROVE longer[i] = Turn(Pool(id), i - 1)
          <6>1. CASE i \in 1..Len(picks[id])
            BY <6>1, <5>1, <1>1, <2>3 DEF Served
          <6>2. CASE i = Len(picks[id]) + 1
            <7>1. rr[Key(id)] = i - 1
              BY <6>2, <5>1, <1>1, <1>3, <2>3 DEF Counted
            <7>. QED BY <7>1, <6>2, <2>3
          <6>. QED BY <6>1, <6>2, <5>1, <2>3
        <5>. QED BY <5>1, <4>2, <1>1, <1>3, <2>4
      <4>. QED BY <4>1, <4>2
    <3>. QED BY <3>1 DEF Served
  <2>. QED BY <2>8, <2>9
<1>. QED BY <1>2, <1>3

-------------------------------------------------------------------------------
(* Plans.                                                                  *)

(* A protocol that serves a wire has a handler for it, but for one.        *)
LEMMA ServedOrCompat ==
  ASSUME NEW protocol, NEW wire, ProtocolMatchesWire(protocol, wire)
  PROVE  /\ protocol # Omitted
         /\ \/ <<HandlerKind(wire), protocol>> \in ProtocolHandlers
            \/ protocol = "openai-compat-chat"
  BY DEF ProtocolMatchesWire, HandlerKind, ProtocolHandlers, Omitted

(* A surface of the compatibility protocol is one that the doctor reports. *)
LEMMA CompatIsUnknown == "openai-compat-chat" \notin KnownProtocols
  BY DEF KnownProtocols, ProtocolHandlers

(* What an entry that pins no surface gets.                                *)
LEMMA Unpinned ==
  ASSUME NEW r \in Refs, NEW e, e.surface = Omitted, NEW w,
         NEW k \in SurfaceFor(Document.providers[r], e, w),
         NEW s, s = Surfaces(Document.providers[r])[k]
  PROVE  /\ s.adapter = Omitted /\ ProtocolMatchesWire(s.protocol, w)
         /\ <<HandlerKind(w), s.protocol>> \in ProtocolHandlers \/ s.protocol \in Missing
<1> DEFINE ss == Surfaces(Document.providers[r])
<1>1. k \in 1..Len(ss) /\ Matches(ss[k], e, w)
  BY DEF SurfaceFor
<1>2. s.adapter = Omitted /\ ProtocolMatchesWire(s.protocol, w)
  BY <1>1 DEF Matches
<1>3. k \in DOMAIN ss
  <2>1. Document.providers[r].surfaces \in Seq([id : STRING, protocol : STRING, adapter : STRING])
    BY PoolsAssumption
  <2> DEFINE S == [id : STRING, protocol : STRING, adapter : STRING]
             flat == Document.providers[r].surfaces
             one == [id |-> "default", protocol |-> Document.providers[r].protocol, adapter |-> Omitted]
  <2>2. DOMAIN ss = 1..Len(ss)
    <3>1. ss = <<one>> \/ ss = flat
      BY DEF Surfaces
    <3>2. flat \in Seq(S)
      BY <2>1
    <3> HIDE DEF one, ss, S, flat
    <3>3. DOMAIN flat = 1..Len(flat) /\ DOMAIN <<one>> = 1..Len(<<one>>)
      BY <3>2
    <3>. QED BY <3>1, <3>3
  <2>. QED BY <1>1, <2>2
<1>4. s \in AllSurfaces
  BY <1>3 DEF AllSurfaces
<1>5. s.protocol # Omitted
  BY <1>2, ServedOrCompat
<1>6. s.protocol \in NamedProtocols
  BY <1>4, <1>5 DEF NamedProtocols
<1>. QED BY <1>2, <1>6, ServedOrCompat, CompatIsUnknown DEF Missing

Mirrors(t, e, wire) ==
    /\ t.ref = e.ref
    /\ t.profile = Document.providers[e.ref].profile
    /\ e.model # Omitted => t.model = e.model
    /\ e.surface = Omitted =>
          /\ t.adapter = Omitted
          /\ ProtocolMatchesWire(t.protocol, wire)
          /\ Registered(t, wire) \/ t.protocol \in Missing

(* The target of an entry mirrors the entry.                               *)
LEMMA TargetMirrors ==
  ASSUME NEW model, NEW e, NEW wire, Buildable(e, wire)
  PROVE  Mirrors(TargetOf(model, e, wire), e, wire)
<1> DEFINE p == Document.providers[e.ref]
           k == CHOOSE j \in SurfaceFor(p, e, wire) : TRUE
           s == Surfaces(p)[k]
           t == TargetOf(model, e, wire)
<1>1. e.ref \in Refs /\ k \in SurfaceFor(p, e, wire)
  BY DEF Buildable
<1>2. /\ t.ref = e.ref /\ t.profile = p.profile
      /\ t.protocol = s.protocol /\ t.adapter = s.adapter
      /\ e.model # Omitted => t.model = e.model
  BY DEF TargetOf
<1>3. ASSUME e.surface = Omitted
      PROVE  /\ s.adapter = Omitted /\ ProtocolMatchesWire(s.protocol, wire)
             /\ <<HandlerKind(wire), s.protocol>> \in ProtocolHandlers \/ s.protocol \in Missing
  BY <1>1, <1>3, Unpinned
<1> HIDE DEF t, s, k, p
<1>4. ASSUME e.surface = Omitted PROVE Registered(t, wire) \/ t.protocol \in Missing
  BY <1>2, <1>3, <1>4 DEF Registered
<1>5. Mirrors(t, e, wire)
  BY <1>2, <1>3, <1>4 DEF Mirrors, p
<1>. QED BY <1>5 DEF t

(* The plan of a pool, when it builds.                                     *)
LEMMA PlanMirrors ==
  ASSUME NEW id \in PoolIds, Pool(id).pool # <<>>, NEW idx \in Nat, NEW model,
         PlanBuilds(Pool(id), idx), NEW ts, ts = PlanOf(model, Pool(id), idx).targets
  PROVE  /\ Strategy(Pool(id)) = "failover" =>
               /\ Len(ts) = Len(Pool(id).pool)
               /\ \A k \in DOMAIN ts : Mirrors(ts[k], Pool(id).pool[k], Pool(id).wire)
         /\ Strategy(Pool(id)) = "round_robin" =>
               /\ Len(ts) = 1
               /\ Mirrors(ts[1], Pool(id).pool[Turn(Pool(id), idx)], Pool(id).wire)
<1> DEFINE entries == PickEntries(Pool(id), idx)
<1>1. ts = [k \in 1..Len(entries) |-> TargetOf(model, entries[k], Pool(id).wire)]
  BY DEF PlanOf
<1>2. \A k \in 1..Len(entries) : Buildable(entries[k], Pool(id).wire)
  BY DEF PlanBuilds
<1>3. Len(entries) \in Nat
  BY PoolsAssumption DEF PickEntries
<1> HIDE DEF entries
<1>4. DOMAIN ts = 1..Len(entries) /\ Len(ts) = Len(entries)
  BY <1>1, <1>3
<1>5. \A k \in 1..Len(entries) : Mirrors(ts[k], entries[k], Pool(id).wire)
  BY <1>1, <1>2, TargetMirrors
<1>6. CASE Strategy(Pool(id)) = "failover"
  <2>1. entries = Pool(id).pool
    BY <1>6 DEF entries, PickEntries
  <2>. QED BY <2>1, <1>4, <1>5, <1>6
<1>7. CASE Strategy(Pool(id)) = "round_robin"
  <2>1. entries = <<Pool(id).pool[Turn(Pool(id), idx)]>>
    BY <1>7 DEF entries, PickEntries
  <2>2. Len(entries) = 1 /\ entries[1] = Pool(id).pool[Turn(Pool(id), idx)]
    BY <2>1
  <2>. QED BY <2>2, <1>4, <1>5, <1>7
<1>. QED BY <1>6, <1>7

(* A plan is described by its targets, for each of the strategies.         *)
LEMMA MirrorsPool ==
  ASSUME NEW plan, NEW id, NEW served,
         LET ts == plan.targets IN
         /\ Strategy(Pool(id)) = "failover" =>
               /\ Len(ts) = Len(Pool(id).pool)
               /\ \A k \in DOMAIN ts : Mirrors(ts[k], Pool(id).pool[k], Pool(id).wire)
         /\ Strategy(Pool(id)) = "round_robin" =>
               /\ Len(ts) = 1
               /\ Mirrors(ts[1], Pool(id).pool[served], Pool(id).wire),
         last'.plan = plan, last'.pool = id,
         Rotates(id) => picks'[id][Len(picks'[id])] = served
  PROVE  PlanMirrorsPool'
  BY DEF PlanMirrorsPool, Mirrors, Rotates

(* The plan of a request mirrors the pool it came from.                    *)
LEMMA ResolveMirrors ==
  ASSUME TypeOK, NEW model, NEW id, ResolveEffect(id),
         last'.plan = IF PlanBuilds(Pool(id), rr[Key(id)])
                      THEN PlanOf(model, Pool(id), rr[Key(id)]) ELSE NoPlan
  PROVE  PlanMirrorsPool'
<1>1. /\ id \in PoolIds /\ Pool(id).pool # <<>> /\ rr[Key(id)] \in Nat /\ last'.pool = id
      /\ picks \in [PoolIds -> Seq(Nat \ {0})] /\ picks[id] \in Seq(Nat \ {0})
  BY DEF TypeOK, ResolveEffect
<1>2. CASE ~PlanBuilds(Pool(id), rr[Key(id)])
  BY <1>2 DEF PlanMirrorsPool
<1>3. CASE PlanBuilds(Pool(id), rr[Key(id)])
  <2> DEFINE plan == PlanOf(model, Pool(id), rr[Key(id)])
             turn == Turn(Pool(id), rr[Key(id)])
  <2>1. last'.plan = plan
    BY <1>3
  <2>2. turn \in Nat \ {0}
    <3>1. /\ Len(Pool(id).pool) \in Nat \ {0}
          /\ turn \in 1..Len(Pool(id).pool)
      BY <1>1, TurnType
    <3>. QED BY <3>1
  <2>3. Rotates(id) => picks'[id] = Append(picks[id], turn)
    BY <1>1 DEF ResolveEffect
  <2>4. LET ts == plan.targets IN
        /\ Strategy(Pool(id)) = "failover" =>
              /\ Len(ts) = Len(Pool(id).pool)
              /\ \A k \in DOMAIN ts : Mirrors(ts[k], Pool(id).pool[k], Pool(id).wire)
        /\ Strategy(Pool(id)) = "round_robin" =>
              /\ Len(ts) = 1
              /\ Mirrors(ts[1], Pool(id).pool[turn], Pool(id).wire)
    BY <1>1, <1>3, PlanMirrors
  <2> HIDE DEF plan, turn
  <2>5. Rotates(id) => picks'[id][Len(picks'[id])] = turn
    BY <1>1, <2>2, <2>3
  <2>. QED BY <1>1, <2>1, <2>4, <2>5, MirrorsPool
<1>. QED BY <1>2, <1>3

-------------------------------------------------------------------------------
(* Nothing has been served at the start, and no counter has advanced.      *)
LEMMA InitInvariant == ASSUME Init PROVE IInv
<1>1. TypeOK
  <2>1. <<>> \in Seq(Nat \ {0})
    OBVIOUS
  <2>. QED BY <2>1 DEF Init, TypeOK
<1>2. Counted
  <2>1. \A id \in PoolIds : Key(id) \in PoolKeys
    BY DEF PoolKeys, Key
  <2>. QED BY <2>1 DEF Init, Counted
<1>3. Served /\ PlanMirrorsPool
  BY DEF Init, Served, PlanMirrorsPool
<1>. QED BY <1>1, <1>2, <1>3 DEF IInv

(* The strengthening is an invariant.                                      *)
THEOREM Invariance == Spec => []IInv
<1>1. IInv /\ [Next]_vars => IInv'
  <2> SUFFICES ASSUME IInv, [Next]_vars PROVE IInv'
    OBVIOUS
  <2>1. ASSUME NEW ask \in Asks, Resolve(ask) PROVE IInv'
    <3>1. PICK id : /\ ResolveEffect(id)
                    /\ last'.plan = IF PlanBuilds(Pool(id), rr[Key(id)])
                                    THEN PlanOf(ask.model, Pool(id), rr[Key(id)]) ELSE NoPlan
      BY <2>1, Resolving
    <3>2. TypeOK' /\ Counted' /\ Served'
      BY <3>1, ResolveTypes, ResolveInTurn DEF IInv
    <3>3. PlanMirrorsPool'
      BY <3>1, ResolveMirrors DEF IInv
    <3>. QED BY <3>2, <3>3 DEF IInv
  <2>2. ASSUME NEW ask \in Asks, Unresolved(ask) PROVE IInv'
    BY <2>2 DEF Unresolved, IInv, TypeOK, Counted, Served, PlanMirrorsPool
  <2>3. CASE UNCHANGED vars
    BY <2>3 DEF vars, IInv, TypeOK, Counted, Served, PlanMirrorsPool
  <2>. QED BY <2>1, <2>2, <2>3 DEF Next
<1>. QED BY InitInvariant, <1>1, PTL DEF Spec

(* Counters are natural numbers, and picks are positions.                  *)
THEOREM TypeCorrect == Spec => []TypeOK
  BY Invariance, PTL DEF IInv

(* A pool that has its counter to itself serves its members in turn.       *)
THEOREM AloneAlwaysInRotation == Spec => []AloneInRotation
<1>1. IInv => AloneInRotation
  <2> SUFFICES ASSUME IInv, NEW id \in PoolIds, Alone(id), NEW i \in 1..(Len(picks[id]) - 1)
               PROVE  picks[id][i + 1] = (picks[id][i] % Len(Pool(id).pool)) + 1
    BY DEF AloneInRotation, InRotation
  <2>1. picks[id] \in Seq(Nat \ {0})
    BY DEF IInv, TypeOK
  <2>2. i \in 1..Len(picks[id]) /\ i + 1 \in 1..Len(picks[id]) /\ picks[id] # <<>> /\ i - 1 \in Nat
    BY <2>1
  <2>3. Len(Pool(id).pool) \in Nat \ {0}
    BY <2>2, TurnType DEF IInv, Served
  <2> DEFINE L == Len(Pool(id).pool)
  <2>4. picks[id][i] = ((i - 1) % L) + 1 /\ picks[id][i + 1] = (((i + 1) - 1) % L) + 1
    BY <2>2 DEF IInv, Served, Turn
  <2>5. ((((i - 1) % L) + 1) % L) = ((i - 1) + 1) % L
    <3> HIDE DEF L
    <3>1. L \in Nat \ {0}
      BY <2>3 DEF L
    <3>. QED BY <2>2, <3>1, NextRemainder
  <2>6. (i - 1) + 1 = i /\ (i + 1) - 1 = i
    BY <2>2
  <2> HIDE DEF L
  <2>7. picks[id][i + 1] = (picks[id][i] % L) + 1
    BY <2>4, <2>5, <2>6
  <2>. QED BY <2>7 DEF L
<1>. QED BY Invariance, <1>1, PTL

(* A plan mirrors the pool it was resolved from, and the tables of the     *)
(* catalog, the adapters and the doctor agree, for every document.         *)
THEOREM PlanAlwaysMirrorsPool == Spec => []PlanMirrorsPool
  BY Invariance, PTL DEF IInv

-------------------------------------------------------------------------------
(* What is behind the violation of EveryPoolInRotation: if no two round    *)
(* robin pools have the same modality key and wire, every pool is served   *)
(* in turn.  The shared counter is the only cause (catalog.go poolKey).    *)
THEOREM DistinctKeysRotate ==
  ASSUME \A id \in PoolIds : Rotates(id) => Alone(id)
  PROVE  Spec => []EveryPoolInRotation
<1>1. IInv /\ AloneInRotation => EveryPoolInRotation
  <2> SUFFICES ASSUME IInv, AloneInRotation, NEW id \in PoolIds PROVE InRotation(id)
    BY DEF EveryPoolInRotation
  <2>1. CASE Rotates(id)
    BY <2>1 DEF AloneInRotation
  <2>2. CASE ~Rotates(id)
    <3>1. picks[id] = <<>>
      BY <2>2 DEF IInv, Served
    <3>2. 1..(Len(picks[id]) - 1) = {}
      BY <3>1
    <3>. QED BY <3>2 DEF InRotation
  <2>. QED BY <2>1, <2>2
<1>. QED BY Invariance, AloneAlwaysInRotation, <1>1, PTL

-------------------------------------------------------------------------------
(* How often the member at a position of a pool has been served.           *)
TurnsOf(id, k) == {i \in 1..Len(picks[id]) : picks[id][i] = k}
Rounds(id) == Len(picks[id]) \div Len(Pool(id).pool)
Left(id)   == Len(picks[id]) % Len(Pool(id).pool)

(* Every member once in each round, and those the last round has come to.  *)
Tally(id) ==
    \A k \in 1..Len(Pool(id).pool) :
        /\ IsFiniteSet(TurnsOf(id, k))
        /\ Cardinality(TurnsOf(id, k)) = IF k <= Left(id) THEN Rounds(id) + 1 ELSE Rounds(id)
Tallied == \A id \in PoolIds : Alone(id) /\ Rotates(id) /\ Pool(id).pool # <<>> => Tally(id)

(* No member of a pool with a counter of its own is ever more than one     *)
(* request ahead of another (docs/catalog.md, round_robin "Picks one       *)
(* provider per request in rotation").                                     *)
EvenlyServed ==
    \A id \in PoolIds : Alone(id) /\ Rotates(id) =>
        \A j, k \in 1..Len(Pool(id).pool) :
            Cardinality(TurnsOf(id, j)) <= Cardinality(TurnsOf(id, k)) + 1

(* One more: the round goes on, or is complete.                            *)
LEMMA NextRound ==
  ASSUME NEW L \in Nat \ {0}, NEW n \in Nat
  PROVE  \/ /\ (n % L) + 1 < L
            /\ (n + 1) % L = (n % L) + 1 /\ (n + 1) \div L = n \div L
         \/ /\ (n % L) + 1 = L
            /\ (n + 1) % L = 0 /\ (n + 1) \div L = (n \div L) + 1
<1> DEFINE q == n \div L  r == n % L
<1>1. n = L * q + r /\ r \in 0..(L-1) /\ q \in Nat
  OBVIOUS
<1>2. (n + 1) = L * ((n + 1) \div L) + ((n + 1) % L) /\ (n + 1) \div L \in Nat
  OBVIOUS
<1>3. (r + 1) % L = (n + 1) % L
  BY NextRemainder
<1> HIDE DEF q, r
<1>4. CASE r + 1 < L
  <2>1. (L * q + (r + 1)) % L = r + 1
    BY <1>1, <1>4, Remainder
  <2>2. L * q + (r + 1) = n + 1
    BY <1>1
  <2>3. (n + 1) % L = r + 1
    BY <2>1, <2>2
  <2>4. L * ((n + 1) \div L) = L * q
    BY <1>1, <1>2, <2>3
  <2>5. (n + 1) \div L = q
    BY <2>4, <1>1, <1>2
  <2>. QED BY <1>4, <2>3, <2>5 DEF q, r
<1>5. CASE r + 1 = L
  <2>1. (L * (q + 1) + 0) % L = 0
    BY <1>1, Remainder
  <2>2. L * (q + 1) + 0 = n + 1
    BY <1>1, <1>5
  <2>3. (n + 1) % L = 0
    BY <2>1, <2>2
  <2>4. L * ((n + 1) \div L) = L * (q + 1)
    BY <1>1, <1>2, <1>5, <2>3
  <2>5. (n + 1) \div L = q + 1
    BY <2>4, <1>1, <1>2
  <2>. QED BY <1>5, <2>3, <2>5 DEF q, r
<1>. QED BY <1>1, <1>4, <1>5

(* A pick adds one turn of the member picked, and none of any other.       *)
LEMMA PickTurns ==
  ASSUME TypeOK, NEW id \in PoolIds, NEW turn \in Nat \ {0}, NEW k,
         picks'[id] = Append(picks[id], turn)
  PROVE  /\ Len(picks'[id]) = Len(picks[id]) + 1 /\ Len(picks[id]) \in Nat
         /\ TurnsOf(id, k)' = IF k = turn THEN TurnsOf(id, k) \cup {Len(picks[id]) + 1}
                                          ELSE TurnsOf(id, k)
         /\ Len(picks[id]) + 1 \notin TurnsOf(id, k)
<1> DEFINE s == picks[id]  t == picks'[id]  n == Len(s)
<1>1. s \in Seq(Nat \ {0})
  BY DEF TypeOK
<1>2. t = Append(s, turn)
  OBVIOUS
<1> HIDE DEF s, t
<1>3. n \in Nat /\ Len(t) = n + 1 /\ t[n + 1] = turn
  BY <1>1, <1>2
<1>4. \A i \in 1..n : t[i] = s[i]
  BY <1>1, <1>2
<1>5. 1..(n + 1) = 1..n \cup {n + 1} /\ n + 1 \notin 1..n
  BY <1>3
<1>6. TurnsOf(id, k) = {i \in 1..n : s[i] = k}
  BY DEF TurnsOf, s
<1>7. TurnsOf(id, k)' = {i \in 1..(n + 1) : t[i] = k}
  BY <1>3 DEF TurnsOf, t
<1> HIDE DEF n
<1>8. n + 1 \notin TurnsOf(id, k)
  BY <1>5, <1>6
<1>9. TurnsOf(id, k)' = IF k = turn THEN TurnsOf(id, k) \cup {n + 1} ELSE TurnsOf(id, k)
  BY <1>3, <1>4, <1>5, <1>6, <1>7
<1>. QED BY <1>3, <1>8, <1>9 DEF n, s, t

(* A request of the pool's own keeps the tally.                            *)
LEMMA OwnPickTallies ==
  ASSUME IInv, NEW id, ResolveEffect(id), Alone(id), Rotates(id), Tally(id)
  PROVE  Tally(id)'
<1> DEFINE L == Len(Pool(id).pool)  n == Len(picks[id])
           turn == Turn(Pool(id), rr[Key(id)])
<1>1. /\ id \in PoolIds /\ Pool(id).pool # <<>> /\ TypeOK /\ rr[Key(id)] = n
      /\ picks \in [PoolIds -> Seq(Nat \ {0})] /\ n \in Nat
  <2>1. id \in PoolIds /\ Pool(id).pool # <<>> /\ TypeOK /\ rr[Key(id)] = n
    BY DEF ResolveEffect, IInv, Counted
  <2>2. picks \in [PoolIds -> Seq(Nat \ {0})]
    BY <2>1 DEF TypeOK
  <2>3. picks[id] \in Seq(Nat \ {0})
    BY <2>1, <2>2
  <2>. QED BY <2>1, <2>2, <2>3
<1>2. L \in Nat \ {0} /\ turn \in 1..L
  BY <1>1, TurnType
<1>3. turn = (n % L) + 1
  BY <1>1 DEF Turn
<1>4. picks'[id] = Append(picks[id], turn)
  BY <1>1 DEF ResolveEffect
<1>5. turn \in Nat \ {0}
  <2> HIDE DEF turn, L
  <2>. QED BY <1>2
<1> SUFFICES ASSUME NEW k \in 1..L
             PROVE  /\ IsFiniteSet(TurnsOf(id, k))'
                    /\ Cardinality(TurnsOf(id, k)') =
                          IF k <= Left(id)' THEN Rounds(id)' + 1 ELSE Rounds(id)'
  BY DEF Tally, Pool, Modalities
<1> HIDE DEF turn
<1>6. /\ Len(picks'[id]) = n + 1
      /\ TurnsOf(id, k)' = IF k = turn THEN TurnsOf(id, k) \cup {n + 1} ELSE TurnsOf(id, k)
      /\ n + 1 \notin TurnsOf(id, k)
  BY <1>1, <1>4, <1>5, PickTurns
<1>7. /\ Left(id) = n % L /\ Rounds(id) = n \div L
      /\ Left(id)' = (n + 1) % L /\ Rounds(id)' = (n + 1) \div L
  BY <1>6 DEF Left, Rounds, Pool, Modalities
<1>8. /\ IsFiniteSet(TurnsOf(id, k))
      /\ Cardinality(TurnsOf(id, k)) = IF k <= n % L THEN (n \div L) + 1 ELSE n \div L
  BY <1>7 DEF Tally
<1>9. /\ IsFiniteSet(TurnsOf(id, k)')
      /\ Cardinality(TurnsOf(id, k)') = IF k = turn THEN Cardinality(TurnsOf(id, k)) + 1
                                                    ELSE Cardinality(TurnsOf(id, k))
  <2> DEFINE S == TurnsOf(id, k)
  <2>1. IsFiniteSet(S \cup {n + 1}) /\ Cardinality(S \cup {n + 1}) = Cardinality(S) + 1
    <3> HIDE DEF S
    <3>1. IsFiniteSet(S) /\ n + 1 \notin S
      BY <1>6, <1>8 DEF S
    <3>. QED BY <3>1, FS_AddElement
  <2>. QED BY <2>1, <1>6, <1>8
<1> HIDE DEF L, n
<1>10. n % L \in 0..(L - 1) /\ n \div L \in Nat
  <2>1. n \in Nat /\ L \in Nat \ {0}
    BY <1>1, <1>2
  <2>. QED BY <2>1
<1>11. CASE (n % L) + 1 < L /\ (n + 1) % L = (n % L) + 1 /\ (n + 1) \div L = n \div L
  BY <1>3, <1>7, <1>8, <1>9, <1>10, <1>11
<1>12. CASE (n % L) + 1 = L /\ (n + 1) % L = 0 /\ (n + 1) \div L = (n \div L) + 1
  BY <1>3, <1>7, <1>8, <1>9, <1>10, <1>12
<1>. QED BY <1>1, <1>2, <1>11, <1>12, NextRound

(* A request of another pool leaves the tally alone.                       *)
LEMMA OtherPickTallies ==
  ASSUME TypeOK, NEW id \in PoolIds, picks'[id] = picks[id], Tally(id)
  PROVE  Tally(id)'
<1>1. /\ \A k : TurnsOf(id, k)' = TurnsOf(id, k)
      /\ Left(id)' = Left(id) /\ Rounds(id)' = Rounds(id)
  BY DEF TurnsOf, Left, Rounds, Pool, Modalities
<1>. QED BY <1>1 DEF Tally, Pool, Modalities

(* Nothing has been tallied at the start.                                  *)
LEMMA InitTallied == ASSUME Init PROVE Tallied
<1> SUFFICES ASSUME NEW id \in PoolIds, Pool(id).pool # <<>>,
                    NEW k \in 1..Len(Pool(id).pool)
             PROVE  /\ IsFiniteSet(TurnsOf(id, k))
                    /\ Cardinality(TurnsOf(id, k)) = IF k <= Left(id) THEN Rounds(id) + 1 ELSE Rounds(id)
  BY DEF Tallied, Tally
<1> DEFINE L == Len(Pool(id).pool)
<1>1. L \in Nat \ {0}
  BY TurnType
<1>2. picks[id] = <<>>
  BY DEF Init
<1>3. TurnsOf(id, k) = {}
  BY <1>2 DEF TurnsOf
<1>4. Left(id) = 0 % L /\ Rounds(id) = 0 \div L
  BY <1>2 DEF Left, Rounds
<1>5. 0 % L = 0 /\ 0 \div L = 0
  <2> HIDE DEF L
  <2>1. (L * 0 + 0) % L = 0 /\ L * 0 + 0 = 0
    BY <1>1, Remainder
  <2>2. 0 = L * (0 \div L) + (0 % L) /\ 0 \div L \in Nat
    BY <1>1
  <2>. QED BY <1>1, <2>1, <2>2
<1>6. ~(k <= 0)
  BY <1>1
<1>. QED BY <1>3, <1>4, <1>5, <1>6, FS_EmptySet

(* Every step keeps the tally of every pool with a counter of its own.     *)
LEMMA StepTallies ==
  ASSUME IInv, Tallied, [Next]_vars
  PROVE  Tallied'
<1> SUFFICES ASSUME NEW id \in PoolIds, Alone(id), Rotates(id), Pool(id).pool # <<>>
             PROVE  Tally(id)'
  BY DEF Tallied, Alone, Rotates, Pool, Modalities
<1>1. Tally(id) /\ TypeOK
  BY DEF Tallied, IInv
<1>2. ASSUME NEW ask \in Asks, Resolve(ask) PROVE Tally(id)'
  <2>1. PICK mine : ResolveEffect(mine)
    BY <1>2, Resolving
  <2>2. CASE mine = id
    BY <1>1, <2>1, <2>2, OwnPickTallies
  <2>3. CASE mine # id
    <3>1. picks'[id] = picks[id]
      <4>1. picks \in [PoolIds -> Seq(Nat \ {0})]
        BY <1>1 DEF TypeOK
      <4>2. CASE Rotates(mine)
        <5>1. picks' = [picks EXCEPT ![mine] = Append(@, Turn(Pool(mine), rr[Key(mine)]))]
          BY <2>1, <4>2 DEF ResolveEffect
        <5>. QED BY <4>1, <5>1, <2>3
      <4>3. CASE ~Rotates(mine)
        BY <2>1, <4>3 DEF ResolveEffect
      <4>. QED BY <4>2, <4>3
    <3>. QED BY <1>1, <3>1, OtherPickTallies
  <2>. QED BY <2>2, <2>3
<1>3. ASSUME NEW ask \in Asks, Unresolved(ask) PROVE Tally(id)'
  BY <1>1, <1>3, OtherPickTallies DEF Unresolved
<1>4. CASE UNCHANGED vars
  BY <1>1, <1>4, OtherPickTallies DEF vars
<1>. QED BY <1>2, <1>3, <1>4 DEF Next

(* No member of a pool that has its counter to itself is ever more than    *)
(* one request ahead of another, for pools of any size and any number of   *)
(* requests to any other models in between.                                *)
THEOREM EvenlyServedAlways == Spec => []EvenlyServed
<1>1. IInv /\ Tallied => EvenlyServed
  <2> SUFFICES ASSUME IInv, Tallied, NEW id \in PoolIds, Alone(id), Rotates(id),
                      NEW j \in 1..Len(Pool(id).pool), NEW k \in 1..Len(Pool(id).pool)
               PROVE  Cardinality(TurnsOf(id, j)) <= Cardinality(TurnsOf(id, k)) + 1
    BY DEF EvenlyServed
  <2>1. Pool(id).pool # <<>>
    OBVIOUS
  <2>2. /\ Cardinality(TurnsOf(id, j)) \in {Rounds(id), Rounds(id) + 1}
        /\ Cardinality(TurnsOf(id, k)) \in {Rounds(id), Rounds(id) + 1}
    BY <2>1 DEF Tallied, Tally
  <2>3. Rounds(id) \in Nat
    <3>1. Len(Pool(id).pool) \in Nat \ {0} /\ picks[id] \in Seq(Nat \ {0})
      BY <2>1, TurnType DEF IInv, TypeOK
    <3>2. Len(picks[id]) \in Nat
      BY <3>1
    <3> DEFINE n == Len(picks[id])  L == Len(Pool(id).pool)
    <3>3. Rounds(id) = n \div L
      BY DEF Rounds
    <3>4. n \in Nat /\ L \in Nat \ {0}
      BY <3>1, <3>2
    <3> HIDE DEF n, L
    <3>. QED BY <3>3, <3>4
  <2>. QED BY <2>2, <2>3
<1>2. Init => Tallied
  BY InitTallied
<1>3. IInv /\ IInv' /\ Tallied /\ [Next]_vars => Tallied'
  BY StepTallies
<1>. QED BY Invariance, <1>1, <1>2, <1>3, PTL DEF Spec

-------------------------------------------------------------------------------
(* Which modality a client can reach.                                      *)
HeaderWires == {"openai-chat-completions", "anthropic-messages", "openai-responses"}
MediaWires  == {"openai-images-generations", "openai-audio-speech",
                "openai-audio-transcriptions", "openai-videos"}

(* The modalities that serve a wire of a model are finitely many.          *)
LEMMA FewCandidates ==
  ASSUME NEW m \in ModelIds, NEW w
  PROVE  IsFiniteSet(Candidates(m, w))
<1>1. IsFiniteSet(DOMAIN Modalities(m)) /\ Candidates(m, w) \subseteq DOMAIN Modalities(m)
  BY PoolsAssumption DEF Candidates
<1>. QED BY <1>1, FS_Subset

(* A hint picks the modality of that name, and no hint the only one, or    *)
(* chat among its search siblings.                                         *)
LEMMA PickedIs ==
  ASSUME NEW m \in ModelIds, NEW w, NEW h, NEW n
  PROVE  n \in Picked(Candidates(m, w), h) <=>
            /\ n \in Candidates(m, w)
            /\ \/ h # Omitted /\ n = h
               \/ h = Omitted /\ Candidates(m, w) = {n}
               \/ /\ h = Omitted /\ n = "chat"
                  /\ Candidates(m, w) \subseteq {"chat", "search_web", "search_x"}
<1> DEFINE C == Candidates(m, w)
<1>1. IsFiniteSet(C)
  BY FewCandidates
<1>2. Cardinality(C) = 1 <=> \E x : C = {x}
  BY <1>1, FS_Singleton
<1> HIDE DEF C
<1>3. n \in Picked(C, h) <=>
         /\ n \in C
         /\ \/ h # Omitted /\ n = h
            \/ h = Omitted /\ C = {n}
            \/ h = Omitted /\ n = "chat" /\ C \subseteq {"chat", "search_web", "search_x"}
  <2>1. CASE h # Omitted
    BY <2>1 DEF Picked
  <2>2. CASE h = Omitted /\ Cardinality(C) = 1
    <3>1. Picked(C, h) = C
      BY <2>2 DEF Picked
    <3>2. PICK x : C = {x}
      BY <1>2, <2>2
    <3>. QED BY <2>2, <3>1, <3>2
  <2>3. CASE h = Omitted /\ Cardinality(C) # 1
    <3>1. C # {n}
      BY <1>2, <2>3
    <3>2. Picked(C, h) = IF "chat" \in C /\ C \subseteq {"chat", "search_web", "search_x"}
                         THEN {"chat"} ELSE {}
      BY <2>3 DEF Picked
    <3>. QED BY <2>3, <3>1, <3>2
  <2>. QED BY <2>1, <2>2, <2>3
<1>. QED BY <1>3 DEF C

(* Resolution is a function of the request: whatever the document, at most *)
(* one modality is picked and at most one surface for each entry, so the   *)
(* order in which Go walks the document's maps cannot be seen (catalog.go  *)
(* ResolveWithModality and surfaceFor sort the keys they walk).            *)
THEOREM ResolutionIsAFunction ==
  /\ \A m, w, h : \A a, b \in Pools(m, w, h) : a = b
  /\ \A p, e, w : \A j, k \in SurfaceFor(p, e, w) : j = k
<1>1. ASSUME NEW m, NEW w, NEW h, NEW a \in Pools(m, w, h), NEW b \in Pools(m, w, h)
      PROVE  a = b
  <2>1. m \in ModelIds /\ a \in Picked(Candidates(m, w), h) /\ b \in Picked(Candidates(m, w), h)
    BY DEF Pools
  <2>2. a = h \/ Candidates(m, w) = {a} \/ (h = Omitted /\ a = "chat")
    BY <2>1, PickedIs
  <2>3. b = h \/ Candidates(m, w) = {b} \/ (h = Omitted /\ b = "chat")
    BY <2>1, PickedIs
  <2>. QED BY <2>1, <2>2, <2>3, PickedIs
<1>2. ASSUME NEW p, NEW e, NEW w, NEW j \in SurfaceFor(p, e, w), NEW k \in SurfaceFor(p, e, w)
      PROVE  j = k
  <2> DEFINE ss == Surfaces(p)
  <2>1. /\ j \in 1..Len(ss) /\ Matches(ss[j], e, w) /\ \A i \in 1..(j - 1) : ~Matches(ss[i], e, w)
        /\ k \in 1..Len(ss) /\ Matches(ss[k], e, w) /\ \A i \in 1..(k - 1) : ~Matches(ss[i], e, w)
    BY DEF SurfaceFor
  <2> HIDE DEF ss
  <2>2. j \in Nat \ {0} /\ k \in Nat \ {0}
    BY <2>1
  <2>3. ~(j < k) /\ ~(k < j)
    BY <2>1, <2>2
  <2>. QED BY <2>2, <2>3
<1>. QED BY <1>1, <1>2

(* What X-Catalog-Modality reaches.  On the wires where it counts, naming  *)
(* a modality reaches its pool.  On the embeddings wire only a modality    *)
(* that is called "embed" is ever reached, and on the media wires only the *)
(* one that is alone on its wire, or chat among its search siblings: there *)
(* the rest of a document is out of every client's reach, although         *)
(* docs/catalog.md says that any yaml key works and that other modalities  *)
(* are told apart by the header (modality.go ModalityHintFromRequest).     *)
THEOREM HeaderReach ==
  ASSUME NEW m \in ModelIds, NEW n \in DOMAIN Modalities(m), n # Omitted,
         Modalities(m)[n].pool # <<>>,
         Strategy(Modalities(m)[n]) \in {"failover", "round_robin"},
         NEW w, w = Modalities(m)[n].wire
  PROVE  /\ w \in HeaderWires => n \in Pools(m, w, ModalityHint(w, n))
         /\ w = "openai-embeddings" =>
               \A h : n \in Pools(m, w, ModalityHint(w, h)) <=> n = "embed"
         /\ w \in MediaWires =>
               \A h : n \in Pools(m, w, ModalityHint(w, h)) <=>
                  \/ Candidates(m, w) = {n}
                  \/ /\ n = "chat"
                     /\ Candidates(m, w) \subseteq {"chat", "search_web", "search_x"}
<1>1. n \in Candidates(m, w)
  BY DEF Candidates
<1>2. \A h : n \in Pools(m, w, h) <=> n \in Picked(Candidates(m, w), h)
  BY DEF Pools
<1>3. w \in HeaderWires => ModalityHint(w, n) = n
  BY DEF HeaderWires, ModalityHint
<1>4. w = "openai-embeddings" => \A h : ModalityHint(w, h) = "embed"
  BY DEF ModalityHint
<1>5. w \in MediaWires => \A h : ModalityHint(w, h) = Omitted
  BY DEF MediaWires, ModalityHint
<1>6. "embed" # Omitted
  BY DEF Omitted
<1>7. ASSUME w \in HeaderWires PROVE n \in Pools(m, w, ModalityHint(w, n))
  BY <1>1, <1>2, <1>3, <1>7, PickedIs
<1>8. ASSUME w = "openai-embeddings", NEW h
      PROVE  n \in Pools(m, w, ModalityHint(w, h)) <=> n = "embed"
  <2>1. n \in Pools(m, w, "embed") <=> n = "embed"
    BY <1>1, <1>2, <1>6, PickedIs
  <2>2. ModalityHint(w, h) = "embed"
    BY <1>4, <1>8
  <2>. QED BY <2>1, <2>2
<1>9. ASSUME w \in MediaWires, NEW h
      PROVE  n \in Pools(m, w, ModalityHint(w, h)) <=>
                \/ Candidates(m, w) = {n}
                \/ n = "chat" /\ Candidates(m, w) \subseteq {"chat", "search_web", "search_x"}
  <2>1. n \in Pools(m, w, Omitted) <=>
                \/ Candidates(m, w) = {n}
                \/ n = "chat" /\ Candidates(m, w) \subseteq {"chat", "search_web", "search_x"}
    BY <1>1, <1>2, PickedIs
  <2>2. ModalityHint(w, h) = Omitted
    BY <1>5, <1>9
  <2>. QED BY <2>1, <2>2
<1>. QED BY <1>7, <1>8, <1>9

===============================================================================
