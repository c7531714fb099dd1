----------------------------- MODULE KeyringProofs -----------------------------
(***************************************************************************)
(* Keyring: for any minters, verifications, requests and policies.         *)
(***************************************************************************)
EXTENDS Keyring, TLAPS

USE KeyringAssumption

-------------------------------------------------------------------------------
(* Minting under a policy (credential/admin/policy.go).                    *)

(* The policies have their types: neither maximum is 0.                    *)
LEMMA PolicyType ==
  ASSUME NEW role \in {"admin", "provision"}
  PROVE  /\ role \in DOMAIN Policies
         /\ Policies[role].maxTtl \in Nat \ {0}
         /\ Policies[role].scopes = ScopesOf(role)
         /\ Policies[role].fixed <=> role = "provision"
  BY DEF Policies, MaxTtlOf

(* ParseDuration returns a positive duration, and no more than the maximum *)
(* or the fallback.                                                        *)
LEMMA TtlRange ==
  ASSUME NEW ttl \in Int, NEW max \in Nat \ {0}, NEW t \in Ttls(ttl, max)
  PROVE  t \in Nat \ {0} /\ (t <= max \/ t = DefaultTtl)
  BY DEF Ttls

(* What ResolveScopes returns is within the policy, and is one of the      *)
(* lists it was given.                                                     *)
LEMMA ResolvedWithin ==
  ASSUME NEW policy, NEW requested, NEW x \in Resolved(policy, requested)
  PROVE  Within(x, policy) /\ x \in {policy.scopes, requested}
  BY DEF Resolved, Within

(* A key within a policy may call no more than the policy.                 *)
LEMMA WithinMayCallNoMore ==
  ASSUME NEW x, NEW policy, Within(x, policy), NEW m, NEW w, Authorize(x, m, w)
  PROVE  Authorize(policy.scopes, m, w)
<1>1. CASE policy.scopes = {} \/ x = policy.scopes
  BY <1>1 DEF Authorize
<1>2. CASE x # {} /\ \A s \in x : Allowlisted(s, policy.scopes)
  <2>1. PICK s \in x : s \in {Star, Blank, ModelScope(m), WireScope(w)}
    BY <1>2 DEF Authorize
  <2>2. Star \in policy.scopes \/ s \in policy.scopes
    BY <1>2 DEF Allowlisted
  <2>. QED
    BY <2>1, <2>2 DEF Authorize
<1>. QED
  BY <1>1, <1>2 DEF Within

(* FilterModels and Authorize read a list of scopes alike, for a model     *)
(* with a wire (ingress/keyring/scopes.go).                                *)
LEMMA ListedAsCallable ==
  ASSUME NEW x, NEW m, WiresOf[m] # {}
  PROVE  Listed(x, m) <=> \E w \in WiresOf[m] : Authorize(x, m, w)
<1>1. CASE x \cap {Star, Blank, ModelScope(m)} # {} \/ x = {}
  BY <1>1 DEF Listed, FilterModels, Authorize
<1>2. CASE x \cap {Star, Blank, ModelScope(m)} = {} /\ x # {}
  BY <1>2 DEF Listed, FilterModels, Authorize
<1>. QED
  BY <1>1, <1>2

(* What a key is granted has a ttl and scopes of the right kind.           *)
LEMMA GrantedRange ==
  ASSUME NEW ask \in Asks, NEW g \in Granted(ask)
  PROVE  /\ g.ttl \in Int /\ g.scopes \in ScopeLists
         /\ ask.role # "cli" => Within(g.scopes, Policies[ask.role])
         /\ ask.role = "provision" =>
              ~ask.static /\ (g.ttl <= Policies["provision"].maxTtl \/ g.ttl = DefaultTtl)
<1>1. CASE ask.role = "cli"
  BY <1>1 DEF Granted, GrantedToCli, ScopeLists
<1>2. CASE ask.role \in {"admin", "provision"}
  <2> DEFINE policy == Policies[ask.role]
             wanted == IF ask.role = "provision" THEN {} ELSE ask.scopes
             ttls   == IF ask.static THEN {0} ELSE Ttls(ask.ttl, policy.maxTtl)
  <2>1. PICK t \in ttls, x \in Resolved(policy, wanted) : g = [ttl |-> t, scopes |-> x]
    BY <1>2 DEF Granted, GrantedToRole
  <2>2. policy.maxTtl \in Nat \ {0} /\ ask.role \in DOMAIN Policies
    BY <1>2, PolicyType
  <2>3. t \in Int /\ (~ask.static => t <= policy.maxTtl \/ t = DefaultTtl)
    BY <2>1, <2>2, TtlRange
  <2>4. Within(x, policy) /\ x \in {policy.scopes, wanted}
    BY <2>1, ResolvedWithin
  <2>5. x \in ScopeLists
    BY <2>2, <2>4 DEF ScopeLists
  <2>6. ask.role = "provision" => ~ask.static
    BY <1>2 DEF Granted, GrantedToRole
  <2>. QED
    BY <1>2, <2>1, <2>3, <2>4, <2>5, <2>6
<1>. QED
  BY <1>1, <1>2

-------------------------------------------------------------------------------
(* Type correctness.                                                       *)

(* The variables have their types at first.                                *)
LEMMA InitType == Init => TypeOK
  BY DEF Init, TypeOK, Rows, NoRow, ScopeLists, Secrets

(* A minted row has its type, and is within its policy (createKey, Create).*)
LEMMA MintedRow ==
  ASSUME TypeOK, NEW w \in Minters, NEW ask \in Asks, Mint(w, ask)
  PROVE  \E row \in Rows :
           /\ rows' = Append(rows, row) /\ row.hash = "nothing"
           /\ ask.role # "cli" => Within(row.scopes, Policies[ask.role])
           /\ ask.role = "provision" /\ DefaultTtl <= Policies["provision"].maxTtl =>
                row.exp # 0 /\ row.exp <= now + Policies["provision"].maxTtl
<1>1. PICK g \in Granted(ask) :
         /\ ask.static \/ g.ttl > 0
         /\ rows' = Append(rows, [kind    |-> IF ask.static THEN "static" ELSE "issued",
                                  hash    |-> "nothing",
                                  exp     |-> IF g.ttl > 0 THEN now + g.ttl ELSE 0,
                                  scopes  |-> g.scopes,
                                  revoked |-> FALSE])
  BY DEF Mint
<1> DEFINE row == [kind    |-> IF ask.static THEN "static" ELSE "issued",
                   hash    |-> "nothing",
                   exp     |-> IF g.ttl > 0 THEN now + g.ttl ELSE 0,
                   scopes  |-> g.scopes,
                   revoked |-> FALSE]
<1>2. g.ttl \in Int /\ g.scopes \in ScopeLists /\ now \in Nat
  BY GrantedRange DEF TypeOK
<1>3. row \in Rows
  BY <1>2 DEF Rows
<1>4. ask.role # "cli" => Within(row.scopes, Policies[ask.role])
  BY GrantedRange
<1>5. ASSUME ask.role = "provision", DefaultTtl <= Policies["provision"].maxTtl
      PROVE  row.exp # 0 /\ row.exp <= now + Policies["provision"].maxTtl
  <2>1. /\ ~ask.static
        /\ g.ttl <= Policies["provision"].maxTtl \/ g.ttl = DefaultTtl
    BY <1>5, GrantedRange
  <2>2. Policies["provision"].maxTtl \in Nat
    BY PolicyType
  <2>. QED
    BY <1>1, <1>2, <1>5, <2>1, <2>2
<1>. QED
  BY <1>1, <1>3, <1>4, <1>5

(* A statement of Create or Revoke replaces a row by one of the same       *)
(* length of life and scopes.                                              *)
LEMMA SealedRow ==
  ASSUME TypeOK, NEW id \in DOMAIN rows, rows' = [rows EXCEPT ![id].hash = "own"]
  PROVE  /\ rows' \in Seq(Rows) /\ Len(rows') = Len(rows) /\ DOMAIN rows' = DOMAIN rows
         /\ \A i \in DOMAIN rows :
              /\ rows'[i].exp = rows[i].exp /\ rows'[i].scopes = rows[i].scopes
              /\ rows'[i].revoked = rows[i].revoked
              /\ rows'[i].hash = IF i = id THEN "own" ELSE rows[i].hash
<1>1. \A i \in DOMAIN rows : rows[i] \in Rows
  BY DEF TypeOK
<1>2. [rows[id] EXCEPT !.hash = "own"] \in Rows
  BY <1>1 DEF Rows
<1>3. rows' = [rows EXCEPT ![id] = [rows[id] EXCEPT !.hash = "own"]]
  OBVIOUS
<1>4. rows' \in Seq(Rows) /\ Len(rows') = Len(rows) /\ DOMAIN rows' = DOMAIN rows
  BY <1>2, <1>3 DEF TypeOK
<1>. QED
  BY <1>1, <1>3, <1>4 DEF Rows

(* DELETE /v1/keys/<id> leaves the rest of its row alone.                  *)
LEMMA RevokedRow ==
  ASSUME TypeOK, NEW id \in DOMAIN rows, rows' = [rows EXCEPT ![id].revoked = TRUE]
  PROVE  /\ rows' \in Seq(Rows) /\ Len(rows') = Len(rows) /\ DOMAIN rows' = DOMAIN rows
         /\ \A i \in DOMAIN rows :
              /\ rows'[i].exp = rows[i].exp /\ rows'[i].scopes = rows[i].scopes
              /\ rows'[i].revoked <=> i = id \/ rows[i].revoked
              /\ rows'[i].hash = rows[i].hash
<1>1. \A i \in DOMAIN rows : rows[i] \in Rows
  BY DEF TypeOK
<1>2. [rows[id] EXCEPT !.revoked = TRUE] \in Rows
  BY <1>1 DEF Rows
<1>3. rows' = [rows EXCEPT ![id] = [rows[id] EXCEPT !.revoked = TRUE]]
  OBVIOUS
<1>4. rows' \in Seq(Rows) /\ Len(rows') = Len(rows) /\ DOMAIN rows' = DOMAIN rows
  BY <1>2, <1>3 DEF TypeOK
<1>5. \A i \in DOMAIN rows :
        rows'[i] = IF i = id THEN [rows[i] EXCEPT !.revoked = TRUE] ELSE rows[i]
  BY <1>3 DEF TypeOK
<1>. QED
  BY <1>1, <1>4, <1>5 DEF Rows

(* The history of a verification is a set of answers.                      *)
LEMMA WatchType ==
  ASSUME TypeOK, Watch
  PROVE  was' \in [Verifiers -> SUBSET BOOLEAN]
  BY DEF TypeOK, Watch, Valid

(* Minting keeps the types and the rows' invariants, and touches nothing   *)
(* else.                                                                   *)
LEMMA MintStep ==
  ASSUME TypeOK, SealedByOne, \A id \in DOMAIN rows : Minted(id),
         NEW w \in Minters, NEW ask \in Asks, Mint(w, ask), Watch
  PROVE  TypeOK' /\ SealedByOne' /\ (\A id \in DOMAIN rows : Minted(id))'
<1>1. PICK row \in Rows :
         /\ rows' = Append(rows, row) /\ row.hash = "nothing"
         /\ ask.role # "cli" => Within(row.scopes, Policies[ask.role])
         /\ ask.role = "provision" /\ DefaultTtl <= Policies["provision"].maxTtl =>
              row.exp # 0 /\ row.exp <= now + Policies["provision"].maxTtl
  BY MintedRow
<1>2. /\ rows \in Seq(Rows) /\ Len(rows) < MaxKeys /\ Len(by) = Len(rows)
      /\ by \in Seq([ask : Asks, born : Nat]) /\ now \in Nat
      /\ by' = Append(by, [ask |-> ask, born |-> now])
      /\ sealing' = [sealing EXCEPT ![w] = Len(rows) + 1]
      /\ UNCHANGED <<now, known, at, secret, found>>
  BY DEF TypeOK, Mint, check
<1>3. /\ rows' \in Seq(Rows) /\ Len(rows') = Len(rows) + 1
      /\ DOMAIN rows' = DOMAIN rows \cup {Len(rows) + 1}
      /\ \A id \in DOMAIN rows : rows'[id] = rows[id]
      /\ rows'[Len(rows) + 1] = row
  BY <1>1, <1>2
<1>4. /\ by' \in Seq([ask : Asks, born : Nat]) /\ Len(by') = Len(rows) + 1
      /\ \A id \in DOMAIN rows : by'[id] = by[id]
      /\ by'[Len(rows) + 1] = [ask |-> ask, born |-> now]
  BY <1>2
<1>5. sealing' \in [Minters -> 0..Len(rows')]
  BY <1>2, <1>3 DEF TypeOK
<1>6. TypeOK'
  <2>1. \A u \in Minters : sealing'[u] # 0 => rows'[sealing'[u]].hash = "nothing"
    BY <1>1, <1>2, <1>3 DEF TypeOK
  <2>2. (known \subseteq DOMAIN rows)'
    BY <1>2, <1>3 DEF TypeOK
  <2>3. was' \in [Verifiers -> SUBSET BOOLEAN]
    BY WatchType
  <2>. QED
    BY <1>2, <1>3, <1>4, <1>5, <2>1, <2>2, <2>3 DEF TypeOK
<1>7. SealedByOne'
  BY <1>1, <1>2, <1>3 DEF TypeOK, SealedByOne
<1>8. (\A id \in DOMAIN rows : Minted(id))'
  <2> SUFFICES ASSUME NEW id \in DOMAIN rows' PROVE Minted(id)'
    OBVIOUS
  <2>1. CASE id \in DOMAIN rows
    BY <1>3, <1>4, <2>1 DEF Minted
  <2>2. CASE id = Len(rows) + 1
    BY <1>1, <1>3, <1>4, <2>2 DEF Minted
  <2>. QED
    BY <1>3, <2>1, <2>2
<1>. QED
  BY <1>6, <1>7, <1>8

(* The other steps of minters, and the clock.                              *)
LEMMA SealStep ==
  ASSUME TypeOK, SealedByOne, \A id \in DOMAIN rows : Minted(id),
         NEW w \in Minters, Seal(w), Watch
  PROVE  TypeOK' /\ SealedByOne' /\ (\A id \in DOMAIN rows : Minted(id))'
<1> DEFINE own == sealing[w]
<1>1. /\ own \in DOMAIN rows /\ sealing' = [sealing EXCEPT ![w] = 0]
      /\ rows' = [rows EXCEPT ![own].hash = "own"]
      /\ known' \in {known, known \cup {own}}
      /\ UNCHANGED <<now, by, at, secret, found>>
  BY DEF TypeOK, Seal, check
<1>2. /\ rows' \in Seq(Rows) /\ Len(rows') = Len(rows) /\ DOMAIN rows' = DOMAIN rows
      /\ \A i \in DOMAIN rows :
           /\ rows'[i].exp = rows[i].exp /\ rows'[i].scopes = rows[i].scopes
           /\ rows'[i].hash = IF i = own THEN "own" ELSE rows[i].hash
  BY <1>1, SealedRow
<1>3. \A u \in Minters : sealing'[u] # 0 => u # w /\ sealing'[u] = sealing[u] /\ sealing[u] # own
  BY <1>1 DEF TypeOK, SealedByOne
<1>4. TypeOK'
  <2>1. sealing' \in [Minters -> 0..Len(rows')]
    BY <1>1, <1>2 DEF TypeOK
  <2>2. ASSUME NEW u \in Minters, sealing'[u] # 0
        PROVE  rows'[sealing'[u]].hash = "nothing"
    <3>1. sealing[u] \in DOMAIN rows /\ rows[sealing[u]].hash = "nothing"
      BY <1>3, <2>2 DEF TypeOK
    <3>. QED
      BY <1>2, <1>3, <2>2, <3>1
  <2>3. known' \subseteq DOMAIN rows'
    BY <1>1, <1>2 DEF TypeOK
  <2>4. was' \in [Verifiers -> SUBSET BOOLEAN]
    BY WatchType
  <2>. QED
    BY <1>1, <1>2, <2>1, <2>2, <2>3, <2>4 DEF TypeOK
<1>5. SealedByOne'
  <2>1. \A u, t \in Minters : sealing'[u] = sealing'[t] /\ sealing'[u] # 0 => u = t
    BY <1>3 DEF SealedByOne
  <2>2. \A id \in known' : rows'[id].hash = "own"
    BY <1>1, <1>2 DEF TypeOK, SealedByOne
  <2>. QED
    BY <2>1, <2>2 DEF SealedByOne
<1>6. (\A id \in DOMAIN rows : Minted(id))'
  BY <1>1, <1>2 DEF Minted
<1>. QED
  BY <1>4, <1>5, <1>6

(* Revoke changes one column of one row.                                   *)
LEMMA RevokeStep ==
  ASSUME TypeOK, SealedByOne, \A id \in DOMAIN rows : Minted(id),
         NEW key \in DOMAIN rows, Revoke(key), Watch
  PROVE  TypeOK' /\ SealedByOne' /\ (\A id \in DOMAIN rows : Minted(id))'
<1>1. /\ rows' = [rows EXCEPT ![key].revoked = TRUE]
      /\ UNCHANGED <<now, by, known, sealing, at, secret, found>>
  BY DEF Revoke, check
<1>2. /\ rows' \in Seq(Rows) /\ Len(rows') = Len(rows) /\ DOMAIN rows' = DOMAIN rows
      /\ \A i \in DOMAIN rows :
           /\ rows'[i].exp = rows[i].exp /\ rows'[i].scopes = rows[i].scopes
           /\ rows'[i].hash = rows[i].hash
  BY <1>1, RevokedRow
<1>3. was' \in [Verifiers -> SUBSET BOOLEAN]
  BY WatchType
<1>4. TypeOK'
  BY <1>1, <1>2, <1>3 DEF TypeOK
<1>5. SealedByOne'
  BY <1>1, <1>2 DEF TypeOK, SealedByOne
<1>6. (\A id \in DOMAIN rows : Minted(id))'
  BY <1>1, <1>2 DEF Minted
<1>. QED
  BY <1>4, <1>5, <1>6

(* The steps that leave the table alone.                                   *)
Aside == \/ \E w \in Minters : SealFails(w)
         \/ \E v \in Verifiers : \/ \E s \in Secrets : Present(v, s)
                                 \/ Select(v) \/ SelectFails(v) \/ Decide(v)
         \/ Tick

(* The rest leaves the rows of keys alone.                                 *)
LEMMA AsideStep ==
  ASSUME TypeOK, SealedByOne, \A id \in DOMAIN rows : Minted(id), Aside, Watch
  PROVE  TypeOK' /\ SealedByOne' /\ (\A id \in DOMAIN rows : Minted(id))'
<1>1. UNCHANGED <<rows, by, known>>
  BY DEF Aside, SealFails, Present, Select, SelectFails, Decide, Tick, keys
<1>2. was' \in [Verifiers -> SUBSET BOOLEAN]
  BY WatchType
<1>3. now' \in 0..MaxTime
  BY DEF TypeOK, Aside, SealFails, Present, Select, SelectFails, Decide, Tick, keys
<1>4. sealing' \in [Minters -> 0..Len(rows)] /\ \A w \in Minters : sealing'[w] \in {0, sealing[w]}
  BY DEF TypeOK, Aside, SealFails, Present, Select, SelectFails, Decide, Tick, keys
<1> DEFINE Checks ==
             /\ at \in [Verifiers -> {"idle", "select", "decide", "accepted", "refused", "failed"}]
             /\ secret \in [Verifiers -> Secrets] /\ found \in [Verifiers -> Rows]
<1>5. Checks'
  <2>1. ASSUME NEW w \in Minters, SealFails(w) \/ Tick
        PROVE  UNCHANGED <<at, secret, found>>
    BY <2>1 DEF SealFails, Tick, check
  <2>2. ASSUME NEW v \in Verifiers, NEW s \in Secrets, Present(v, s) PROVE Checks'
    <3>1. NoRow \in Rows
      BY DEF NoRow, Rows, ScopeLists
    <3>. QED
      BY <2>2, <3>1 DEF TypeOK, Present
  <2>3. ASSUME NEW v \in Verifiers, Select(v) PROVE Checks'
    <3>1. /\ secret' = secret
          /\ \/ at' = [at EXCEPT ![v] = "decide"]
             \/ at' = [at EXCEPT ![v] = "refused"]
          /\ \/ found' = [found EXCEPT ![v] = rows[secret[v].id]] /\ secret[v].id \in DOMAIN rows
             \/ found' = found
      BY <2>3 DEF Select
    <3>2. \A id \in DOMAIN rows : rows[id] \in Rows
      BY DEF TypeOK
    <3>. QED
      BY <3>1, <3>2 DEF TypeOK
  <2>4. ASSUME NEW v \in Verifiers, SelectFails(v) \/ Decide(v) PROVE Checks'
    BY <2>4 DEF TypeOK, SelectFails, Decide
  <2>5. CASE Tick
    BY <2>5 DEF TypeOK, Tick, check
  <2>. QED
    BY <2>1, <2>2, <2>3, <2>4, <2>5 DEF Aside, TypeOK
<1>6. TypeOK'
  BY <1>1, <1>2, <1>3, <1>4, <1>5 DEF TypeOK
<1>7. SealedByOne'
  BY <1>1, <1>4 DEF TypeOK, SealedByOne
<1>8. (\A id \in DOMAIN rows : Minted(id))'
  BY <1>1 DEF Minted
<1>. QED
  BY <1>6, <1>7, <1>8

-------------------------------------------------------------------------------
(* Verification (verifyByID).                                              *)

(* What every step keeps of a row, and of the clock.                       *)
Kept ==
  /\ now' \in Nat /\ now <= now' /\ known \subseteq known'
  /\ DOMAIN rows \subseteq DOMAIN rows'
  /\ \A id \in DOMAIN rows :
       /\ rows'[id].exp = rows[id].exp /\ rows'[id].scopes = rows[id].scopes
       /\ rows[id].revoked => rows'[id].revoked

(* No step changes what a verification has read, except that a row is      *)
(* revoked.                                                                *)
LEMMA RowsKept ==
  ASSUME TypeOK, Operate
  PROVE  Kept
<1>1. now \in Nat /\ rows \in Seq(Rows)
  BY DEF TypeOK
<1>2. ASSUME NEW w \in Minters, NEW ask \in Asks, Mint(w, ask) PROVE Kept
  <2>1. PICK row \in Rows : rows' = Append(rows, row)
    BY <1>2, MintedRow
  <2>2. UNCHANGED <<now, known>>
    BY <1>2 DEF Mint
  <2>. QED
    BY <1>1, <2>1, <2>2 DEF Kept
<1>3. ASSUME NEW w \in Minters, Seal(w) PROVE Kept
  <2>1. /\ sealing[w] \in DOMAIN rows /\ now' = now /\ known \subseteq known'
        /\ rows' = [rows EXCEPT ![sealing[w]].hash = "own"]
    BY <1>3 DEF Seal, TypeOK
  <2>. QED
    BY <1>1, <2>1, SealedRow DEF Kept
<1>4. ASSUME NEW key \in DOMAIN rows, Revoke(key) PROVE Kept
  <2>1. rows' = [rows EXCEPT ![key].revoked = TRUE] /\ UNCHANGED <<now, known>>
    BY <1>4 DEF Revoke
  <2>. QED
    BY <1>1, <2>1, RevokedRow DEF Kept
<1>5. CASE Aside
  <2>1. UNCHANGED <<rows, known>> /\ now' \in {now, now + 1}
    BY <1>5 DEF Aside, SealFails, Present, Select, SelectFails, Decide, Tick, keys
  <2>. QED
    BY <1>1, <2>1 DEF Kept
<1>. QED
  BY <1>2, <1>3, <1>4, <1>5 DEF Operate, Aside

(* A verification that does not take the step itself keeps its place, and  *)
(* what is watched of it.                                                  *)
LEMMA BystanderStep ==
  ASSUME TypeOK, TypeOK', Kept, Watch, NEW v \in Verifiers, Watched(v),
         at'[v] = at[v], secret'[v] = secret[v], found'[v] = found[v]
  PROVE  Watched(v)'
<1>1. was[v] \subseteq was'[v]
  BY DEF Watch
<1>2. Read(v) => Read(v)'
  BY DEF Read, Kept
<1>3. now \in Nat /\ now' \in Nat /\ now <= now' /\ found[v] \in Rows
  BY DEF TypeOK, Kept
<1>4. ~Expired(found[v], now)' => ~Expired(found[v], now)
  BY <1>3 DEF Expired, Rows
<1>. QED
  BY <1>1, <1>2, <1>4 DEF Watched, Kept

(* A secret that is presented is being watched from then on.               *)
LEMMA PresentStep ==
  ASSUME TypeOK, NEW v \in Verifiers, NEW s \in Secrets, Present(v, s)
  PROVE  Watched(v)'
<1>1. at'[v] = "select" /\ secret'[v] = s /\ known' = known
  BY DEF Present, TypeOK, keys
<1>2. s.tail = "own" => s.id \in known
  BY DEF Present, Secrets
<1>. QED
  BY <1>1, <1>2 DEF Watched

(* The row is read as it is; what the secret is worth then is watched.     *)
LEMMA SelectStep ==
  ASSUME TypeOK, TypeOK', SealedByOne, NEW v \in Verifiers, Watched(v), Select(v), Watch
  PROVE  Watched(v)'
<1> DEFINE id == secret[v].id
<1>1. /\ UNCHANGED <<now, rows, known, secret>> /\ at[v] = "select"
      /\ \/ id \in DOMAIN rows /\ at'[v] = "decide" /\ found'[v] = rows[id]
         \/ id \notin DOMAIN rows /\ at'[v] = "refused"
  BY DEF Select, TypeOK, keys
<1>2. Valid(secret[v])' \in was'[v]
  BY <1>1 DEF Watch
<1>3. Valid(secret[v])' <=> Valid(secret[v])
  BY <1>1 DEF Valid, Expired
<1>4. secret[v].tail = "own" => id \in known /\ rows[id].hash = "own"
  BY DEF Watched, SealedByOne
<1>5. CASE id \in DOMAIN rows
  <2>1. at'[v] = "decide" /\ found'[v] = rows[id]
    BY <1>1, <1>5
  <2>2. Read(v)'
    BY <1>1, <1>4, <1>5, <2>1 DEF Read
  <2>3. ASSUME secret[v].tail = "own", ~rows[id].revoked, ~Expired(rows[id], now)
        PROVE  TRUE \in was'[v]
    <3>1. Valid(secret[v])' = TRUE
      BY <1>3, <1>4, <2>3 DEF Valid
    <3>. QED
      BY <1>2, <3>1
  <2>. QED
    BY <1>1, <1>4, <2>1, <2>2, <2>3 DEF Watched
<1>6. CASE id \notin DOMAIN rows
  <2>1. id \notin known
    BY <1>6 DEF TypeOK
  <2>2. Valid(secret[v])' = FALSE
    BY <1>3, <2>1 DEF Valid
  <2>3. FALSE \in was'[v]
    BY <1>2, <2>2
  <2>. QED
    BY <1>1, <1>4, <1>6, <2>3 DEF Watched
<1>. QED
  BY <1>5, <1>6

(* The verdict is what the secret was worth when its row was read, or is   *)
(* worth now.                                                              *)
LEMMA DecideStep ==
  ASSUME TypeOK, TypeOK', NEW v \in Verifiers, Watched(v), Decide(v), Watch
  PROVE  Watched(v)'
<1> DEFINE ok == /\ ~found[v].revoked /\ ~Expired(found[v], now)
                 /\ secret[v].tail = found[v].hash
           id == secret[v].id
<1>1. /\ UNCHANGED <<now, rows, known, secret, found>> /\ at[v] = "decide"
      /\ at'[v] = IF ok THEN "accepted" ELSE "refused"
  BY DEF Decide, TypeOK, keys
<1>2. was'[v] = was[v] \cup {Valid(secret[v])'}
  BY <1>1 DEF Watch
<1>3. Valid(secret[v])' <=> Valid(secret[v])
  BY <1>1 DEF Valid, Expired
<1>4. Read(v) /\ (secret[v].tail = "own" => id \in known)
  BY <1>1 DEF Watched
<1>5. Read(v)'
  BY <1>1, <1>4 DEF Read
<1>6. secret[v].tail \in {"own", "forged"} /\ found[v].hash \in {"own", "nothing"}
  BY DEF TypeOK, Secrets, Rows
<1>7. CASE ok
  <2>1. TRUE \in was[v]
    BY <1>1, <1>6, <1>7 DEF Watched
  <2>. QED
    BY <1>1, <1>2, <1>4, <1>5, <1>7, <2>1 DEF Watched
<1>8. CASE ~ok
  <2>1. ~Valid(secret[v])
    BY <1>4, <1>6, <1>8 DEF Valid, Read, Expired
  <2>2. Valid(secret[v])' = FALSE
    BY <1>3, <2>1 DEF Valid
  <2>. QED
    BY <1>1, <1>2, <1>4, <1>5, <1>8, <2>2 DEF Watched
<1>. QED
  BY <1>7, <1>8

(* Whoever takes a step, each verification stays watched.                  *)
LEMMA WatchedStep ==
  ASSUME TypeOK, TypeOK', SealedByOne, Operate, Watch, NEW v \in Verifiers, Watched(v)
  PROVE  Watched(v)'
<1>1. Kept
  BY RowsKept
<1>2. ASSUME NEW s \in Secrets, Present(v, s) PROVE Watched(v)'
  BY <1>2, PresentStep
<1>3. CASE Select(v)
  BY <1>3, SelectStep
<1>4. CASE Decide(v)
  BY <1>4, DecideStep
<1>5. CASE SelectFails(v)
  <2>1. /\ at'[v] = "failed" /\ secret' = secret /\ known' = known
    BY <1>5 DEF SelectFails, TypeOK, keys
  <2>. QED
    BY <2>1 DEF Watched
<1>6. ASSUME NEW u \in Verifiers \ {v}, NEW s \in Secrets,
             Present(u, s) \/ Select(u) \/ SelectFails(u) \/ Decide(u)
      PROVE  Watched(v)'
  <2>1. at'[v] = at[v] /\ secret'[v] = secret[v] /\ found'[v] = found[v]
    BY <1>6 DEF Present, Select, SelectFails, Decide, TypeOK
  <2>. QED
    BY <1>1, <2>1, BystanderStep
<1>7. CASE \/ \E w \in Minters : \/ \E ask \in Asks : Mint(w, ask)
                                 \/ Seal(w) \/ SealFails(w)
           \/ \E id \in DOMAIN rows : Revoke(id)
           \/ Tick
  <2>1. UNCHANGED <<at, secret, found>>
    BY <1>7 DEF Mint, Seal, SealFails, Revoke, Tick, check
  <2>. QED
    BY <1>1, <2>1, BystanderStep
<1>8. [id |-> 1, tail |-> "own"] \in Secrets
  BY DEF Secrets
<1>. QED
  BY <1>2, <1>3, <1>4, <1>5, <1>6, <1>7, <1>8 DEF Operate

-------------------------------------------------------------------------------
(* The theorems.                                                           *)

(* The inductive invariant: rows sealed once and within their policies,    *)
(* verifications watched.                                                  *)
THEOREM Invariance == Spec => []IInv
<1>1. Init => IInv
  <2>1. Init => SealedByOne /\ \A id \in DOMAIN rows : Minted(id)
    BY DEF Init, SealedByOne
  <2>2. Init => \A v \in Verifiers : Watched(v)
    BY DEF Init, Watched
  <2>. QED
    BY <2>1, <2>2, InitType DEF IInv
<1>2. IInv /\ [Next]_vars => IInv'
  <2> SUFFICES ASSUME IInv, [Next]_vars PROVE IInv'
    OBVIOUS
  <2>1. CASE Next
    <3> DEFINE Tables == TypeOK /\ SealedByOne /\ \A id \in DOMAIN rows : Minted(id)
    <3>1. Tables'
      <4>1. ASSUME NEW w \in Minters, NEW ask \in Asks, Mint(w, ask) PROVE Tables'
        BY <2>1, <4>1, MintStep DEF IInv, Next
      <4>2. ASSUME NEW w \in Minters, Seal(w) PROVE Tables'
        BY <2>1, <4>2, SealStep DEF IInv, Next
      <4>3. ASSUME NEW id \in DOMAIN rows, Revoke(id) PROVE Tables'
        BY <2>1, <4>3, RevokeStep DEF IInv, Next
      <4>4. CASE Aside
        BY <2>1, <4>4, AsideStep DEF IInv, Next
      <4>. QED
        BY <2>1, <4>1, <4>2, <4>3, <4>4 DEF Next, Operate, Aside
    <3>2. \A v \in Verifiers : Watched(v)'
      BY <2>1, <3>1, WatchedStep DEF IInv, Next
    <3>. QED
      BY <3>1, <3>2 DEF IInv
  <2>2. CASE UNCHANGED vars
    BY <2>2 DEF vars, keys, check, IInv, TypeOK, SealedByOne, Minted, Watched, Read
  <2>. QED
    BY <2>1, <2>2
<1>. QED
  BY <1>1, <1>2, PTL DEF Spec

(* The variables of the keyring keep their types: in particular, a row     *)
(* whose minter has not sealed it yet has no hash.                         *)
THEOREM TypeCorrect == Spec => []TypeOK
  BY Invariance, PTL DEF IInv

(* What verifyByID answers was right at some time while it ran.            *)
THEOREM VerdictAlwaysWasRight == Spec => []VerdictWasRight
<1>1. IInv => VerdictWasRight
  BY DEF IInv, Watched, VerdictWasRight
<1>. QED
  BY <1>1, Invariance, PTL

(* An accepted key may call no more than the policy of its minter's role.  *)
THEOREM GrantsAlwaysWithinPolicy == Spec => []GrantsWithinPolicy
<1>1. IInv => GrantsWithinPolicy
  <2> SUFFICES ASSUME IInv, NEW v \in Verifiers, at[v] = "accepted",
                      by[secret[v].id].ask.role # "cli",
                      NEW m \in DOMAIN WiresOf, NEW w \in WiresOf[m],
                      Authorize(found[v].scopes, m, w)
               PROVE  Authorize(Policies[by[secret[v].id].ask.role].scopes, m, w)
    BY DEF GrantsWithinPolicy
  <2>1. Read(v) /\ Minted(secret[v].id)
    BY DEF IInv, Watched, Read
  <2>2. Within(found[v].scopes, Policies[by[secret[v].id].ask.role])
    BY <2>1 DEF Read, Minted
  <2>. QED
    BY <2>2, WithinMayCallNoMore
<1>. QED
  BY <1>1, Invariance, PTL

(* The model list of an accepted key is what it may call.                  *)
THEOREM ListedAlwaysCallable == Spec => []ListedIsCallable
<1>1. ListedIsCallable
  BY ListedAsCallable DEF ListedIsCallable
<1>. QED
  BY <1>1, PTL

(* A provision key lives no longer than its policy says, where the policy  *)
(* allows the 24 h that a request without a ttl is given.                  *)
THEOREM LifetimeAlwaysWithinPolicy == Spec => []LifetimeWithinPolicy
<1>1. IInv => LifetimeWithinPolicy
  BY DEF IInv, Minted, LifetimeWithinPolicy
<1>. QED
  BY <1>1, Invariance, PTL

===============================================================================
