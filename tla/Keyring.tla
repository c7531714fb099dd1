-------------------------------- MODULE Keyring --------------------------------
(***************************************************************************)
(* Gateway keys (ingress/keyring/keyring.go, SQLStore): minted by POST     *)
(* /v1/keys under the policy of the caller's role (credential/admin) and   *)
(* by the CLI, verified for each request on the data plane, revoked.  Each *)
(* operation is made of SQL statements that others run in between, and of  *)
(* argon2 hashing, which takes long.                                       *)
(*                                                                         *)
(* A secret names its row and has a tail; the row's hash is of "nothing"   *)
(* until Create has sealed it.                                             *)
(***************************************************************************)
EXTENDS Integers, Sequences, Scopes

CONSTANTS
    Minters,     \* handlers of POST /v1/keys and CLI processes
    Verifiers,   \* requests being authenticated
    Asks,        \* what minters ask for: [role, static, ttl (0: omitted, -1: invalid), scopes]
    Config,      \* admin.keys and admin.provision: [role -> [maxTtl, scopes]];
                 \*  0, if omitted or not a positive duration, and {}, if omitted
    DefaultTtl,  \* 24 h
    KeysMaxTtl,  \* 720 h
    ChatWires,   \* the wires of DefaultProvisionPolicy
    WiresOf,     \* the wires of each catalog model
    MaxKeys,     \* bound on rows
    MaxTime      \* bound on the clock

ASSUME KeyringAssumption ==
    /\ DefaultTtl \in Nat \ {0} /\ MaxKeys \in Nat \ {0} /\ MaxTime \in Nat
    /\ KeysMaxTtl \in Nat \ {0}
    /\ \A role \in {"admin", "provision"} : Config[role].maxTtl \in Nat
    /\ \A a \in Asks : /\ a.role \in {"admin", "provision", "cli"} /\ a.static \in BOOLEAN
                       /\ a.ttl \in Int

VARIABLES
    now,     \* the wall clock
    rows,    \* gateway_keys, in id order
    by,      \* history: what each row was asked for, and when
    known,   \* the rows whose secret its minter was given
    sealing, \* of each minter: the row it is about to seal, 0 if none
    at,      \* where each verification is
    secret,  \* the secret presented
    found,   \* the row it read
    was      \* history: the answers Valid had since it was presented

keys  == <<rows, by, known, sealing>>
check == <<at, secret, found>>
vars  == <<now, keys, check, was>>

NoRow == [kind |-> "static", hash |-> "nothing", exp |-> 0, scopes |-> {}, revoked |-> TRUE]
Secrets == [id : 1..MaxKeys, tail : {"own", "forged"}]

Init ==
    /\ now = 0
    /\ rows = <<>> /\ by = <<>> /\ known = {} /\ sealing = [w \in Minters |-> 0]
    /\ at     = [v \in Verifiers |-> "idle"]
    /\ secret = [v \in Verifiers |-> [id |-> 1, tail |-> "forged"]]
    /\ found  = [v \in Verifiers |-> NoRow]
    /\ was    = [v \in Verifiers |-> {}]

-------------------------------------------------------------------------------
(* Minting.                                                                *)

(* KeysPolicyFromConfig and ProvisionPolicyFromConfig.                     *)
MaxTtlOf(role) ==
    IF Config[role].maxTtl # 0 THEN Config[role].maxTtl
    ELSE IF role = "provision" THEN DefaultTtl ELSE KeysMaxTtl

ScopesOf(role) ==
    IF Config[role].scopes # {} THEN Config[role].scopes
    ELSE IF role = "provision" THEN {WireScope(w) : w \in ChatWires} ELSE {}

Policies ==
    [role \in {"admin", "provision"} |->
        [maxTtl |-> MaxTtlOf(role), scopes |-> ScopesOf(role), fixed |-> role = "provision"]]

(* A bug: the maximum is not looked at.                                    *)
TtlsUncapped(ttl, max) ==
    IF ttl = 0 THEN {DefaultTtl} ELSE IF ttl < 0 THEN {} ELSE {ttl}

(* ParseDuration, as the set of its result: the fallback is not capped.    *)
Ttls(ttl, max) ==
    IF ttl = 0 THEN {DefaultTtl}
    ELSE IF ttl < 0 THEN {}
    ELSE {IF ttl > max THEN max ELSE ttl}

(* keysCreateCmd, as the set of what is to be created: no policy applies,  *)
(* and a ttl counts for an issued key only.                                *)
GrantedToCli(ask) == {[ttl |-> IF ask.static THEN 0 ELSE ask.ttl, scopes |-> ask.scopes]}

(* createKey up to Create: the same for a role of the admin plane.         *)
GrantedToRole(ask) ==
    LET policy == Policies[ask.role]
        wanted == IF ask.role = "provision" THEN {} ELSE ask.scopes
        ttls   == IF ask.static THEN {0} ELSE Ttls(ask.ttl, policy.maxTtl)
    IN IF ask.role = "provision" /\ ask.static THEN {}
       ELSE {[ttl |-> t, scopes |-> x] : t \in ttls, x \in Resolved(policy, wanted)}

Granted(ask) == IF ask.role = "cli" THEN GrantedToCli(ask) ELSE GrantedToRole(ask)

(* Create's INSERT, with an empty hash; issued keys require a ttl.         *)
Mint(w, ask) ==
    /\ sealing[w] = 0 /\ Len(rows) < MaxKeys
    /\ \E g \in Granted(ask) :
          /\ ask.static \/ g.ttl > 0
          /\ rows' = Append(rows, [kind    |-> IF ask.static THEN "static" ELSE "issued",
                                   hash    |-> "nothing",
                                   exp     |-> IF g.ttl > 0 THEN now + g.ttl ELSE 0,
                                   scopes  |-> g.scopes,
                                   revoked |-> FALSE])
    /\ by' = Append(by, [ask |-> ask, born |-> now])
    /\ sealing' = [sealing EXCEPT ![w] = Len(rows) + 1]
    /\ UNCHANGED <<now, known, check>>

(* A bug: the newest row is sealed.                                        *)
SealNewest(w) ==
    /\ sealing[w] # 0 /\ sealing' = [sealing EXCEPT ![w] = 0]
    /\ rows' = [rows EXCEPT ![Len(rows)].hash = "own"]
    /\ known' \in {known, known \cup {sealing[w]}}
    /\ UNCHANGED <<now, by, check>>

(* Create's UPDATE, and the answer, which may not reach the caller.        *)
Seal(w) ==
    /\ sealing[w] # 0 /\ sealing' = [sealing EXCEPT ![w] = 0]
    /\ rows' = [rows EXCEPT ![sealing[w]].hash = "own"]
    /\ known' \in {known, known \cup {sealing[w]}}
    /\ UNCHANGED <<now, by, check>>

(* The UPDATE fails, or the process ends before it: the row stays.         *)
SealFails(w) ==
    /\ sealing[w] # 0 /\ sealing' = [sealing EXCEPT ![w] = 0]
    /\ UNCHANGED <<now, rows, by, known, check>>

(* DELETE /v1/keys/<id>.                                                   *)
Revoke(id) ==
    /\ ~rows[id].revoked
    /\ rows' = [rows EXCEPT ![id].revoked = TRUE]
    /\ UNCHANGED <<now, by, known, sealing, check>>

-------------------------------------------------------------------------------
(* Verification.                                                           *)

Expired(row, time) == row.exp # 0 /\ time > row.exp

(* A client has the secrets minters were given, and may make one up.       *)
Present(v, s) ==
    /\ at[v] \notin {"select", "decide"} /\ at' = [at EXCEPT ![v] = "select"]
    /\ s.tail = "forged" \/ s.id \in known
    /\ secret' = [secret EXCEPT ![v] = s]
    /\ found'  = [found EXCEPT ![v] = NoRow]
    /\ UNCHANGED <<now, keys>>

(* The SELECT of verifyByID.                                               *)
Select(v) ==
    /\ at[v] = "select"
    /\ LET id == secret[v].id IN
          \/ /\ id \in DOMAIN rows
             /\ at' = [at EXCEPT ![v] = "decide"] /\ found' = [found EXCEPT ![v] = rows[id]]
          \/ /\ id \notin DOMAIN rows
             /\ at' = [at EXCEPT ![v] = "refused"] /\ UNCHANGED found
    /\ UNCHANGED <<now, keys, secret>>

(* It fails, the client being gone or the database locked.                 *)
SelectFails(v) ==
    /\ at[v] = "select" /\ at' = [at EXCEPT ![v] = "failed"]
    /\ UNCHANGED <<now, keys, secret, found>>

(* A bug: a revoked key is not told apart.                                 *)
DecideIgnoringRevoked(v) ==
    /\ at[v] = "decide"
    /\ LET ok == ~Expired(found[v], now) /\ secret[v].tail = found[v].hash
       IN at' = [at EXCEPT ![v] = IF ok THEN "accepted" ELSE "refused"]
    /\ UNCHANGED <<now, keys, secret, found>>

(* The rest of verifyByID: revoked, expired by now, and argonhash.Verify.  *)
Decide(v) ==
    /\ at[v] = "decide"
    /\ LET ok == /\ ~found[v].revoked /\ ~Expired(found[v], now)
                 /\ secret[v].tail = found[v].hash
       IN at' = [at EXCEPT ![v] = IF ok THEN "accepted" ELSE "refused"]
    /\ UNCHANGED <<now, keys, secret, found>>

(* listModels: what GET /v1/models shows.                                  *)
Listed(scopes, m) == FilterModels(scopes, m, WiresOf[m])

Tick ==
    /\ now < MaxTime /\ now' = now + 1
    /\ UNCHANGED <<keys, check>>

-------------------------------------------------------------------------------
(* What a secret is worth: somebody was given it, and it is neither        *)
(* revoked nor past its time.                                              *)
Valid(s) ==
    /\ s.tail = "own" /\ s.id \in known
    /\ ~rows[s.id].revoked /\ ~Expired(rows[s.id], now)

Watch ==
    was' = [v \in Verifiers |->
               IF at'[v] = "select" THEN (IF at[v] = "select" THEN was[v] ELSE {}) \cup {Valid(secret[v])'}
               ELSE IF at[v] = at'[v] /\ at[v] # "decide" THEN was[v]
               ELSE was[v] \cup {Valid(secret[v])'}]

Operate ==
    \/ \E w \in Minters : \/ \E ask \in Asks : Mint(w, ask)
                          \/ Seal(w) \/ SealFails(w)
    \/ \E id \in DOMAIN rows : Revoke(id)
    \/ \E v \in Verifiers : \/ \E s \in Secrets : Present(v, s)
                            \/ Select(v) \/ SelectFails(v) \/ Decide(v)
    \/ Tick

Next == Operate /\ Watch

Spec == Init /\ [][Next]_vars

-------------------------------------------------------------------------------
(* Properties.                                                             *)

ScopeLists == {{}} \cup {a.scopes : a \in Asks} \cup {Policies[role].scopes : role \in DOMAIN Policies}
Rows == [kind : {"static", "issued"}, hash : {"nothing", "own"}, exp : Nat,
         scopes : ScopeLists, revoked : BOOLEAN]

TypeOK ==
    /\ now \in 0..MaxTime
    /\ rows \in Seq(Rows) /\ Len(rows) <= MaxKeys
    /\ by \in Seq([ask : Asks, born : Nat]) /\ Len(by) = Len(rows)
    /\ known \subseteq DOMAIN rows
    /\ sealing \in [Minters -> 0..Len(rows)]
    /\ \A w \in Minters : sealing[w] # 0 => rows[sealing[w]].hash = "nothing"
    /\ at \in [Verifiers -> {"idle", "select", "decide", "accepted", "refused", "failed"}]
    /\ secret \in [Verifiers -> Secrets] /\ found \in [Verifiers -> Rows]
    /\ was \in [Verifiers -> SUBSET BOOLEAN]

(* A verification's answer was right at some time while it ran, although   *)
(* it reads the row once, hashes for long and looks at the clock in        *)
(* between: what is accepted was handed out, not revoked and not expired;  *)
(* what is refused was one of these, and a key handed out by a Create that *)
(* ran meanwhile is not refused for its empty hash.                        *)
VerdictWasRight ==
    \A v \in Verifiers :
        /\ at[v] = "accepted" => TRUE \in was[v]
        /\ at[v] = "refused"  => FALSE \in was[v]

(* What an accepted key may call, the policy of the role it was minted by  *)
(* may call: neither a request without scopes nor an empty policy makes a  *)
(* key that may call more.                                                 *)
GrantsWithinPolicy ==
    \A v \in Verifiers : at[v] = "accepted" =>
        LET role == by[secret[v].id].ask.role IN
        role # "cli" =>
            \A m \in DOMAIN WiresOf : \A w \in WiresOf[m] :
                Authorize(found[v].scopes, m, w) => Authorize(Policies[role].scopes, m, w)

(* GET /v1/models shows a key the models it may call on some wire, and no  *)
(* others: FilterModels and Authorize read the same scope lists.  A model  *)
(* without a modality has no wire to be called on.                         *)
ListedIsCallable ==
    \A v \in Verifiers : at[v] = "accepted" =>
        \A m \in DOMAIN WiresOf : WiresOf[m] # {} =>
            (Listed(found[v].scopes, m)
                <=> \E w \in WiresOf[m] : Authorize(found[v].scopes, m, w))

(* docs/ingress.md: "Provision mints `issued` keys with scopes/TTL capped  *)
(* by `admin.provision` in yaml".  A request that names no ttl gets the    *)
(* 24 h of createKey, whatever max_ttl is; so the property holds where no  *)
(* max_ttl is below them, and only there.                                  *)
LifetimeWithinPolicy ==
    DefaultTtl <= Policies["provision"].maxTtl =>
        \A id \in DOMAIN rows :
            by[id].ask.role = "provision" =>
                /\ rows[id].exp # 0
                /\ rows[id].exp <= by[id].born + Policies["provision"].maxTtl

-------------------------------------------------------------------------------
(* The inductive invariant.                                                *)

(* A row is sealed by the one minter that inserted it, and a secret is     *)
(* handed out when its row has been sealed.                                *)
SealedByOne ==
    /\ \A w, u \in Minters : sealing[w] = sealing[u] /\ sealing[w] # 0 => w = u
    /\ \A id \in known : rows[id].hash = "own"

(* What ResolveScopes leaves of a request: as much as the policy, or       *)
(* something, all of it on the allowlist.                                  *)
Within(scopes, policy) ==
    \/ policy.scopes = {} \/ scopes = policy.scopes
    \/ scopes # {} /\ \A s \in scopes : Allowlisted(s, policy.scopes)

Minted(id) ==
    LET role == by[id].ask.role IN
    /\ role # "cli" => Within(rows[id].scopes, Policies[role])
    /\ role = "provision" /\ DefaultTtl <= Policies["provision"].maxTtl =>
           rows[id].exp # 0 /\ rows[id].exp <= by[id].born + Policies["provision"].maxTtl

(* What a verification has read of its row still holds of it, but for the  *)
(* revocation, which may come later; and it has been watched.              *)
Read(v) ==
    /\ secret[v].id \in DOMAIN rows
    /\ found[v].scopes = rows[secret[v].id].scopes
    /\ found[v].exp = rows[secret[v].id].exp
    /\ found[v].revoked => rows[secret[v].id].revoked
    /\ secret[v].tail = "own" => found[v].hash = "own"

Watched(v) ==
    /\ secret[v].tail = "own" => secret[v].id \in known
    /\ at[v] \in {"decide", "accepted"} => Read(v)
    /\ at[v] = "decide" /\ secret[v].tail = "own"
          /\ ~found[v].revoked /\ ~Expired(found[v], now) => TRUE \in was[v]
    /\ at[v] = "accepted" => TRUE \in was[v]
    /\ at[v] = "refused" => FALSE \in was[v]

IInv ==
    /\ TypeOK /\ SealedByOne
    /\ \A id \in DOMAIN rows : Minted(id)
    /\ \A v \in Verifiers : Watched(v)

===============================================================================
