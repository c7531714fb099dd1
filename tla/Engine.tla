-------------------------------- MODULE Engine --------------------------------
(***************************************************************************)
(* The wire engine (wire/wire.go): concurrent requests on the data plane,  *)
(* each authenticated, authorized, resolved to a plan of upstream targets  *)
(* and forwarded along it.  A step of a request is what its handler does   *)
(* between two operations others can overtake: the keyring read, the       *)
(* request body and the catalog, the credential read, the upstream call,   *)
(* the relay of the response.  Meanwhile, in the same broker.db, the admin *)
(* plane and the CLI revoke keys and disable, import and refresh           *)
(* credentials, and clients go away.                                       *)
(***************************************************************************)
EXTENDS Catalog

CONSTANTS
    Requests,          \* request slots, each used once
    Inputs,            \* the requests clients may send: [key, wire, model, header, form, allowed]
                       \*  (allowed: validateWireMethod accepts the method)
    Keys,              \* gateway keys
    KeyScopes,         \* the scopes of each key
    UpstreamStatuses,  \* the statuses upstreams answer with
    MaxVersion,        \* bound on the versions of a credential
    Texts              \* the strings of documents and requests

Profiles == {Document.providers[p].profile : p \in Refs}

Entries == [ref: Texts, model: Texts, surface: Texts]
Ports   == [id: Texts, protocol: Texts, adapter: Texts]     \* a provider's surfaces
Targets == [ref: Refs, protocol: Texts, adapter: Texts, profile: Profiles,
            model: Texts, inject: SUBSET Texts, preset: Texts]
Forms   == {"json", "multipart", "query"}
Kinds   == {"api_key", "oauth"}

ASSUME DocumentAssumption ==
    /\ \A id \in PoolIds :
          /\ Pool(id).wire \in Texts
          /\ Pool(id).strategy \in Texts
          /\ Pool(id).pool \in Seq(Entries)
    /\ \A p \in Refs :
          /\ Document.providers[p].inject \in SUBSET Texts
          /\ Document.providers[p].preset \in Texts
          /\ Document.providers[p].protocol \in Texts
          /\ Document.providers[p].surfaces \in Seq(Ports)

ASSUME InputAssumption ==
    /\ \A in \in Inputs : /\ in.model \in Texts /\ in.form \in Forms
                          /\ in.allowed \in BOOLEAN
    /\ {Omitted, "default"} \subseteq Texts
    /\ UpstreamStatuses \subseteq 200..599
    /\ MaxVersion \in Nat

VARIABLES
    rr,       \* the catalog's round robin counters
    keys,     \* the gateway keys Verify accepts
    cred,     \* the newest row of each credential profile
    pc,       \* where the handler of a request is
    input,    \* the request
    plan,     \* the RoutePlan it was resolved to
    at,       \* the loop variable i, from 1; 0 before the loop
    mat,      \* the Material Store.Get returned for this iteration
    tries,    \* history: one record per iteration of the loop
    open,     \* positions whose upstream response body is not closed
    client,   \* what the client has been answered: status, and the position relayed (0: none)
    gone,     \* the client went away: the request's context is cancelled
    held,     \* history: the key was valid when the request arrived
    live      \* history: the <<profile, version>> active at some time since then

shared == <<rr, keys, cred>>
local  == <<pc, input, plan, at, mat, tries, open, client, gone>>
vars   == <<shared, local, held, live>>

NoInput == [key |-> Omitted, wire |-> Omitted, model |-> Omitted, header |-> Omitted,
            form |-> "json", allowed |-> FALSE]
NoPlan  == [strategy |-> "none", targets |-> <<>>]
NoMat   == [ver |-> 0, kind |-> "api_key"]
Silence == [status |-> 0, from |-> 0]

(* Outcomes of an iteration that are not an upstream status.               *)
Pending == 0
Failed  == 1

Init ==
    /\ rr     = [k \in PoolKeys |-> 0]
    /\ keys   = Keys
    /\ cred   \in [Profiles -> {[ver |-> 0, status |-> "absent", kind |-> "api_key"],
                                [ver |-> 1, status |-> "active", kind |-> "api_key"]}]
    /\ pc     = [r \in Requests |-> "idle"]
    /\ input  = [r \in Requests |-> NoInput]
    /\ plan   = [r \in Requests |-> NoPlan]
    /\ at     = [r \in Requests |-> 0]
    /\ mat    = [r \in Requests |-> NoMat]
    /\ tries  = [r \in Requests |-> <<>>]
    /\ open   = [r \in Requests |-> {}]
    /\ client = [r \in Requests |-> Silence]
    /\ gone   = [r \in Requests |-> FALSE]
    /\ held   = [r \in Requests |-> FALSE]
    /\ live   = [r \in Requests |-> {}]

-------------------------------------------------------------------------------
(* Steps of the handler.                                                   *)

GoTo(r, from, to) == pc[r] = from /\ pc' = [pc EXCEPT ![r] = to]

(* http.Error: the gateway's own answer, and the handler returns.          *)
Answer(r, from, status) ==
    /\ GoTo(r, from, "done")
    /\ client' = [client EXCEPT ![r] = [status |-> status, from |-> 0]]

ActiveNow == {<<p, cred[p].ver>> : p \in {q \in Profiles : cred[q].status = "active"}}

(* A request that the mux has a pattern for arrives.                       *)
Arrive(r, in) ==
    /\ GoTo(r, "idle", "auth")
    /\ input' = [input EXCEPT ![r] = in]
    /\ held'  = [held EXCEPT ![r] = in.key \in keys]
    /\ live'  = [live EXCEPT ![r] = ActiveNow]
    /\ UNCHANGED <<shared, plan, at, mat, tries, open, client, gone>>

(* A bug: withAuth calls the handler although Authenticate failed.         *)
AuthenticateForgetsToReturn(r) ==
    /\ GoTo(r, "auth", "plan")
    /\ UNCHANGED <<shared, input, plan, at, mat, tries, open, client, gone, held, live>>

(* withAuth.  A cancelled context may fail the keyring read.               *)
Authenticate(r) ==
    /\ \/ input[r].key \in keys /\ GoTo(r, "auth", "plan") /\ UNCHANGED client
       \/ (input[r].key \notin keys \/ gone[r]) /\ Answer(r, "auth", 401)
    /\ UNCHANGED <<shared, input, plan, at, mat, tries, open, gone, held, live>>

(* handleWire up to the loop: validateWireMethod, readIngress (which fails *)
(* when the client goes away before its body is read; a GET has none),     *)
(* Authorize, ResolveWithModality.                                         *)
Permitted(in) == Authorize(KeyScopes[in.key], in.model, in.wire)
PoolsOf(in)   == Pools(in.model, in.wire, ModalityHint(in.wire, in.header))
Readable(in)  == in.allowed /\ in.model # Omitted

RefuseRequest(r) ==
    LET in == input[r] IN
    /\ pc[r] = "plan"
    /\ \/ ~in.allowed /\ Answer(r, "plan", 405)
       \/ /\ in.allowed /\ (in.model = Omitted \/ (gone[r] /\ in.form # "query"))
          /\ Answer(r, "plan", 400)
       \/ Readable(in) /\ ~Permitted(in) /\ Answer(r, "plan", 403)
       \/ Readable(in) /\ Permitted(in) /\ PoolsOf(in) = {} /\ Answer(r, "plan", 400)
    /\ UNCHANGED <<shared, input, plan, at, mat, tries, open, gone, held, live>>

Route(r) ==
    /\ pc[r] = "plan"
    /\ Readable(input[r]) /\ Permitted(input[r])
    /\ \E n \in PoolsOf(input[r]) :
          LET mod == Modalities(input[r].model)[n]
              idx == rr[PoolKey(n, mod.wire)]
          IN /\ rr' = Advanced(rr, n, mod)
             /\ \/ /\ PlanBuilds(mod, idx) /\ GoTo(r, "plan", "credential")
                   /\ plan' = [plan EXCEPT ![r] = PlanOf(input[r].model, mod, idx)]
                   /\ at'   = [at EXCEPT ![r] = 1]
                   /\ UNCHANGED client
                \/ ~PlanBuilds(mod, idx) /\ Answer(r, "plan", 400) /\ UNCHANGED <<plan, at>>
    /\ UNCHANGED <<keys, cred, input, mat, tries, open, gone, held, live>>

(* upstream.Retryable.  Any error is retryable.                            *)
Retryable(outcome) == outcome \in {Failed, 402, 429, 502, 503, 504}

Size(r)        == Len(plan[r].targets)
Target(r)      == plan[r].targets[at[r]]
CanFailOver(r) == plan[r].strategy = "failover" /\ at[r] < Size(r)

(* Bugs: the loop ends without an answer; any member's failure is final.   *)
NextOrFallThrough(r, from) ==
    /\ UNCHANGED client
    /\ \/ CanFailOver(r) /\ GoTo(r, from, "credential") /\ at' = [at EXCEPT ![r] = @ + 1]
       \/ ~CanFailOver(r) /\ GoTo(r, from, "done") /\ UNCHANGED at
FailAtOnce(r, from) == Answer(r, from, 502) /\ UNCHANGED at

(* "continue" while there is a member left, or the gateway's 502.          *)
NextOrFail(r, from) ==
    \/ CanFailOver(r) /\ GoTo(r, from, "credential")
       /\ at' = [at EXCEPT ![r] = @ + 1] /\ UNCHANGED client
    \/ ~CanFailOver(r) /\ Answer(r, from, 502) /\ UNCHANGED at

Record(r, sent, ver, model, outcome) ==
    tries' = [tries EXCEPT ![r] = Append(@,
        [pos |-> at[r], sent |-> sent, ver |-> ver, model |-> model, outcome |-> outcome])]

Settle(r, outcome) ==
    tries' = [tries EXCEPT ![r] = [@ EXCEPT ![Len(@)].outcome = outcome]]

(* A bug: the newest row is used whether or not it is disabled.            *)
TakeCredentialIfPresent(r) ==
    /\ GoTo(r, "credential", "forward")
    /\ LET c == cred[Target(r).profile] IN
          /\ c.status # "absent"
          /\ mat' = [mat EXCEPT ![r] = [ver |-> c.ver, kind |-> c.kind]]
    /\ UNCHANGED <<shared, input, plan, at, tries, open, client, gone, held, live>>

(* Store.Get: the newest row of the profile, unless absent or disabled.    *)
TakeCredential(r) ==
    /\ GoTo(r, "credential", "forward")
    /\ LET c == cred[Target(r).profile] IN
          /\ c.status = "active"
          /\ mat' = [mat EXCEPT ![r] = [ver |-> c.ver, kind |-> c.kind]]
    /\ UNCHANGED <<shared, input, plan, at, tries, open, client, gone, held, live>>

CredentialUnavailable(r) ==
    /\ pc[r] = "credential"
    /\ cred[Target(r).profile].status # "active" \/ gone[r]
    /\ NextOrFail(r, "credential")
    /\ Record(r, FALSE, 0, Omitted, Failed)
    /\ UNCHANGED <<shared, input, plan, mat, open, gone, held, live>>

(* inject.ApplyRoute: the inject map wins over the preset, and a template  *)
(* may ask only for what the material has.                                 *)
Injectable(kind, t) ==
    IF t.inject # {}
    THEN t.inject \subseteq (IF kind = "api_key" THEN {"key"} ELSE {"access"})
    ELSE \/ t.preset \in {Omitted, "bearer"}
         \/ t.preset = "x-api-key" /\ kind = "api_key"

(* A bug: the body is not rewritten for the member it goes to.             *)
SentModelAsReceived(in, t) == IF in.form = "query" THEN Omitted ELSE in.model

(* requestBody: rewriteModelBody works on JSON bodies only; a multipart    *)
(* body goes out as it came in, and a GET has none.                        *)
SentModel(in, t) ==
    CASE in.form = "json"      -> t.model
      [] in.form = "multipart" -> in.model
      [] in.form = "query"     -> Omitted

(* A bug: the upstream request is not made under the client's context.     *)
ForwardDetached(r) ==
    /\ GoTo(r, "forward", "await")
    /\ Registered(Target(r), input[r].wire) /\ Injectable(mat[r].kind, Target(r))
    /\ Record(r, TRUE, mat[r].ver, SentModel(input[r], Target(r)), Pending)
    /\ UNCHANGED <<shared, input, plan, at, mat, open, client, gone, held, live>>

(* forward: the handler lookup, the injection, and client.Do, which does   *)
(* not send on a cancelled context.                                        *)
Forward(r) ==
    /\ GoTo(r, "forward", "await")
    /\ Registered(Target(r), input[r].wire) /\ Injectable(mat[r].kind, Target(r)) /\ ~gone[r]
    /\ Record(r, TRUE, mat[r].ver, SentModel(input[r], Target(r)), Pending)
    /\ UNCHANGED <<shared, input, plan, at, mat, open, client, gone, held, live>>

ForwardFails(r) ==
    /\ pc[r] = "forward"
    /\ ~Registered(Target(r), input[r].wire) \/ ~Injectable(mat[r].kind, Target(r)) \/ gone[r]
    /\ NextOrFail(r, "forward")
    /\ Record(r, FALSE, 0, Omitted, Failed)
    /\ UNCHANGED <<shared, input, plan, mat, open, gone, held, live>>

(* The upstream call fails: connection, header timeout, cancelled context. *)
CallFails(r) ==
    /\ pc[r] = "await"
    /\ NextOrFail(r, "await")
    /\ Settle(r, Failed)
    /\ UNCHANGED <<shared, input, plan, mat, open, gone, held, live>>

(* The upstream's response headers arrive; its body is open from here on.  *)
Respond(r, status) ==
    /\ GoTo(r, "await", "headers")
    /\ Settle(r, status)
    /\ open' = [open EXCEPT ![r] = @ \cup {at[r]}]
    /\ UNCHANGED <<shared, input, plan, at, mat, client, gone, held, live>>

Outcome(r) == tries[r][Len(tries[r])].outcome

(* Bugs: the status is not looked at; the abandoned body is not closed.    *)
FailOverOnAnyStatus(r) ==
    /\ GoTo(r, "headers", "credential")
    /\ CanFailOver(r)
    /\ open' = [open EXCEPT ![r] = @ \ {at[r]}]
    /\ at'   = [at EXCEPT ![r] = @ + 1]
    /\ UNCHANGED <<shared, input, plan, mat, tries, client, gone, held, live>>
FailOverUnclosed(r) ==
    /\ GoTo(r, "headers", "credential")
    /\ CanFailOver(r) /\ Retryable(Outcome(r))
    /\ at'   = [at EXCEPT ![r] = @ + 1]
    /\ UNCHANGED <<shared, input, plan, mat, tries, open, client, gone, held, live>>

FailOver(r) ==
    /\ GoTo(r, "headers", "credential")
    /\ CanFailOver(r) /\ Retryable(Outcome(r))
    /\ open' = [open EXCEPT ![r] = @ \ {at[r]}]
    /\ at'   = [at EXCEPT ![r] = @ + 1]
    /\ UNCHANGED <<shared, input, plan, mat, tries, client, gone, held, live>>

(* A bug: a retryable status is relayed with members left.                 *)
StartRelayOfAnyStatus(r) ==
    /\ GoTo(r, "headers", "relay")
    /\ client' = [client EXCEPT ![r] = [status |-> Outcome(r), from |-> at[r]]]
    /\ UNCHANGED <<shared, input, plan, at, mat, tries, open, gone, held, live>>

(* CopyResponse: the status line and headers, ...                          *)
StartRelay(r) ==
    /\ GoTo(r, "headers", "relay")
    /\ ~(CanFailOver(r) /\ Retryable(Outcome(r)))
    /\ client' = [client EXCEPT ![r] = [status |-> Outcome(r), from |-> at[r]]]
    /\ UNCHANGED <<shared, input, plan, at, mat, tries, open, gone, held, live>>

(* A bug: a relay that breaks off is retried on the next member.           *)
EndRelayByRetry(r) ==
    /\ \/ GoTo(r, "relay", "done") /\ UNCHANGED at
       \/ GoTo(r, "relay", "credential") /\ CanFailOver(r) /\ at' = [at EXCEPT ![r] = @ + 1]
    /\ open' = [open EXCEPT ![r] = @ \ {at[r]}]
    /\ UNCHANGED <<shared, input, plan, mat, tries, client, gone, held, live>>

(* ... then the body, to its end or to an error on either side.            *)
EndRelay(r) ==
    /\ GoTo(r, "relay", "done")
    /\ open' = [open EXCEPT ![r] = @ \ {at[r]}]
    /\ UNCHANGED <<shared, input, plan, at, mat, tries, client, gone, held, live>>

-------------------------------------------------------------------------------
(* The clients, and the writers of broker.db.                              *)

Cancel(r) ==
    /\ pc[r] \notin {"idle", "done"} /\ ~gone[r]
    /\ gone' = [gone EXCEPT ![r] = TRUE]
    /\ UNCHANGED <<shared, pc, input, plan, at, mat, tries, open, client, held, live>>

Revoke(k) ==
    /\ k \in keys
    /\ keys' = keys \ {k}
    /\ UNCHANGED <<rr, cred, local, held, live>>

(* Disable of a profile's newest row.                                      *)
Disable(p) ==
    /\ cred[p].status = "active"
    /\ cred' = [cred EXCEPT ![p].status = "disabled"]
    /\ UNCHANGED <<rr, keys, local, held, live>>

(* PutAPIKey, PutOAuth or UpdateOAuth: a new secret, active.               *)
Renew(p, kind) ==
    /\ cred[p].ver < MaxVersion
    /\ cred' = [cred EXCEPT ![p] = [ver |-> @.ver + 1, status |-> "active", kind |-> kind]]
    /\ live' = [r \in Requests |-> IF pc[r] = "idle" THEN live[r]
                                   ELSE live[r] \cup {<<p, cred[p].ver + 1>>}]
    /\ UNCHANGED <<rr, keys, local, held>>

-------------------------------------------------------------------------------
Handle(r) ==
    \/ Authenticate(r) \/ RefuseRequest(r) \/ Route(r)
    \/ TakeCredential(r) \/ CredentialUnavailable(r)
    \/ Forward(r) \/ ForwardFails(r)
    \/ CallFails(r) \/ \E s \in UpstreamStatuses : Respond(r, s)
    \/ FailOver(r) \/ StartRelay(r)

Outside ==
    \/ \E r \in Requests : Cancel(r)
    \/ \E k \in Keys : Revoke(k)
    \/ \E p \in Profiles : Disable(p) \/ \E kind \in Kinds : Renew(p, kind)

Next ==
    \/ \E r \in Requests : Handle(r) \/ EndRelay(r) \/ \E in \in Inputs : Arrive(r, in)
    \/ Outside

Spec == Init /\ [][Next]_vars

(* The handler's own steps are weakly fair: Go schedules its goroutine,    *)
(* and the transport's ResponseHeaderTimeout ends every wait for response  *)
(* headers.  Arrivals, the end of a relayed body and what others do to the *)
(* store are not.                                                          *)
FairSpec == Spec /\ \A r \in Requests : WF_vars(Handle(r))

-------------------------------------------------------------------------------
(* Properties.                                                             *)

Steps == {"idle", "auth", "plan", "credential", "forward", "await", "headers", "relay", "done"}
InLoop == {"credential", "forward", "await", "headers", "relay"}

Attempts == [pos: Nat \ {0}, sent: BOOLEAN, ver: Nat, model: Texts, outcome: Nat]

TypeOK ==
    /\ rr \in [PoolKeys -> Nat]
    /\ keys \subseteq Keys
    /\ cred \in [Profiles -> [ver: Nat, status: {"absent", "active", "disabled"}, kind: Kinds]]
    /\ pc \in [Requests -> Steps]
    /\ input \in [Requests -> Inputs \cup {NoInput}]
    /\ plan \in [Requests -> [strategy: {"none", "failover", "round_robin"}, targets: Seq(Targets)]]
    /\ at \in [Requests -> Nat]
    /\ mat \in [Requests -> [ver: Nat, kind: Kinds]]
    /\ tries \in [Requests -> Seq(Attempts)]
    /\ open \in [Requests -> SUBSET Nat]
    /\ client \in [Requests -> [status: Nat, from: Nat]]
    /\ gone \in [Requests -> BOOLEAN]
    /\ held \in [Requests -> BOOLEAN]
    /\ live \in [Requests -> SUBSET (Profiles \X Nat)]

(* The loop of handleWire visits the plan's members in order and none      *)
(* twice, stays at the first member of a round robin plan, and goes past a *)
(* member only if that member failed or answered with a retryable status   *)
(* (wire.go handleWire, docs/catalog.md Pool strategies).                  *)
InOrder(r) ==
    \A k \in 1..Len(tries[r]) :
        /\ tries[r][k].pos = k
        /\ k < at[r] => /\ plan[r].strategy = "failover"
                        /\ Retryable(tries[r][k].outcome)
AttemptsInOrder == \A r \in Requests : InOrder(r)

(* The client's answer is accounted for by what the upstreams did: what is *)
(* relayed is the status of the last member contacted, which is retryable  *)
(* only when no member was left to try; the gateway answers 502 in its own *)
(* name only when every member it may try has failed.                      *)
Justified(r) ==
    LET n == Len(tries[r]) IN
    /\ client[r].from # 0 =>
          /\ client[r].from = n /\ n > 0 /\ tries[r][n].sent
          /\ client[r].status = tries[r][n].outcome
          /\ plan[r].strategy = "failover" /\ Retryable(client[r].status)
                => n = Size(r)
    /\ client[r].from = 0 /\ n > 0 /\ pc[r] = "done" =>
          /\ client[r].status = 502
          /\ n = Size(r)
          /\ tries[r][n].outcome = Failed
AnswerJustified == \A r \in Requests : Justified(r)

(* Every upstream response body is closed: at most the current member's is *)
(* open, and none once the handler has gone on or returned, whichever of   *)
(* the loop's exits it took (an unclosed body pins its connection).        *)
Closed(r) == open[r] \subseteq (IF pc[r] \in {"headers", "relay"} THEN {at[r]} ELSE {})
BodiesClosed == \A r \in Requests : Closed(r)

(* A call carries a credential of its own target's profile that was active *)
(* at some time since the request arrived: a row disabled or replaced      *)
(* before that is never sent, on the first member or on a later one.       *)
OwnLive(r) ==
    \A k \in 1..Len(tries[r]) :
        tries[r][k].sent =>
            <<plan[r].targets[tries[r][k].pos].profile, tries[r][k].ver>> \in live[r]
NoStaleCredential == \A r \in Requests : OwnLive(r)

(* Each member is asked for its own model: every attempt of a JSON request *)
(* carries the upstream model of the member it goes to, not the catalog id *)
(* and not the model of the member tried before.                           *)
OwnModel(r) ==
    \A k \in 1..Len(tries[r]) :
        tries[r][k].sent /\ input[r].form = "json" =>
            tries[r][k].model = plan[r].targets[tries[r][k].pos].model
OwnModelInJson == \A r \in Requests : OwnModel(r)

(* docs/catalog.md says 'Pool `model` field -> upstream provider model     *)
(* string' of every request, and 'Pool `model:` rewrites the upstream      *)
(* model id'.  rewriteModelBody leaves a multipart body as it came.        *)
OwnModelInBody ==
    \A r \in Requests : \A k \in 1..Len(tries[r]) :
        tries[r][k].sent /\ input[r].form # "query" =>
            tries[r][k].model = plan[r].targets[tries[r][k].pos].model

(* No upstream is called, and no credential taken, for a request whose key *)
(* was not valid when it arrived or does not have the scope for the model  *)
(* or the wire.                                                            *)
Admitted(r) == pc[r] \in InLoop \/ Len(tries[r]) > 0 => held[r] /\ Permitted(input[r])
OnlyAuthorized == \A r \in Requests : Admitted(r)

(* Once the client has its status line, nothing more is tried and the      *)
(* status stands: no retry overtakes a response that has begun.            *)
AnswersStand ==
    \A r \in Requests : client[r].status # 0 =>
        client'[r] = client[r] /\ tries'[r] = tries[r] /\ at'[r] = at[r]
NoWorkAfterAnswer == [][AnswersStand]_vars

(* Once the client is gone no further upstream is called for it: the loop  *)
(* may run on through the pool, but on a cancelled context.                *)
Calls(ts) == {k \in DOMAIN ts : ts[k].sent}
GoneAreNotCalledFor == \A r \in Requests : gone[r] => Calls(tries'[r]) = Calls(tries[r])
NoCallAfterCancel == [][GoneAreNotCalledFor]_vars

(* Every request that arrives is answered, while keys are revoked,         *)
(* credentials change and upstreams fail in any order.                     *)
Answered == \A r \in Requests : pc[r] = "auth" ~> client[r].status # 0

(* The engine implements PoolContract.                                     *)
PhaseOf(r) ==
    CASE pc[r] \in {"idle", "auth", "plan"}                                   -> "waiting"
      [] pc[r] \in {"credential", "forward", "await", "headers"}              -> "trying"
      [] pc[r] = "relay"                                                      -> "delivering"
      [] pc[r] = "done" /\ client[r].from # 0                                 -> "delivered"
      [] pc[r] = "done" /\ client[r].from = 0 /\ at[r] = 0                    -> "refused"
      [] OTHER                                                                -> "exhausted"

PhaseMap == [r \in Requests |-> PhaseOf(r)]
SizeMap  == [r \in Requests |-> Size(r)]

Contract == INSTANCE PoolContract WITH phase <- PhaseMap, size <- SizeMap, member <- at

(* Each request is refused, or tries its pool member by member until one   *)
(* response is delivered or the pool is exhausted (PoolContract).          *)
ImplementsContract == Contract!Spec

-------------------------------------------------------------------------------
(* The strengthening that makes the invariants above inductive.            *)

Ready  == {"credential", "forward"}            \* at the head of an iteration
Called == {"await", "headers", "relay"}        \* its call has been recorded

Unanswered(r) == client[r].status = 0 /\ client[r].from = 0

(* Where a handler is, against how far its history goes.                   *)
LoopShape(r) ==
    /\ pc[r] \in {"idle", "auth", "plan"} =>
          /\ at[r] = 0 /\ Len(tries[r]) = 0 /\ Unanswered(r)
    /\ pc[r] \in InLoop => at[r] \in 1..Size(r)
    /\ pc[r] \in Ready  => Len(tries[r]) = at[r] - 1
    /\ pc[r] \in Called => Len(tries[r]) = at[r] /\ tries[r][Len(tries[r])].sent
    /\ pc[r] \in InLoop \ {"relay"} => Unanswered(r)
    /\ pc[r] = "relay" => client[r].status = Outcome(r) /\ client[r].from = at[r]
    /\ Len(tries[r]) <= at[r] /\ at[r] <= Size(r)

(* A response is being relayed only where the loop could not go on.        *)
RelayShape(r) == pc[r] = "relay" => ~(CanFailOver(r) /\ Retryable(Outcome(r)))

RoundRobinShape(r) == plan[r].strategy # "failover" => Size(r) <= 1

(* What a handler holds from the shared store.                             *)
Fresh(r) ==
    /\ pc[r] # "idle" => ActiveNow \subseteq live[r]
    /\ pc[r] = "forward" => <<Target(r).profile, mat[r].ver>> \in live[r]

Authority(r) ==
    /\ pc[r] = "auth" /\ input[r].key \in keys => held[r]
    /\ pc[r] = "plan" => held[r]

Good(r) ==
    /\ LoopShape(r) /\ RelayShape(r) /\ RoundRobinShape(r)
    /\ InOrder(r) /\ Justified(r) /\ Closed(r)
    /\ Fresh(r) /\ OwnLive(r) /\ OwnModel(r)
    /\ Authority(r) /\ Admitted(r)

IInv == TypeOK /\ \A r \in Requests : Good(r)

===============================================================================
