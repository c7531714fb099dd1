--------------------------------- MODULE Vault ---------------------------------
(***************************************************************************)
(* The credential vault, broker.db (credential/store/sqlite.go), as the    *)
(* gateway and the CLI processes write it: credential import, login,       *)
(* disable and refresh.  A step is one SQL statement or one call of the    *)
(* token endpoint, because that is what the operations are made of: no     *)
(* transaction spans two statements, and SetMaxOpenConns(1) orders the     *)
(* statements of one process only.                                         *)
(*                                                                         *)
(* An operator's watcher follows GET /v1/snapshot/stream and lists the     *)
(* credentials when the generation changes (credential/admin/server.go).   *)
(***************************************************************************)
EXTENDS Integers, Sequences, FiniteSets

CONSTANTS
    Profiles,    \* credential profiles
    Procs,       \* processes that have broker.db open
    Settings,    \* who refreshes, and what goes wrong: the values of "with"
    MaxTries,    \* bound on with.tries
    MaxRows,     \* bound on credentials
    MaxOff,      \* bounds on the changes a row has had when it is disabled,
    MaxRev       \* and when a refresh of it begins

ASSUME VaultAssumption ==
    /\ Profiles # {} /\ IsFiniteSet(Procs)
    /\ MaxTries \in Nat /\ MaxRows \in Nat /\ MaxOff \in Nat /\ MaxRev \in Nat
    /\ Settings \subseteq [refreshers : SUBSET Procs, tries : 1..MaxTries,
                           faults : SUBSET {"busy", "crash", "net"},
                           rotates : BOOLEAN, revokes : BOOLEAN]

VARIABLES
    with,   \* refreshers: the processes that refresh OAuth grants
            \* tries: UpdateOAuth calls per refresh, 1 for the CLI, 3 for RefreshProfile
            \* faults: what may go wrong
            \* rotates: the token endpoint replaces the refresh token at each use
            \* revokes: it revokes the grant when a replaced refresh token is used
    rows,   \* the credentials table, in id order
    gen,    \* snapshot_meta.generation
    pc,     \* the statement a process executes next
    job,    \* what its operation works on
    good,   \* the refresh tokens the token endpoint accepts
    seen,   \* lastGen of the snapshot stream
    due,    \* an event the watcher has not yet followed with a listing
    view    \* the list it fetched last

vault   == <<rows, gen>>
process == <<pc, job>>
watcher == <<seen, due, view>>
vars    == <<with, vault, process, good, watcher>>

(* A secret: the grant (the login it comes from) and the serial number of  *)
(* its refresh token.                                                      *)
Secret == [grant: Nat, serial: Nat]
NoJob  == [op |-> "none", profile |-> CHOOSE p \in Profiles : TRUE,
           secret |-> [grant |-> 0, serial |-> 0], id |-> 0, try |-> 0, raced |-> {}]

Init ==
    /\ with \in Settings
    /\ rows = <<>> /\ gen = 1
    /\ pc   = [w \in Procs |-> "idle"]
    /\ job  = [w \in Procs |-> NoJob]
    /\ good = {}
    /\ seen = 1 /\ due = TRUE /\ view = <<>>

GoTo(w, from, to) == pc[w] = from /\ pc' = [pc EXCEPT ![w] = to]
Set(w, j) == job' = [job EXCEPT ![w] = j]

-------------------------------------------------------------------------------
(* Operations of one statement and a BumpGeneration.                       *)

(* PutAPIKey (credential import, POST /v1/credentials) and PutOAuth        *)
(* (credential login, once the grant is there).                            *)
Put(w, p, kind) ==
    LET id     == Len(rows) + 1
        secret == [grant |-> id, serial |-> 0]
    IN /\ id <= MaxRows
       /\ GoTo(w, "idle", "bump")
       /\ rows' = Append(rows, [profile |-> p, kind |-> kind, secret |-> secret,
                                active |-> TRUE, rev |-> 0])
       /\ good' = IF kind = "oauth" THEN good \cup {secret} ELSE good
       /\ Set(w, [NoJob EXCEPT !.op = "put"])
       /\ UNCHANGED <<with, gen, watcher>>

(* A refresh under way: past its Get, and not given up.                    *)
Refreshing(v) == job[v].op = "refresh"

(* A bug: a disabled row is not announced.                                 *)
DisableQuietly(w, id) ==
    /\ pc[w] = "idle" /\ pc' = pc /\ rows[id].rev < MaxOff
    /\ rows' = [rows EXCEPT ![id].active = FALSE, ![id].rev = @ + 1]
    /\ UNCHANGED <<with, gen, job, good, watcher>>

(* Disable: any row by its id, disabled already or not.                    *)
Disable(w, id) ==
    /\ GoTo(w, "idle", "bump") /\ rows[id].rev < MaxOff
    /\ rows' = [rows EXCEPT ![id].active = FALSE, ![id].rev = @ + 1]
    /\ job'  = [v \in Procs |->
                   IF v = w THEN [NoJob EXCEPT !.op = "disable"]
                   ELSE IF Refreshing(v) THEN [job[v] EXCEPT !.raced = @ \cup {id}]
                   ELSE job[v]]
    /\ UNCHANGED <<with, gen, good, watcher>>

-------------------------------------------------------------------------------
(* credential refresh, and RefreshProfile: Get, the token endpoint, then   *)
(* UpdateOAuth.                                                            *)

RowsOf(p)  == {id \in DOMAIN rows : rows[id].profile = p}
OAuthOf(p) == {id \in RowsOf(p) : rows[id].kind = "oauth"}
NewestOf(ids) == {id \in ids : \A other \in ids : other <= id}   \* at most one

Take(w, p, id) ==
    /\ rows[id].kind = "oauth" /\ rows[id].rev < MaxRev
    /\ Set(w, [NoJob EXCEPT !.op = "refresh", !.profile = p,
                            !.secret = rows[id].secret, !.try = 1])
    /\ GoTo(w, "idle", "exchange")
    /\ UNCHANGED <<with, vault, good, watcher>>

(* A bug: a disabled credential is refreshed.                              *)
ReadAnyForRefresh(w, p) ==
    \E id \in NewestOf(RowsOf(p)) : w \in with.refreshers /\ Take(w, p, id)

(* Store.Get returns the newest row of the profile, if it is active; an    *)
(* API key has no refresh token to exchange.                               *)
ReadForRefresh(w, p) ==
    \E id \in NewestOf(RowsOf(p)) : w \in with.refreshers /\ rows[id].active /\ Take(w, p, id)

(* The token endpoint's answer to an accepted refresh token.               *)
Reissued(s) == IF with.rotates THEN [s EXCEPT !.serial = @ + 1] ELSE s

(* A bug: the refresh token of the answer is dropped for the one sent.     *)
ExchangeKeepsToken(w) ==
    /\ GoTo(w, "exchange", "select")
    /\ LET s == job[w].secret IN
          /\ s \in good
          /\ good' = (good \ {s}) \cup {Reissued(s)}
    /\ UNCHANGED <<with, vault, job, watcher>>

(* generic.Refresh: the answer's refresh token, or the one sent if the     *)
(* answer has none.                                                        *)
Exchange(w) ==
    /\ GoTo(w, "exchange", "select")
    /\ LET s == job[w].secret IN
          /\ s \in good
          /\ good' = (good \ {s}) \cup {Reissued(s)}
          /\ Set(w, [job[w] EXCEPT !.secret = Reissued(s)])
    /\ UNCHANGED <<with, vault, watcher>>

(* The refresh token is refused; or the answer is lost on its way.         *)
ExchangeFails(w) ==
    /\ GoTo(w, "exchange", "idle")
    /\ LET s == job[w].secret IN
          \/ /\ s \notin good
             /\ good' = IF with.revokes THEN {g \in good : g.grant # s.grant} ELSE good
          \/ /\ "net" \in with.faults /\ s \in good
             /\ good' \in {good, (good \ {s}) \cup {Reissued(s)}}
    /\ Set(w, NoJob)
    /\ UNCHANGED <<with, vault, watcher>>

(* UpdateOAuth looks for the newest oauth row of the profile again ...     *)
Select(w) ==
    /\ GoTo(w, "select", "update")
    /\ \E id \in NewestOf(OAuthOf(job[w].profile)) : Set(w, [job[w] EXCEPT !.id = id])
    /\ UNCHANGED <<with, vault, good, watcher>>

(* ... and replaces its secret, which makes it active.                     *)
Update(w) ==
    /\ GoTo(w, "update", "bump")
    /\ rows' = [rows EXCEPT ![job[w].id].secret = job[w].secret,
                            ![job[w].id].active = TRUE,
                            ![job[w].id].rev    = @ + 1]
    /\ UNCHANGED <<with, gen, job, good, watcher>>

-------------------------------------------------------------------------------
Finish(w) == pc' = [pc EXCEPT ![w] = "idle"] /\ Set(w, NoJob)

(* A bug: the generation is left as it is.                                 *)
BumpNothing(w) == pc[w] = "bump" /\ Finish(w) /\ UNCHANGED <<with, vault, good, watcher>>

(* BumpGeneration.                                                         *)
Bump(w) ==
    /\ pc[w] = "bump" /\ Finish(w)
    /\ gen' = gen + 1
    /\ UNCHANGED <<with, rows, good, watcher>>

(* A bug: one call too many.                                               *)
RetryOnceMore(w) ==
    \/ /\ job[w].op = "refresh" /\ job[w].try <= with.tries
       /\ pc' = [pc EXCEPT ![w] = "select"]
       /\ Set(w, [job[w] EXCEPT !.try = @ + 1])
    \/ ~(job[w].op = "refresh" /\ job[w].try <= with.tries) /\ Finish(w)

(* RefreshProfile calls UpdateOAuth again, from its SELECT, whichever of   *)
(* its statements failed; the other operations give up, and the Puts do    *)
(* not even report that the generation is the old one.                     *)
Retry(w) ==
    \/ /\ job[w].op = "refresh" /\ job[w].try < with.tries
       /\ pc' = [pc EXCEPT ![w] = "select"]
       /\ Set(w, [job[w] EXCEPT !.try = @ + 1])
    \/ ~(job[w].op = "refresh" /\ job[w].try < with.tries) /\ Finish(w)

(* SQLITE_BUSY: another process has the database locked.                   *)
Busy(w) ==
    /\ "busy" \in with.faults /\ pc[w] \in {"select", "update", "bump"}
    /\ Retry(w)
    /\ UNCHANGED <<with, vault, good, watcher>>

Crash(w) ==
    /\ "crash" \in with.faults /\ pc[w] # "idle"
    /\ Finish(w)
    /\ UNCHANGED <<with, vault, good, watcher>>

-------------------------------------------------------------------------------
(* snapshotStream: an event when a client connects, and one for each       *)
(* generation that differs from the last.                                  *)
Subscribe ==
    /\ seen' = gen /\ due' = TRUE
    /\ UNCHANGED <<with, vault, process, good, view>>

Poll ==
    /\ gen # seen
    /\ seen' = gen /\ due' = TRUE
    /\ UNCHANGED <<with, vault, process, good, view>>

(* ListSummaries: updated_at and the status of every row, no secrets.      *)
Summary(row) == [profile |-> row.profile, kind |-> row.kind,
                 active |-> row.active, rev |-> row.rev]
Summaries == [id \in DOMAIN rows |-> Summary(rows[id])]

List ==
    /\ due /\ due' = FALSE
    /\ view' = Summaries
    /\ UNCHANGED <<with, vault, process, good, seen>>

-------------------------------------------------------------------------------
Begin(w) ==
    \/ \E p \in Profiles : \/ \E kind \in {"api_key", "oauth"} : Put(w, p, kind)
                           \/ ReadForRefresh(w, p)
    \/ \E id \in DOMAIN rows : Disable(w, id)

Proceed(w) == Exchange(w) \/ ExchangeFails(w) \/ Select(w) \/ Update(w) \/ Bump(w)

Next ==
    \/ \E w \in Procs : Begin(w) \/ Proceed(w) \/ Busy(w) \/ Crash(w)
    \/ Subscribe \/ Poll \/ List

Spec == Init /\ [][Next]_vars

(* A statement that is reached is executed, the stream's ticker fires, and *)
(* the watcher follows an event with a listing.  Nobody has to start an    *)
(* operation or to subscribe again.                                        *)
FairSpec == Spec /\ (\A w \in Procs : WF_vars(Proceed(w))) /\ WF_vars(Poll) /\ WF_vars(List)

-------------------------------------------------------------------------------
(* Properties.                                                             *)

Steps == {"idle", "exchange", "select", "update", "bump"}

Row == [profile: Profiles, kind: {"api_key", "oauth"}, secret: Secret, active: BOOLEAN, rev: Nat]
Job(tries) == [op: {"none", "put", "disable", "refresh"}, profile: Profiles,
               secret: Secret, id: Nat, try: 0..tries, raced: SUBSET Nat]

TypeOK ==
    /\ with \in Settings
    /\ rows \in Seq(Row)
    /\ gen \in Nat
    /\ pc \in [Procs -> Steps]
    /\ job \in [Procs -> Job(with.tries)]
    /\ \A w \in Procs : pc[w] = "update" => job[w].id \in OAuthOf(job[w].profile)
    /\ good \subseteq Secret
    /\ seen \in Nat /\ due \in BOOLEAN
    /\ view \in Seq([profile: Profiles, kind: {"api_key", "oauth"}, active: BOOLEAN, rev: Nat])

(* docs/security.md: "re-fetch `GET /v1/credentials` when `generation`     *)
(* changes".  A watcher that does, and has done so for the current         *)
(* generation, has the current list once no operation is half done: no     *)
(* interleaving of two writers and the watcher's poll and listing hides a  *)
(* change behind a generation already seen.                                *)
ViewIsCurrent ==
    (\A w \in Procs : pc[w] = "idle") /\ seen = gen /\ ~due => view = Summaries

(* ... as long as no statement fails and no process ends in the middle: a  *)
(* change whose BumpGeneration fails or is never reached stays unseen.     *)
QuietViewIsCurrent == with.faults = {} => ViewIsCurrent

(* A refresh makes a disabled credential active again only if it was       *)
(* disabled while the refresh was under way: no refresh starts from a      *)
(* credential that is disabled, whichever row UpdateOAuth finds later.     *)
Revived(id) == id \in DOMAIN rows /\ ~rows[id].active /\ rows'[id].active
ReviveOnlyByRace ==
    [][\A id \in DOMAIN rows : Revived(id) =>
          \E w \in Procs : pc[w] = "update" /\ job[w].id = id /\ id \in job[w].raced]_vars

(* The credential that Get returns for an OAuth profile can be refreshed:  *)
(* its refresh token is the one the token endpoint accepts, or a refresh   *)
(* under way has that one and is about to store it, although UpdateOAuth   *)
(* writes without looking at what it replaces.  An endpoint that revokes   *)
(* on reuse needs the single writer of docs/auth.md.                       *)
GrantUsable ==
    with.faults = {} /\ (with.revokes => Cardinality(with.refreshers) = 1) =>
    \A p \in Profiles : \A id \in NewestOf(RowsOf(p)) :
        rows[id].kind = "oauth" =>
            \/ rows[id].secret \in good
            \/ \E w \in Procs : /\ pc[w] \in {"select", "update"}
                                /\ job[w].profile = p /\ job[w].secret \in good

(* oauth.go says that RefreshProfile "loads oauth material, refreshes      *)
(* tokens, and updates the vault row": the row it loaded.  UpdateOAuth     *)
(* looks for a row again, and a login in between makes it another one,     *)
(* whose new grant is then overwritten with the old.                       *)
RefreshUpdatesItsRow ==
    \A id \in DOMAIN rows : rows[id].secret.grant = id

(* A disabled credential is shown to the watcher as disabled, unless it    *)
(* is made active again first, where nothing fails.                        *)
DisableIsListed ==
    \A id \in 1..MaxRows :
        with.faults = {} /\ id \in DOMAIN rows /\ ~rows[id].active
            ~> \/ id \in DOMAIN view /\ ~view[id].active
               \/ id \in DOMAIN rows /\ rows[id].active

===============================================================================
