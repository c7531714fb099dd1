------------------------------- MODULE AdminPlane ------------------------------
(***************************************************************************)
(* Tokens of the admin plane (ingress/adminauth): created by "daigate      *)
(* admin token create" in broker.db, read by serve when it starts, looked  *)
(* up for every request; and the routes they give access to                *)
(* (credential/admin/server.go).                                           *)
(*                                                                         *)
(* A path is the sequence of the pieces that the code's literals cut it    *)
(* into, so that a prefix of a path is a prefix of the sequence.           *)
(***************************************************************************)
EXTENDS Broker, SequencesExt

CONSTANTS
    Values   \* the tokens that may be presented, those of Procs included

TokensOf(values) == [value : values, role : Roles]

(* Tokens of broker.db are random: none is one of the environment's.       *)
ASSUME PlaneAssumption ==
    /\ Procs \subseteq Values
    /\ \A s \in Settings : s.env \in Seq(TokensOf(Values \ Procs))

VARIABLES
    tokens,  \* the table admin_tokens, in id order
    told,    \* the tokens an operator was shown, each with its role
    entries, \* Middleware.entries of each serve process
    before   \* history: told, when a process began to open broker.db

plane == <<tokens, told, entries, before>>

PlaneInit ==
    /\ tokens = <<>> /\ told = {}
    /\ entries = [c \in Procs |-> <<>>]
    /\ before  = [c \in Procs |-> {}]

-------------------------------------------------------------------------------
(* admin token create: the token is the process's own, being random.       *)

Creates(c) == with.job[c] \in {"admin token", "provision token"}
Role(c)    == IF with.job[c] = "admin token" THEN "admin" ELSE "provision"
Token(c)   == [value |-> c, role |-> Role(c)]

InsertToken(c) ==
    /\ Creates(c) /\ GoTo(c, "run", "tell")
    /\ tokens' = Append(tokens, Token(c))
    /\ UNCHANGED <<with, db, amiss, told, entries, before>>

TellToken(c) ==
    /\ Creates(c) /\ GoTo(c, "tell", "ok")
    /\ told' = told \cup {Token(c)}
    /\ UNCHANGED <<with, db, amiss, tokens, entries, before>>

-------------------------------------------------------------------------------
(* serve.                                                                  *)

(* A bug: one list or the other.                                           *)
LoadedFromOne(env, table) == IF env # <<>> THEN env ELSE table

(* Load: the environment's tokens, then the table's.                       *)
Loaded(env, table) == env \o table

(* openGateway: serve does not start without a token.                      *)
LoadTokens(c) ==
    LET list == Loaded(with.env, tokens) IN
    /\ with.job[c] = "serve"
    /\ GoTo(c, "run", IF list = <<>> THEN "failed" ELSE "serving")
    /\ entries' = [entries EXCEPT ![c] = list]
    /\ UNCHANGED <<with, db, amiss, tokens, told, before>>

LoadBusy(c) ==
    /\ "busy" \in with.faults /\ with.job[c] = "serve"
    /\ GoTo(c, "run", "failed") /\ Blame(c, "busy")
    /\ UNCHANGED <<with, db, plane>>

Stop(c) ==
    /\ GoTo(c, "serving", "ok")
    /\ UNCHANGED <<with, db, amiss, plane>>

(* roleFor: the first entry that matches.                                  *)
RoleFor(list, v) ==
    {list[i].role : i \in {i \in DOMAIN list :
        list[i].value = v /\ \A j \in 1..(i - 1) : list[j].value # v}}

Credentials == <<"/v1/credentials">>
Snapshot    == <<"/v1/snapshot">>
Keys        == <<"/v1/keys">>
Under(path) == path \o <<"/">>

(* The routes' paths, one that only begins like one, and another.          *)
Paths == {Credentials, Under(Credentials) \o <<"1">>, Credentials \o <<"s">>,
          Snapshot, Snapshot \o <<"/stream">>, Keys, Under(Keys) \o <<"1">>,
          <<"/v1/healthz">>, <<"/v1/other">>}

(* A bug: what is denied is the path alone.                                *)
ProvisionDeniedExactly(path) == path \in {Credentials, Snapshot}

(* provisionDeny.                                                          *)
ProvisionDenied(path) == \E p \in {Credentials, Snapshot} : IsPrefix(p, path)

(* Server.route; what follows the prefix of an id is the handler's matter. *)
Route(method, path) ==
    CASE path = Credentials /\ method = "GET"  -> "listCredentials"
      [] path = Credentials /\ method = "POST" -> "importCredential"
      [] IsPrefix(Under(Credentials), path) /\ method = "GET" -> "getCredential"
      [] path = Snapshot \o <<"/stream">> /\ method = "GET" -> "snapshotStream"
      [] path = Snapshot /\ method = "GET"     -> "snapshot"
      [] path = Keys /\ method = "POST"        -> "createKey"
      [] IsPrefix(Under(Keys), path) /\ method = "DELETE" -> "revokeKey"
      [] OTHER -> "NotFound"

(* Handler and Require: what answers a request with token v.               *)
Answerer(list, v, method, path) ==
    IF path = <<"/v1/healthz">> THEN "healthz"
    ELSE IF RoleFor(list, v) = {} THEN "unauthorized"
    ELSE IF RoleFor(list, v) = {"provision"} /\ ProvisionDenied(path) THEN "forbidden"
    ELSE Route(method, path)

OfTheVault == {"listCredentials", "importCredential", "getCredential",
               "snapshot", "snapshotStream"}

PlaneTypeOK ==
    /\ tokens \in Seq(TokensOf(Procs))
    /\ told \subseteq Range(tokens)
    /\ entries \in [Procs -> Seq(TokensOf(Values))]
    /\ before \in [Procs -> SUBSET told]

===============================================================================
