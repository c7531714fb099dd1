-------------------------------- MODULE Commands -------------------------------
(***************************************************************************)
(* The processes of one broker.db together: serve and the CLI commands     *)
(* import, admin token create and login, each of which opens the file,     *)
(* does its work and ends, or ends before.                                 *)
(***************************************************************************)
EXTENDS AdminPlane, Login

vars == <<broker, plane, login>>

Init == BrokerInit /\ PlaneInit /\ LoginInit

(* A process starts with the tokens its operator has seen until then.      *)
Start(c) ==
    /\ Open(c)
    /\ before'  = [before EXCEPT ![c] = IF with.job[c] = "serve" THEN told ELSE {}]
    /\ entries' = [entries EXCEPT ![c] = <<>>]
    /\ UNCHANGED <<tokens, told, login>>

(* The steps of a process that nobody else has to act for.                 *)
Proceed(c) ==
    \/ (OpenStep(c) \/ Import(c) \/ BumpGeneration(c)) /\ UNCHANGED <<plane, login>>
    \/ (InsertToken(c) \/ TellToken(c) \/ LoadTokens(c)) /\ UNCHANGED login
    \/ LoginStep(c) /\ UNCHANGED plane

Fault(c) ==
    \/ (OpenBusy(c) \/ WriteBusy(c) \/ Crash(c)) /\ UNCHANGED <<plane, login>>
    \/ LoadBusy(c) /\ UNCHANGED login

Next ==
    \E c \in Procs :
        \/ Start(c) \/ Proceed(c) \/ Fault(c)
        \/ Stop(c) /\ UNCHANGED login
        \/ LoginEvent(c) /\ UNCHANGED plane

Spec == Init /\ [][Next]_vars

(* A process that can take a step does: its statements are executed, its   *)
(* calls answered (oauthHTTP gives up after 60 s), its timers fire and its *)
(* goroutines run.  Nobody has to start a command or to log in.            *)
FairSpec == Spec /\ \A c \in Procs : WF_vars(Proceed(c))

-------------------------------------------------------------------------------
(* Properties.                                                             *)

Places == Statements \cup
    {"off", "run", "tell", "serving", "wait", "exchange", "close", "paste", "sleep",
     "poll", "put", "bump", "ok", "failed", "dead"}

TypeOK ==
    /\ BrokerTypeOK /\ PlaneTypeOK /\ LoginTypeOK
    /\ at \in [Procs -> Places]

Opened(c) == at[c] \notin Statements \cup {"off", "failed", "dead"}

(* Whoever got past OpenSQLite has a row in snapshot_meta to count up, and *)
(* a gateway_keys with the column every statement of the keyring names,    *)
(* wherever other processes are with their own opening, and wherever       *)
(* earlier ones stopped; as long as the database is never busy, because a  *)
(* busy ALTER is recorded as done (sqlite.go:66).                          *)
OpenIsMigrated ==
    \A c \in Procs : Opened(c) =>
        /\ db.gen # 0 /\ db.version = 2
        /\ "busy" \notin with.faults => db.scopes

(* The generation is never set back, although a process that found no row  *)
(* inserts one later, when another may have counted it up: a watcher would *)
(* see a number again that it has already followed.                        *)
GenerationKept == [][db'.gen >= db.gen]_vars

Issued == Range(with.env) \cup Range(tokens)

(* "Token stored in broker.db; restart serve to activate" (admin.go:85):   *)
(* whoever starts serve after that message is served with the role asked   *)
(* for; and no token gives access to credentials or the snapshot but one   *)
(* that was issued to an admin, whatever else the same value was issued    *)
(* for, whatever is below the paths.                                       *)
ServedAsIssued ==
    \A c \in Procs : at[c] = "serving" =>
        /\ \A t \in before[c] : RoleFor(entries[c], t.value) = {t.role}
        /\ \A v \in Values, method \in {"GET", "POST", "DELETE"}, path \in Paths :
              Answerer(entries[c], v, method, path) \in OfTheVault =>
                  [value |-> v, role |-> "admin"] \in Issued

(* A stored grant is of the authorization that its login began, not of     *)
(* another one in another tab: because of the state in the browser flow,   *)
(* of the device code in the device flow, and of the code verifier alone   *)
(* in the manual flow, where the token endpoint has to check it.           *)
GrantIsOurs ==
    with.flow # "manual" \/ with.pkce => \A g \in grants : g.of = g.by

(* A command fails only if something went wrong: another process was       *)
(* opening meanwhile, the database was busy, a callback of another login   *)
(* came or the user declined, codes were mixed up, a call was lost, the    *)
(* user's consent to a device came too late; or serve had no token.  In    *)
(* particular, not because a process before it ended in the middle of      *)
(* opening the file, because the callback page was loaded twice, or        *)
(* because a device was polled before its user had agreed.                 *)
FailsForCause ==
    \A c \in Procs : at[c] = "failed" =>
        \/ amiss[c] # {}
        \/ with.job[c] = "serve" /\ with.env = <<>> /\ before[c] = {}

(* A browser login that got a callback ends, and a device login ends,      *)
(* although handlers of further callbacks wait for channels that nobody    *)
(* reads, and Shutdown for these handlers.                                 *)
Underway(c) == \/ Flow(c, "browser") /\ Serving(c) /\ work[c].left < MaxCalls
               \/ Flow(c, "device") /\ at[c] \in {"sleep", "poll"}
LoginEnds == \A c \in Procs : Underway(c) ~> at[c] \in {"ok", "failed", "dead"}

-------------------------------------------------------------------------------
(* The inductive invariant.                                                *)

(* What a process has seen of the file while it opened it is still so, and *)
(* a version 2 has its column.                                             *)
Migrated ==
    /\ \A c \in Procs : /\ Opened(c) \/ at[c] \in {"version", "alter", "record"} => db.gen # 0
                        /\ Opened(c) => db.version = 2
                        /\ at[c] = "record" /\ "busy" \notin with.faults => db.scopes
    /\ db.version = 2 /\ "busy" \notin with.faults => db.scopes

(* What an operator is about to be told is in the table.                   *)
Inserted(c) == at[c] = "tell" => Token(c) \in Range(tokens)

(* Serve's list has the environment's tokens and those of the table, which *)
(* are as they were created, and what was told before is among them.       *)
Listing(c) ==
    /\ Range(entries[c]) \subseteq Range(with.env) \cup Range(tokens)
    /\ at[c] = "serving" => before[c] \subseteq Range(entries[c])

Created == \A t \in Range(tokens) : t = Token(t.value)

(* A browser login works on nobody else's code; with a verifier the token  *)
(* endpoint gives nobody else's grant.                                     *)
OursOnly(c) ==
    /\ with.flow # "manual" =>
          /\ \A a \in Procs : work[c].blocked[a] > 0 => a = c
          /\ work[c].codeCh \cup work[c].code \subseteq {c}
    /\ with.flow # "manual" \/ with.pkce => work[c].grant \subseteq {c}

(* Processes that open at the same time know it; only a rival, or a busy   *)
(* database, makes a statement of migrate fail that was found to be due.   *)
Rivalry ==
    \A c \in Procs :
        /\ \A d \in Procs \ {c} : Opening(c) /\ Opening(d) => amiss[c] # {}
        /\ at[c] = "meta" /\ db.gen # 0 => amiss[c] # {}
        /\ at[c] \in {"alter", "record"} /\ db.version = 2 => amiss[c] # {}

(* A process is where its command may be.                                  *)
Placed(c) ==
    /\ at[c] \in {"wait", "close"} => Flow(c, "browser")
    /\ at[c] = "paste" => Flow(c, "manual")
    /\ at[c] = "exchange" => Flow(c, "browser") \/ Flow(c, "manual")
    /\ at[c] \in {"sleep", "poll"} => Flow(c, "device")
    /\ at[c] = "put" => with.job[c] = "login"

(* A process that has not begun to log in has nothing to log in with.      *)
Untouched(c) ==
    with.job[c] # "login" \/ at[c] \in Statements \cup {"off", "run"} =>
        asked[c] = "none" /\ work[c] = Fresh

(* Its code is good as long as nobody else has used it.                    *)
BrowserExplained(c) ==
    with.flow = "browser" =>
        /\ work[c].errs > 0 \/ work[c].errCh => amiss[c] # {}
        /\ work[c].blocked[c] > 0 \/ c \in work[c].codeCh \cup work[c].code =>
               asked[c] \in {"issued", "used"}
        /\ at[c] \in {"wait", "exchange"} => asked[c] # "used"
        /\ at[c] = "close" /\ work[c].grant = {} => amiss[c] # {}

ManualExplained(c) ==
    with.flow = "manual" =>
        /\ \A a \in work[c].code :
              /\ asked[a] \in {"issued", "used"}
              /\ a # c => amiss[a] # {} /\ amiss[c] # {}
        /\ at[c] \in {"paste", "exchange"} /\ asked[c] = "used" => amiss[c] # {}

(* The user has been late if the deadline is near and the device is still  *)
(* waiting.                                                                *)
DeviceExplained(c) ==
    with.flow = "device" =>
        /\ asked[c] = "refused" => amiss[c] # {}
        /\ at[c] = "sleep" /\ work[c].spent + 1 >= with.lifetime => amiss[c] # {}
        /\ at[c] = "poll" /\ Late(c, work[c].spent) => amiss[c] # {}
        /\ at[c] = "poll" /\ work[c].spent >= with.lifetime => amiss[c] # {}

Explained(c) ==
    /\ Placed(c) /\ Untouched(c)
    /\ BrowserExplained(c) /\ ManualExplained(c) /\ DeviceExplained(c)

IInv ==
    /\ TypeOK /\ Migrated /\ Created /\ GrantIsOurs
    /\ \A c \in Procs : Inserted(c) /\ Listing(c) /\ OursOnly(c)

(* With it, why commands fail.                                             *)
CauseInv ==
    /\ IInv /\ Rivalry /\ FailsForCause
    /\ \A c \in Procs : Explained(c)

===============================================================================
