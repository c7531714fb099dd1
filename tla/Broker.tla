--------------------------------- MODULE Broker --------------------------------
(***************************************************************************)
(* The processes that share broker.db, and how each opens it               *)
(* (credential/store/sqlite.go, OpenSQLite).  Every command opens it,      *)
(* serve as well as each CLI process, and brings it up to date by single   *)
(* statements with no transaction around them.  Other processes run theirs *)
(* in between, and any of them may end at any point.                       *)
(*                                                                         *)
(* The file is a new one, one of the first schema, whose gateway_keys has  *)
(* no column for scopes, or one that is up to date.                        *)
(***************************************************************************)
EXTENDS Integers, Sequences, FiniteSets

CONSTANTS
    Procs,     \* processes
    Settings,  \* what they are started for, and what goes wrong: the values of "with"
    MaxGen,    \* the generation is counted up to here
    MaxCalls,  \* bound on the requests a login's callback handler gets
    MaxLife    \* bound on with.lifetime

NewFile  == [tables |-> FALSE, scopes |-> FALSE, gen |-> 0, version |-> 0]
OldFile  == [tables |-> TRUE,  scopes |-> FALSE, gen |-> 1, version |-> 0]
UpToDate == [tables |-> TRUE,  scopes |-> TRUE,  gen |-> 1, version |-> 2]

Roles == {"admin", "provision"}

(* The command of a process: credential import, admin token create for     *)
(* either role, serve, credential login; "none" if it is not started.      *)
Jobs == {"none", "import", "admin token", "provision token", "serve", "login"}

ASSUME BrokerAssumption ==
    /\ MaxGen \in Nat \ {0} /\ MaxCalls \in Nat /\ MaxLife \in Nat
    /\ \A s \in Settings :
          /\ s.file \in {NewFile, OldFile, UpToDate}
          /\ s.job \in [Procs -> Jobs]
          /\ s.faults \subseteq {"busy", "crash", "net"}
          /\ s.flow \in {"browser", "manual", "device"}
          /\ s.fixed \in BOOLEAN /\ s.pkce \in BOOLEAN
          /\ s.lifetime \in 0..MaxLife

VARIABLES
    with,    \* file: what the file is at first; job: the command of each process
             \* faults: what may go wrong: a busy database, a crash, a lost call
             \* env: the tokens in serve's environment, as Load lists them
             \* flow: how login asks; fixed: all listen on one callback address
             \* pkce: the token endpoint checks the code verifier
             \* lifetime: expires_in of a device code, in polling intervals
    db,      \* what the file holds: tables: the tables; scopes: the column;
             \* gen: the row of snapshot_meta, 0 if there is none;
             \* version: the newest row of schema_migrations
    at,      \* where a process is
    amiss    \* history: what has gone wrong around a process since it opened the file

broker == <<with, db, at, amiss>>

Statements == {"schema", "count", "meta", "version", "alter", "record"}

Causes == {"rival", "busy", "taken", "stray", "refused", "mixed up", "lost", "late"}

BrokerInit ==
    /\ with \in Settings
    /\ db = with.file
    /\ at    = [c \in Procs |-> "off"]
    /\ amiss = [c \in Procs |-> {}]

Opening(c) == at[c] \in Statements

GoTo(c, from, to) == at[c] = from /\ at' = [at EXCEPT ![c] = to]
Blame(c, cause)   == amiss' = [amiss EXCEPT ![c] = @ \cup {cause}]

(* A command that is run again when it has ended.                          *)
Repeats(c) == with.job[c] \in {"import", "serve"}

(* Opens that overlap are each other's rivals.                             *)
Open(c) ==
    /\ with.job[c] # "none"
    /\ \/ at[c] = "off"
       \/ Repeats(c) /\ at[c] \in {"ok", "failed"}
    /\ at' = [at EXCEPT ![c] = "schema"]
    /\ amiss' = [d \in Procs |->
                    IF d = c THEN {x \in {"rival"} : \E e \in Procs \ {c} : Opening(e)}
                    ELSE IF Opening(d) THEN amiss[d] \cup {"rival"} ELSE amiss[d]]
    /\ UNCHANGED <<with, db>>

(* schema.sql: CREATE TABLE IF NOT EXISTS, for each of the tables.         *)
Schema(c) ==
    /\ GoTo(c, "schema", "count")
    /\ db' = IF db.tables THEN db ELSE [db EXCEPT !.tables = TRUE, !.scopes = TRUE]
    /\ UNCHANGED <<with, amiss>>

CountMeta(c) ==
    /\ GoTo(c, "count", IF db.gen = 0 THEN "meta" ELSE "version")
    /\ UNCHANGED <<with, db, amiss>>

(* A bug: INSERT OR REPLACE.                                               *)
ReplaceMeta(c) ==
    /\ GoTo(c, "meta", "version") /\ db' = [db EXCEPT !.gen = 1]
    /\ UNCHANGED <<with, amiss>>

(* INSERT of the row with id 1, which another process may have inserted    *)
(* since it was counted.                                                   *)
InsertMeta(c) ==
    /\ \/ db.gen = 0 /\ GoTo(c, "meta", "version") /\ db' = [db EXCEPT !.gen = 1]
       \/ db.gen # 0 /\ GoTo(c, "meta", "failed") /\ UNCHANGED db
    /\ UNCHANGED <<with, amiss>>

ReadVersion(c) ==
    /\ GoTo(c, "version", IF db.version >= 2 THEN "run" ELSE "alter")
    /\ UNCHANGED <<with, db, amiss>>

(* A bug: a column that is there already is an error.                      *)
AlterStrictly(c) ==
    /\ \/ ~db.scopes /\ GoTo(c, "alter", "record") /\ db' = [db EXCEPT !.scopes = TRUE]
       \/ db.scopes /\ GoTo(c, "alter", "failed") /\ UNCHANGED db
    /\ UNCHANGED <<with, amiss>>

(* ADD COLUMN: nothing changes if it is there, and no error is looked at.  *)
AlterKeys(c) ==
    /\ GoTo(c, "alter", "record") /\ db' = [db EXCEPT !.scopes = TRUE]
    /\ UNCHANGED <<with, amiss>>

(* INSERT of version 2, a primary key.                                     *)
RecordVersion(c) ==
    /\ \/ db.version # 2 /\ GoTo(c, "record", "run") /\ db' = [db EXCEPT !.version = 2]
       \/ db.version = 2 /\ GoTo(c, "record", "failed") /\ UNCHANGED db
    /\ UNCHANGED <<with, amiss>>

(* A bug: the version is recorded first.                                   *)
MigrateRecordingFirst(c) ==
    /\ \/ db.version # 2 /\ GoTo(c, "alter", "record") /\ db' = [db EXCEPT !.version = 2]
       \/ db.version = 2 /\ GoTo(c, "alter", "failed") /\ UNCHANGED db
       \/ GoTo(c, "record", "run") /\ db' = [db EXCEPT !.scopes = TRUE]
    /\ UNCHANGED <<with, amiss>>

MigrateV2(c) == AlterKeys(c) \/ RecordVersion(c)

(* SQLITE_BUSY fails the open, but for the two statements whose error is   *)
(* dropped: the version is then 0, and the column is left out.             *)
OpenBusy(c) ==
    /\ "busy" \in with.faults
    /\ \/ \E s \in {"schema", "count", "meta", "record"} : GoTo(c, s, "failed")
       \/ GoTo(c, "version", "alter")
       \/ GoTo(c, "alter", "record")
    /\ Blame(c, "busy")
    /\ UNCHANGED <<with, db>>

OpenStep(c) ==
    \/ Schema(c) \/ CountMeta(c) \/ InsertMeta(c)
    \/ ReadVersion(c) \/ MigrateV2(c)

-------------------------------------------------------------------------------
(* Writes of the commands.                                                 *)

Writes(c) == \/ at[c] = "run" /\ with.job[c] \notin {"serve", "login"}
             \/ at[c] = "put"

(* A bug: the error of the INSERT is dropped too.                          *)
WriteBusyUnseen(c) ==
    /\ "busy" \in with.faults /\ Blame(c, "busy")
    /\ \/ Writes(c) /\ at' = [at EXCEPT ![c] = "tell"]
       \/ GoTo(c, "bump", "ok")
    /\ UNCHANGED <<with, db>>

(* An INSERT that cannot be executed fails its command; the error of a     *)
(* BumpGeneration is dropped.                                              *)
WriteBusy(c) ==
    /\ "busy" \in with.faults /\ Blame(c, "busy")
    /\ \/ Writes(c) /\ at' = [at EXCEPT ![c] = "failed"]
       \/ GoTo(c, "bump", "ok")
    /\ UNCHANGED <<with, db>>

(* credential import: the INSERT of PutAPIKey.                             *)
Import(c) ==
    /\ with.job[c] = "import" /\ GoTo(c, "run", "bump")
    /\ UNCHANGED <<with, db, amiss>>

(* BumpGeneration, after PutAPIKey's INSERT and after PutOAuth's.          *)
BumpGeneration(c) ==
    /\ GoTo(c, "bump", "ok")
    /\ db' = [db EXCEPT !.gen = IF @ \in 1..(MaxGen - 1) THEN @ + 1 ELSE @]
    /\ UNCHANGED <<with, amiss>>

(* The process ends, wherever it is.  A login or a token is asked for      *)
(* once.                                                                   *)
Crash(c) ==
    /\ "crash" \in with.faults /\ at[c] \notin {"off", "ok", "failed", "dead"}
    /\ at' = [at EXCEPT ![c] = IF Repeats(c) THEN "off" ELSE "dead"]
    /\ UNCHANGED <<with, db, amiss>>

Files == [tables : BOOLEAN, scopes : BOOLEAN, gen : 0..MaxGen, version : {0, 2}]

BrokerTypeOK ==
    /\ with \in Settings /\ db \in Files
    /\ amiss \in [Procs -> SUBSET Causes]

===============================================================================
