------------------------------- MODULE MCCommands ------------------------------
(* Three processes on one broker.db.                                       *)
EXTENDS Commands

CONSTANTS x, y, z

NoEnv   == <<>>
BothEnv == <<[value |-> "shared", role |-> "admin"],
             [value |-> "shared", role |-> "provision"],
             [value |-> "env", role |-> "provision"]>>

Jobs3(a, b, c) == [p \in Procs |-> IF p = x THEN a ELSE IF p = y THEN b ELSE c]

Opens(file, jobs, faults, env) ==
    [file |-> file, job |-> jobs, faults |-> faults, env |-> env, flow |-> "browser",
     fixed |-> FALSE, pkce |-> FALSE, lifetime |-> 0]

Logins(n, flow, fixed, pkce, lifetime, faults) ==
    [file |-> UpToDate, job |-> Jobs3("login", IF n = 2 THEN "login" ELSE "none", "none"),
     faults |-> faults, env |-> NoEnv, flow |-> flow, fixed |-> fixed, pkce |-> pkce,
     lifetime |-> lifetime]

(* Files of each kind opened by commands that crash or are refused; logins *)
(* of each flow, alone and with another that uses the same address or is   *)
(* done by the same user, at endpoints that check verifiers or do not.     *)
MCSettings ==
    {Opens(file, Jobs3("import", "provision token", "serve"), {"crash"}, NoEnv) :
        file \in {NewFile, OldFile}}
    \cup {Opens(NewFile, Jobs3("import", "admin token", "serve"), {"busy", "crash"}, NoEnv),
          Opens(OldFile, Jobs3("admin token", "none", "serve"), {"busy"}, BothEnv)}
    \cup {Logins(2, "browser", TRUE, FALSE, 0, {"crash"}),
          Logins(1, "browser", FALSE, TRUE, 0, {"net", "busy"}),
          Logins(2, "manual", FALSE, TRUE, 0, {"net"}),
          Logins(2, "manual", FALSE, FALSE, 0, {}),
          Logins(1, "device", FALSE, TRUE, 0, {}),
          Logins(1, "device", FALSE, TRUE, 4, {}),
          Logins(1, "device", FALSE, TRUE, 3, {"net", "crash"})}

MCValues == Procs \cup {"shared", "env", "unknown"}

===============================================================================
