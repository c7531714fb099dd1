------------------------------- MODULE MCKeyring -------------------------------
(* Two models; an allowlist for the admin role, the defaults for the       *)
(* provision role.                                                         *)
EXTENDS Keyring

MCWiresOf == [m |-> {"chat"}, n |-> {"chat", "image"}]

Limits(max, scopes) == [maxTtl |-> max, scopes |-> scopes]
MCConfig == [admin     |-> Limits(0, {ModelScope("m"), WireScope("image")}),
             provision |-> Limits(0, {})]

Ask(role, static, ttl, scopes) == [role |-> role, static |-> static, ttl |-> ttl, scopes |-> scopes]
MCAsks ==
    { Ask("provision", FALSE, 0, {}),  Ask("provision", FALSE, 3, {Star}),
      Ask("provision", TRUE, 0, {}),   Ask("admin", FALSE, 1, {WireScope("image")}),
      Ask("admin", TRUE, 0, {ModelScope("m")}), Ask("admin", FALSE, 0, {}),
      Ask("admin", FALSE, 1, {ModelScope("m"), ModelScope("n")}),
      Ask("admin", FALSE, -1, {ModelScope("m")}), Ask("cli", FALSE, 1, {}) }

===============================================================================
