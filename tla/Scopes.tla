-------------------------------- MODULE Scopes --------------------------------
(***************************************************************************)
(* Gateway key scopes: what a key may call (ingress/keyring/scopes.go) and *)
(* what a mint request may put on a key (credential/admin/policy.go).      *)
(*                                                                         *)
(* A scope string is "", "*", "model:<id>", "wire:<id>" or something that  *)
(* matches nothing; it is a record [kind, name] here.  A scope list is a   *)
(* set of them: the code only asks whether some element matches, or all.   *)
(***************************************************************************)
EXTENDS FiniteSets

Star          == [kind |-> "all", name |-> "*"]
Blank         == [kind |-> "all", name |-> "-"]
ModelScope(m) == [kind |-> "model", name |-> m]
WireScope(w)  == [kind |-> "wire", name |-> w]

(* keyring.Authorize: no scope at all means no restriction.                *)
Authorize(scopes, model, wire) ==
    \/ scopes = {}
    \/ scopes \cap {Star, Blank, ModelScope(model), WireScope(wire)} # {}

(* A bug: a wire scope lists every model.                                  *)
FilterModelsOfAnyWire(scopes, model, wires) ==
    \/ scopes = {}
    \/ scopes \cap {Star, Blank, ModelScope(model)} # {}
    \/ \E s \in scopes : s.kind = "wire"

(* keyring.FilterModels: a model is listed for any of its wires.           *)
FilterModels(scopes, model, wires) ==
    \/ scopes = {}
    \/ scopes \cap ({Star, Blank, ModelScope(model)}
                    \cup {WireScope(w) : w \in wires}) # {}

-------------------------------------------------------------------------------
(* admin.scopeAllowed.                                                     *)
Allowlisted(scope, allowlist) == allowlist \cap {Star, scope} # {}

(* A bug: a request without scopes passes an allowlist.                    *)
ResolvedEmptyToo(policy, requested) ==
    IF policy.fixed THEN {policy.scopes} \ {{}}
    ELSE IF policy.scopes = {} THEN {requested}
    ELSE {x \in {requested} : \A s \in x : Allowlisted(s, policy.scopes)}

(* MintPolicy.ResolveScopes, as the set of the list it returns: empty when *)
(* it fails.  "fixed" is RequireAllowlist, which the provision policy has. *)
Resolved(policy, requested) ==
    IF policy.fixed THEN {policy.scopes} \ {{}}
    ELSE IF policy.scopes = {} THEN {requested}
    ELSE {x \in {requested} : x # {} /\ \A s \in x : Allowlisted(s, policy.scopes)}

===============================================================================
