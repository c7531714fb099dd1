------------------------------- MODULE Catalog -------------------------------
(***************************************************************************)
(* Resolution of a catalog model and an ingress wire to an ordered plan of *)
(* upstream targets (catalog/catalog.go, catalog/modality.go) and the      *)
(* handlers a target can be forwarded with (wire/dispatch.go,              *)
(* passthrough/adapter.go).                                                *)
(*                                                                         *)
(* The catalog document never changes while the gateway runs, so it is a   *)
(* CONSTANT.  The only state of the catalog, the round robin counters, is  *)
(* passed to the operators that need it and declared by the modules that   *)
(* use this one.                                                           *)
(***************************************************************************)
EXTENDS Integers, Sequences, FiniteSets, Scopes

CONSTANTS
    Document,        \* [models |-> [id -> [modality key -> modality]],
                     \*  providers |-> [provider_ref -> provider]]
    AdapterHandlers  \* {<<handler kind, adapter name>>} linked into the binary

(* An omitted yaml or JSON field.                                          *)
Omitted == ""

ModelIds   == DOMAIN Document.models
Refs       == DOMAIN Document.providers
Modalities(m) == Document.models[m]

(* Every pool of the document, as <<model, modality key>>.                 *)
PoolIds == {x \in ModelIds \X UNION {DOMAIN Modalities(m) : m \in ModelIds} :
               x[2] \in DOMAIN Modalities(x[1])}
Pool(id) == Modalities(id[1])[id[2]]

(* A pool entry [ref, model, surface], a modality [wire, strategy, pool],  *)
(* a surface [id, protocol, adapter] and a provider [profile, inject,      *)
(* preset, protocol, surfaces].  The code sorts the surface ids before it  *)
(* looks at them: "surfaces" is the sequence in that order.                *)
(* normalize: a legacy flat provider gets one surface, "default".          *)
Surfaces(p) ==
    IF p.surfaces = <<>> /\ p.protocol # Omitted
    THEN <<[id |-> "default", protocol |-> p.protocol, adapter |-> Omitted]>>
    ELSE p.surfaces

(* protocolMatchesWire.                                                    *)
ProtocolMatchesWire(protocol, wire) ==
    <<protocol, wire>> \in
        { <<"openai-chat-completions", "openai-chat-completions">>,
          <<"openai-compat-chat",      "openai-chat-completions">>,
          <<"anthropic-messages",      "anthropic-messages">>,
          <<"openai-embeddings",       "openai-embeddings">>,
          <<"openai-responses",        "openai-responses">>,
          <<"openai-images",           "openai-images-generations">>,
          <<"openai-tts",              "openai-audio-speech">>,
          <<"openai-transcriptions",   "openai-audio-transcriptions">>,
          <<"openai-videos",           "openai-videos">> }

(* ModalityHintFromRequest: the header counts on the chat wires only.      *)
ModalityHint(wire, header) ==
    CASE wire = "openai-embeddings" -> "embed"
      [] wire \in {"openai-images-generations", "openai-audio-speech",
                   "openai-audio-transcriptions", "openai-videos"} -> Omitted
      [] OTHER -> header

-------------------------------------------------------------------------------
(* pickModality, as the set of the modality it picks: empty when it fails. *)
Picked(candidates, hint) ==
    IF hint # Omitted THEN candidates \cap {hint}
    ELSE IF Cardinality(candidates) = 1 THEN candidates
    ELSE IF "chat" \in candidates /\ candidates \subseteq {"chat", "search_web", "search_x"}
         THEN {"chat"}
         ELSE {}

Candidates(model, wire) ==
    {n \in DOMAIN Modalities(model) : Modalities(model)[n].wire = wire}

Strategy(modality) == IF modality.strategy = Omitted THEN "failover" ELSE modality.strategy

(* A bug: an adapter surface is matched although the entry names none.     *)
MatchesUnpinned(s, entry, wire) ==
    IF entry.surface # Omitted
    THEN s.id = entry.surface
    ELSE s.adapter # Omitted \/ ProtocolMatchesWire(s.protocol, wire)

(* surfaceFor, as the index of the surface it returns: the first of those  *)
(* that match.  An adapter surface is used only when the entry names it.   *)
Matches(s, entry, wire) ==
    IF entry.surface # Omitted
    THEN s.id = entry.surface
    ELSE s.adapter = Omitted /\ ProtocolMatchesWire(s.protocol, wire)

SurfaceFor(p, entry, wire) ==
    LET ss == Surfaces(p) IN
    {k \in 1..Len(ss) : /\ Matches(ss[k], entry, wire)
                        /\ \A j \in 1..(k - 1) : ~Matches(ss[j], entry, wire)}

Buildable(entry, wire) ==
    /\ entry.ref \in Refs
    /\ SurfaceFor(Document.providers[entry.ref], entry, wire) # {}

(* targetFromEntry, for an entry that is Buildable.                        *)
TargetOf(model, entry, wire) ==
    LET p == Document.providers[entry.ref]
        k == CHOOSE j \in SurfaceFor(p, entry, wire) : TRUE
        s == Surfaces(p)[k]
    IN [ref      |-> entry.ref,
        protocol |-> s.protocol,
        adapter  |-> s.adapter,
        profile  |-> p.profile,
        model    |-> IF entry.model = Omitted THEN model ELSE entry.model,
        inject   |-> p.inject,
        preset   |-> p.preset]

(* The modality that serves model on wire, if resolution reaches a pool:   *)
(* pickModality succeeds, the pool is not empty and the strategy is known. *)
Pools(model, wire, hint) ==
    IF model \notin ModelIds THEN {}
    ELSE {n \in Picked(Candidates(model, wire), hint) :
             /\ Modalities(model)[n].pool # <<>>
             /\ Strategy(Modalities(model)[n]) \in {"failover", "round_robin"}}

(* pickEntries.  The counter of a round robin pool is found under the      *)
(* modality key and the wire: poolKey does not name the model.             *)
PoolKey(name, wire) == <<name, wire>>
PoolKeys == {PoolKey(id[2], Pool(id).wire) : id \in PoolIds}

Turn(modality, idx) == (idx % Len(modality.pool)) + 1

PickEntries(modality, idx) ==
    IF Strategy(modality) = "round_robin"
    THEN <<modality.pool[Turn(modality, idx)]>>
    ELSE modality.pool

(* Bugs: the counter runs backwards; the counter is not advanced.          *)
AdvancedBackwards(rr, name, modality) ==
    IF Strategy(modality) = "round_robin"
    THEN [rr EXCEPT ![PoolKey(name, modality.wire)] = @ - 1]
    ELSE rr
AdvancedByNothing(rr, name, modality) == rr

(* A pick advances the counter, even if no target can be built from it.    *)
Advanced(rr, name, modality) ==
    IF Strategy(modality) = "round_robin"
    THEN [rr EXCEPT ![PoolKey(name, modality.wire)] = @ + 1]
    ELSE rr

(* ResolveWithModality: one entry without a target fails the whole plan.   *)
PlanOf(model, modality, idx) ==
    LET entries == PickEntries(modality, idx) IN
    [strategy |-> Strategy(modality),
     targets  |-> [k \in 1..Len(entries) |-> TargetOf(model, entries[k], modality.wire)]]

PlanBuilds(modality, idx) ==
    LET entries == PickEntries(modality, idx) IN
    \A k \in 1..Len(entries) : Buildable(entries[k], modality.wire)

-------------------------------------------------------------------------------
(* wire.Engine.forward: the handler table of a wire.                       *)
HandlerKind(wire) ==
    CASE wire = "openai-embeddings"           -> "embed"
      [] wire = "openai-images-generations"   -> "image"
      [] wire = "openai-audio-speech"         -> "speech"
      [] wire = "openai-audio-transcriptions" -> "transcription"
      [] wire = "openai-videos"               -> "video"
      [] OTHER                                -> "chat"

(* passthrough.Adapter.Register.                                           *)
ProtocolHandlers ==
    { <<"chat", "openai-chat-completions">>, <<"chat", "anthropic-messages">>,
      <<"chat", "openai-responses">>,        <<"embed", "openai-embeddings">>,
      <<"image", "openai-images">>,          <<"speech", "openai-tts">>,
      <<"transcription", "openai-transcriptions">>, <<"video", "openai-videos">> }

(* lookupHandler: transcription has no adapter table.                      *)
Registered(target, wire) ==
    IF target.adapter # Omitted
    THEN /\ HandlerKind(wire) # "transcription"
         /\ <<HandlerKind(wire), target.adapter>> \in AdapterHandlers
    ELSE <<HandlerKind(wire), target.protocol>> \in ProtocolHandlers

-------------------------------------------------------------------------------
(* daigate adapters doctor.                                                *)

(* RegisteredRoutes: what the document names, in a pool or not.            *)
AllSurfaces == UNION {{Surfaces(Document.providers[r])[k] :
                         k \in DOMAIN Surfaces(Document.providers[r])} : r \in Refs}
NamedProtocols ==
    ({s.protocol : s \in AllSurfaces} \cup {Document.providers[r].protocol : r \in Refs}) \ {Omitted}
NamedAdapters == {s.adapter : s \in AllSurfaces} \ {Omitted}

(* adaptersDoctorCmd puts the handlers of all kinds together, except those *)
(* of transcriptions.                                                      *)
KnownProtocols == {h[2] : h \in {h \in ProtocolHandlers : h[1] # "transcription"}}
KnownAdapters  == {h[2] : h \in AdapterHandlers}

(* A bug: protocols are looked up as the wires they match.                 *)
MissingByWire == {p \in NamedProtocols : \A h \in ProtocolHandlers : ~ProtocolMatchesWire(p, h[2])}

(* Doctor: what it reports as missing.                                     *)
Missing == (NamedProtocols \ KnownProtocols) \cup (NamedAdapters \ KnownAdapters)

===============================================================================
