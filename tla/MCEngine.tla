------------------------------- MODULE MCEngine -------------------------------
(* A catalog, keys and requests small enough for TLC: a failover pool with *)
(* a pinned adapter, an unrewritten and a rewritten member over two        *)
(* credential profiles, a round robin pool, pools that cannot be resolved. *)
EXTENDS Engine

Provider(profile, inject, preset, surfaces) ==
    [profile |-> profile, inject |-> inject, preset |-> preset, protocol |-> "",
     surfaces |-> surfaces]
Surface(id, protocol, adapter) == [id |-> id, protocol |-> protocol, adapter |-> adapter]
Entry(ref, model, surface) == [ref |-> ref, model |-> model, surface |-> surface]
Mod(wire, strategy, pool) == [wire |-> wire, strategy |-> strategy, pool |-> pool]

ChatWire == "openai-chat-completions"
ImageWire == "openai-images-generations"
VideoWire == "openai-videos"

MCProviders ==
    [a |-> Provider("pa", {}, "x-api-key",
             << Surface("chat", ChatWire, ""), Surface("images", "openai-images", ""),
                Surface("videos", "openai-videos", "") >>),
     b |-> Provider("pb", {"key"}, "",
             << Surface("chat", ChatWire, ""), Surface("images", "openai-images", ""),
                Surface("vendor", "", "unlinked") >>)]

MCModels ==
    [fo |-> [chat  |-> Mod(ChatWire, "", << Entry("a", "up-a", ""), Entry("b", "up-b", "") >>),
             image |-> Mod(ImageWire, "failover",
                           << Entry("b", "up-v", "vendor"), Entry("a", "up-a", "images") >>),
             video |-> Mod(VideoWire, "", << Entry("a", "up-v", "") >>)],
     rr |-> [chat |-> Mod(ChatWire, "round_robin", << Entry("a", "up-a", ""), Entry("b", "", "") >>)],
     bad |-> [chat |-> Mod(ChatWire, "round_robin", << Entry("nowhere", "x", ""), Entry("b", "x", "") >>)]]

MCDocument == [models |-> MCModels, providers |-> MCProviders]
MCAdapterHandlers == {<<"image", "linked">>}

MCTexts == STRING

In(key, wire, model, form, allowed) ==
    [key |-> key, wire |-> wire, model |-> model, header |-> "", form |-> form,
     allowed |-> allowed]

MCKeyScopes == [k0 |-> {}, k1 |-> {}, k2 |-> {ModelScope("rr"), WireScope(ImageWire)}]
MCKeys == {"k1", "k2"}           \* k0 was never created

(* Every refusal, every form of body, every pool. *)
MCInputs ==
    { In("k1", ChatWire, "fo", "json", TRUE),  In("k2", ChatWire, "rr", "json", TRUE),
      In("k2", ChatWire, "fo", "json", TRUE),  In("k0", ChatWire, "fo", "json", TRUE),
      In("k2", ImageWire, "fo", "multipart", TRUE), In("k1", ChatWire, "bad", "json", TRUE),
      In("k1", VideoWire, "fo", "query", FALSE), In("k1", VideoWire, "fo", "query", TRUE),
      In("k1", ChatWire, "none", "json", TRUE) }

(* A multipart body through a pool that renames its model. *)
MCMultipartInputs == { In("k1", ImageWire, "fo", "multipart", TRUE) }

===============================================================================
