------------------------------ MODULE MCRotation ------------------------------
(* A small catalog for TLC: two round robin models with the same modality  *)
(* key and wire ("fast" and "smart"), one with a key of its own ("solo"),  *)
(* failover pools over all kinds of surfaces, and pools that fail.         *)
EXTENDS Rotation

Provider(profile, surfaces) ==
    [profile |-> profile, inject |-> {}, preset |-> "", protocol |-> "", surfaces |-> surfaces]
Surface(id, protocol, adapter) == [id |-> id, protocol |-> protocol, adapter |-> adapter]
Entry(ref, model, surface) == [ref |-> ref, model |-> model, surface |-> surface]
Mod(wire, strategy, pool) == [wire |-> wire, strategy |-> strategy, pool |-> pool]

ChatWire == "openai-chat-completions"

MCProviders ==
    [flat |-> [Provider("pf", <<>>) EXCEPT !.protocol = ChatWire],
     multi |-> Provider("pm", << Surface("a", "", "vendor"),
                                 Surface("b", "openai-embeddings", ""),
                                 Surface("c", ChatWire, ""),
                                 Surface("d", "openai-compat-chat", "") >>),
     embed |-> Provider("pe", << Surface("e", "openai-embeddings", "") >>),
     other |-> Provider("po", << Surface("f", "openai-compat-chat", ""),
                                 Surface("g", "openai-transcriptions", "") >>)]

Three == << Entry("flat", "f1", ""), Entry("multi", "m1", ""), Entry("flat", "f2", "") >>
Two   == << Entry("multi", "", "a"), Entry("flat", "f3", "") >>

MCModels ==
    [fast  |-> [chat |-> Mod(ChatWire, "round_robin", Two)],
     smart |-> [chat |-> Mod(ChatWire, "round_robin", Two)],
     solo  |-> [image |-> Mod(ChatWire, "round_robin", Three),
                chat  |-> Mod(ChatWire, "", Three \o Two)],
     mixed |-> [chat       |-> Mod(ChatWire, "failover", Two),
                search_web |-> Mod(ChatWire, "round_robin",
                                   << Entry("multi", "x", "d"), Entry("embed", "y", "") >>),
                embed      |-> Mod("openai-embeddings", "failover", << Entry("multi", "z", "") >>)],
     plain |-> [chat |-> Mod(ChatWire, "failover", << Entry("flat", "", ""), Entry("other", "", "") >>),
                text |-> Mod("openai-audio-transcriptions", "failover", << Entry("other", "", "") >>)],
     odd   |-> [chat |-> Mod(ChatWire, "sticky", Two),
                voice |-> Mod("openai-audio-speech", "failover", <<>>)]]

MCDocument == [models |-> MCModels, providers |-> MCProviders]

Ask(model, wire, header) == [model |-> model, wire |-> wire, header |-> header]

MCAsks ==
    { Ask("fast", ChatWire, ""),  Ask("smart", ChatWire, ""),
      Ask("solo", ChatWire, "image"), Ask("solo", ChatWire, "chat"), Ask("solo", ChatWire, ""),
      Ask("mixed", ChatWire, ""), Ask("mixed", ChatWire, "search_web"),
      Ask("mixed", "openai-embeddings", "chat"), Ask("odd", ChatWire, ""),
      Ask("plain", ChatWire, ""), Ask("plain", "openai-audio-transcriptions", ""),
      Ask("odd", "openai-audio-speech", ""), Ask("none", ChatWire, "") }

MCAdapterHandlers == {<<"chat", "vendor">>}

===============================================================================
