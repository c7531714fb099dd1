--------------------------------- MODULE MCVideo -------------------------------
(* A round robin pool of two providers of videos.                          *)
EXTENDS Video

MCProvider(profile) ==
    [profile |-> profile, inject |-> {}, preset |-> "", protocol |-> "openai-videos",
     surfaces |-> <<>>]

MCEntry(ref) == [ref |-> ref, model |-> "", surface |-> ""]

MCDocument ==
    [models |-> [film |-> [video |-> [wire |-> VideoWire, strategy |-> "round_robin",
                                      pool |-> <<MCEntry("one"), MCEntry("two")>>]]],
     providers |-> [one |-> MCProvider("p1"), two |-> MCProvider("p2")]]

MCAsks == {[model |-> "film", wire |-> VideoWire, header |-> ""]}

===============================================================================
