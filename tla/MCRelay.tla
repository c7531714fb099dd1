-------------------------------- MODULE MCRelay --------------------------------
(* One response of a few lines, of each kind.                              *)
EXTENDS Relay

Setting(sse, flusher, declared) == [sse |-> sse, flusher |-> flusher, declared |-> declared]

(* Event streams to a writer that can flush; other bodies to any.          *)
MCSettings == {x \in [sse : BOOLEAN, flusher : BOOLEAN, declared : BOOLEAN] : x.sse => x.flusher}

(* An event stream behind IngressLog.                                      *)
MCWrapped == {Setting(TRUE, FALSE, FALSE)}

===============================================================================
