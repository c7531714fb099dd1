--------------------------------- MODULE Relay ---------------------------------
(***************************************************************************)
(* The relay of one upstream response to the client (upstream/relay.go     *)
(* CopyResponse and copySSE), line by line for an event stream, chunk by   *)
(* chunk (a "line" here too) otherwise.  The upstream, the client and the  *)
(* handler's goroutine run concurrently; between the handler and the       *)
(* client is net/http's write buffer, which is sent when it is full, when  *)
(* it is flushed and when the handler returns.                             *)
(***************************************************************************)
EXTENDS Naturals

CONSTANTS
    MaxLines,    \* bound on the lines of a response
    Buffer,      \* lines that fit into net/http's write buffer
    Settings     \* what a relay may find: [sse, flusher, declared], see "with"

ASSUME RelayAssumption ==
    /\ MaxLines \in Nat /\ Buffer \in Nat \ {0}
    /\ Settings \subseteq [sse : BOOLEAN, flusher : BOOLEAN, declared : BOOLEAN]

VARIABLES
    with,     \* sse: the response is a text/event-stream; flusher: the handler's
              \*  ResponseWriter is an http.Flusher; declared: the upstream gave a
              \*  Content-Length, which is relayed.  Never changes.
    pc,       \* where the handler is
    up,       \* lines the upstream has sent
    upEnd,    \* "open", or how the upstream ended its response
    read,     \* lines the handler has read
    stop,     \* the reader's error that came with the last line: none, eof, error
    wrote,    \* lines handed to net/http
    got,      \* lines the client has
    gone,     \* the client went away
    ending    \* how the response ends for the client: "open", "whole", "cut"

vars == <<with, pc, up, upEnd, read, stop, wrote, got, gone, ending>>

Init ==
    /\ with \in Settings
    /\ pc = "next" /\ up = 0 /\ upEnd = "open" /\ read = 0 /\ stop = "none"
    /\ wrote = 0 /\ got = 0 /\ gone = FALSE /\ ending = "open"

GoTo(from, to) == pc = from /\ pc' = to

-------------------------------------------------------------------------------
(* The upstream and the client.                                            *)

UpstreamSends ==
    /\ upEnd = "open" /\ up < MaxLines
    /\ up' = up + 1
    /\ UNCHANGED <<with, pc, upEnd, read, stop, wrote, got, gone, ending>>

(* "error": the connection breaks before the response is complete.         *)
UpstreamEnds(how) ==
    /\ upEnd = "open"
    /\ upEnd' = how
    /\ UNCHANGED <<with, pc, up, read, stop, wrote, got, gone, ending>>

(* The request's context is cancelled, on the upstream's side as well.     *)
ClientLeaves ==
    /\ ~gone /\ ending = "open"
    /\ gone' = TRUE
    /\ UNCHANGED <<with, pc, up, upEnd, read, stop, wrote, got, ending>>

-------------------------------------------------------------------------------
(* The handler.                                                            *)

(* copySSE looks at the context before each line, io.Copy does not.        *)
CheckContext ==
    /\ \/ GoTo("next", "read")
       \/ with.sse /\ gone /\ GoTo("next", "return")
    /\ with.sse /\ gone => pc' = "return"
    /\ UNCHANGED <<with, up, upEnd, read, stop, wrote, got, gone, ending>>

(* A line, and with the last one perhaps already the end.                  *)
ReadLine ==
    /\ GoTo("read", "write")
    /\ read < up /\ read' = read + 1
    /\ stop' \in {"none"} \cup {e \in {upEnd} : e # "open" /\ read + 1 = up}
    /\ UNCHANGED <<with, up, upEnd, wrote, got, gone, ending>>

(* A bug: the upstream request is not made under the client's context.     *)
ReadEndDetached ==
    /\ GoTo("read", "return")
    /\ read = up /\ upEnd # "open"
    /\ UNCHANGED <<with, up, upEnd, read, stop, wrote, got, gone, ending>>

(* The end of the body; a cancelled context is an error of the body too.   *)
ReadEnd ==
    /\ GoTo("read", "return")
    /\ (read = up /\ upEnd # "open") \/ gone
    /\ UNCHANGED <<with, up, upEnd, read, stop, wrote, got, gone, ending>>

AfterWrite == IF with.sse /\ with.flusher THEN "flush" ELSE IF stop = "none" THEN "next" ELSE "return"

(* A bug: a line that comes with the end is written again before returning. *)
WriteLastTwice ==
    /\ GoTo("write", AfterWrite)
    /\ wrote' = IF stop = "none" THEN wrote + 1 ELSE wrote + 2
    /\ got' = IF ~gone /\ wrote + 1 - got > Buffer THEN wrote ELSE got
    /\ UNCHANGED <<with, up, upEnd, read, stop, gone, ending>>

(* net/http sends what it has when the line does not fit.                  *)
Write ==
    /\ GoTo("write", AfterWrite)
    /\ wrote' = wrote + 1
    /\ got' = IF ~gone /\ wrote + 1 - got > Buffer THEN wrote ELSE got
    /\ UNCHANGED <<with, up, upEnd, read, stop, gone, ending>>

WriteFails ==
    /\ gone /\ GoTo("write", "return")
    /\ UNCHANGED <<with, up, upEnd, read, stop, wrote, got, gone, ending>>

(* A bug: only the stream's end is flushed.                                *)
FlushAtEnd ==
    /\ GoTo("flush", IF stop = "none" THEN "next" ELSE "return")
    /\ got' = IF gone \/ stop = "none" THEN got ELSE wrote
    /\ UNCHANGED <<with, up, upEnd, read, stop, wrote, gone, ending>>

Flush ==
    /\ GoTo("flush", IF stop = "none" THEN "next" ELSE "return")
    /\ got' = IF gone THEN got ELSE wrote
    /\ UNCHANGED <<with, up, upEnd, read, stop, wrote, gone, ending>>

(* A bug: the response is always ended as if it were complete.             *)
FinishAsWhole ==
    /\ GoTo("return", "done")
    /\ got' = IF gone THEN got ELSE wrote
    /\ ending' = IF gone THEN "cut" ELSE "whole"
    /\ UNCHANGED <<with, up, upEnd, read, stop, wrote, gone>>

(* CopyResponse's error is dropped by handleWire: the handler returns, and *)
(* net/http sends the rest of its buffer and ends the response, which it   *)
(* can tell to be incomplete only by a Content-Length.                     *)
Finish ==
    /\ GoTo("return", "done")
    /\ got' = IF gone THEN got ELSE wrote
    /\ ending' = IF gone \/ (with.declared /\ (upEnd # "eof" \/ wrote < up)) THEN "cut" ELSE "whole"
    /\ UNCHANGED <<with, up, upEnd, read, stop, wrote, gone>>

Handle == CheckContext \/ ReadLine \/ ReadEnd \/ Write \/ WriteFails \/ Flush \/ Finish

Next ==
    \/ UpstreamSends \/ (\E how \in {"eof", "error"} : UpstreamEnds(how)) \/ ClientLeaves
    \/ Handle

Spec == Init /\ [][Next]_vars

(* Go runs the handler's goroutine; a read that can return does.  Nothing  *)
(* makes the upstream send, or the client leave.                           *)
FairSpec == Spec /\ WF_vars(Handle)

-------------------------------------------------------------------------------
(* Properties.                                                             *)

TypeOK ==
    /\ with \in Settings
    /\ pc \in {"next", "read", "write", "flush", "return", "done"}
    /\ up \in 0..MaxLines /\ read \in 0..up /\ wrote \in 0..read /\ got \in 0..wrote
    /\ upEnd \in {"open", "eof", "error"} /\ stop \in {"none", "eof", "error"}
    /\ gone \in BOOLEAN /\ ending \in {"open", "whole", "cut"}

(* "CopyResponse streams upstream response to client, with flush for SSE": *)
(* while the relay waits for the upstream's next event, the client has     *)
(* every event that came before.  IngressLog's statusWriter embeds an      *)
(* http.ResponseWriter and has no Flush of its own, so that copySSE finds  *)
(* no Flusher and events stay in the buffer until it is full.              *)
EventsAreFlushed == with.sse /\ pc = "read" /\ ~gone => got = wrote

(* A response of declared length that ends as complete for the client is   *)
(* complete: every line the upstream sent, up to the end it gave.  One     *)
(* without a Content-Length looks complete if it breaks off upstream.      *)
WholeIsWhole == with.declared /\ ending = "whole" => upEnd = "eof" /\ got = up

(* The relay returns once the upstream has ended its response, and once    *)
(* the client is gone, even while the upstream is silent.                  *)
RelayReturns == (upEnd # "open" \/ gone) ~> pc = "done"

===============================================================================
