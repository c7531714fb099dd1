------------------------------- MODULE Lifecycle -------------------------------
(***************************************************************************)
(* The life of a gateway (gateway/gateway.go, gateway/serve.go): two http  *)
(* servers, requests on both, a drain begun by a signal, the context or a  *)
(* listener's failure, or by a host that calls Shutdown itself, and the    *)
(* store, which the deferred Close of Serve and EmbedServe closes when     *)
(* ListenAndServe returns.                                                 *)
(*                                                                         *)
(* http.Server.Shutdown is net/http's: it closes the listener, lets a      *)
(* request on a kept-alive connection in until the connection is found     *)
(* idle, and returns when no connection is busy or its context is over.    *)
(***************************************************************************)
EXTENDS Naturals

CONSTANTS
    Requests,   \* request slots, each used once
    Planes,     \* the listeners: "data", and "admin" if it is enabled
    PlaneOf,    \* the plane each request comes in on
    Tracked,    \* requests routed through track; a DataMount's routes are not
    Callers     \* the goroutines that may call Shutdown: "main", perhaps "host"

ASSUME LifecycleAssumption ==
    /\ Planes \subseteq {"data", "admin"} /\ "data" \in Planes
    /\ PlaneOf \in [Requests -> Planes] /\ Tracked \subseteq Requests
    /\ Callers \subseteq {"main", "host"} /\ "main" \in Callers

VARIABLES
    main,       \* ListenAndServe and its caller: serving, draining, returned, closed (the store)
    listener,   \* of each plane: starting, failed, open, stopped, quiet (no connection left)
    draining,   \* Gateway.draining
    active,     \* Gateway.active, as the set of the requests it counts
    req,        \* where each request is
    sh,         \* where each call of Shutdown is
    done,       \* its "done" channel is closed
    expired     \* its five minutes are over

vars == <<main, listener, draining, active, req, sh, done, expired>>

Init ==
    /\ main = "serving" /\ draining = FALSE /\ active = {}
    /\ listener = [p \in Planes |-> "starting"]
    /\ req = [r \in Requests |-> "none"]
    /\ sh = [c \in Callers |-> "off"]
    /\ done = [c \in Callers |-> FALSE]
    /\ expired = [c \in Callers |-> FALSE]

Busy(p) == {r \in Requests : PlaneOf[r] = p /\ req[r] \in {"arrived", "running"}}

-------------------------------------------------------------------------------
(* Requests.                                                               *)

Arrive(r) ==
    /\ listener[PlaneOf[r]] \in {"open", "stopped"}
    /\ req[r] = "none" /\ req' = [req EXCEPT ![r] = "arrived"]
    /\ UNCHANGED <<main, listener, draining, active, sh, done, expired>>

(* A bug: draining is not looked at.                                       *)
TrackAlways(r) ==
    /\ r \in Tracked /\ req[r] = "arrived"
    /\ req' = [req EXCEPT ![r] = "running"]
    /\ active' = active \cup {r}
    /\ UNCHANGED <<main, listener, draining, sh, done, expired>>

(* track: 503 while draining.                                              *)
Track(r) ==
    /\ r \in Tracked /\ req[r] = "arrived"
    /\ req' = [req EXCEPT ![r] = IF draining THEN "refused" ELSE "running"]
    /\ active' = IF draining THEN active ELSE active \cup {r}
    /\ UNCHANGED <<main, listener, draining, sh, done, expired>>

(* A bug: a mounted route's request is counted, too.                       *)
PassByCounted(r) ==
    /\ r \in Requests \ Tracked
    /\ req[r] = "arrived" /\ req' = [req EXCEPT ![r] = "running"]
    /\ active' = active \cup {r}
    /\ UNCHANGED <<main, listener, draining, sh, done, expired>>

(* A route mounted beside the engine goes straight to its handler.         *)
PassBy(r) ==
    /\ r \in Requests \ Tracked
    /\ req[r] = "arrived" /\ req' = [req EXCEPT ![r] = "running"]
    /\ UNCHANGED <<main, listener, draining, active, sh, done, expired>>

(* The handler returns, and active.Done with it; a snapshot stream's does  *)
(* only when its client leaves.                                            *)
Leave(r) ==
    /\ req[r] = "running" /\ req' = [req EXCEPT ![r] = "ended"]
    /\ active' = active \ {r}
    /\ UNCHANGED <<main, listener, draining, sh, done, expired>>

-------------------------------------------------------------------------------
(* ListenAndServe.                                                         *)

Listen(p) ==
    /\ listener[p] = "starting"
    /\ \E outcome \in {"open", "failed"} : listener' = [listener EXCEPT ![p] = outcome]
    /\ UNCHANGED <<main, draining, active, req, sh, done, expired>>

Call(c) == sh[c] = "off" /\ sh' = [sh EXCEPT ![c] = "begin"]

(* The select: a signal or the end of ctx, ...                             *)
Signalled ==
    /\ main = "serving" /\ main' = "draining" /\ Call("main")
    /\ UNCHANGED <<listener, draining, active, req, done, expired>>

(* ... a listener's error, or ErrServerClosed, which returns at once: it   *)
(* is another's Shutdown that has stopped the listener.                    *)
ServeEnds(p) ==
    /\ main = "serving"
    /\ \/ listener[p] = "failed" /\ main' = "draining" /\ Call("main")
       \/ listener[p] \in {"stopped", "quiet"} /\ main' = "returned" /\ UNCHANGED sh
    /\ UNCHANGED <<listener, draining, active, req, done, expired>>

(* A bug: Shutdown is left to a goroutine.                                 *)
ReturnUndrained ==
    /\ main = "draining" /\ main' = "returned"
    /\ UNCHANGED <<listener, draining, active, req, sh, done, expired>>

Return ==
    /\ main = "draining" /\ sh["main"] = "over" /\ main' = "returned"
    /\ UNCHANGED <<listener, draining, active, req, sh, done, expired>>

CloseStore ==
    /\ main = "returned" /\ main' = "closed"
    /\ UNCHANGED <<listener, draining, active, req, sh, done, expired>>

HostCalls ==
    /\ "host" \in Callers /\ Call("host")
    /\ UNCHANGED <<main, listener, draining, active, req, done, expired>>

-------------------------------------------------------------------------------
(* Shutdown.                                                               *)

StopOf(p) == IF p = "data" THEN "stop data" ELSE "stop admin"
WaitOf(p) == IF p = "data" THEN "wait data" ELSE "wait admin"
Past(p) == IF p = "data" /\ "admin" \in Planes THEN StopOf("admin") ELSE "last"

Step(c, from, to) == sh[c] = from /\ sh' = [sh EXCEPT ![c] = to]
Begun(c) == sh[c] \notin {"off", "begin"}

BeginDrain(c) ==
    /\ Step(c, "begin", StopOf("data"))
    /\ draining' = TRUE
    /\ UNCHANGED <<main, listener, active, req, done, expired>>

(* http.Server.Shutdown of one plane.  A server that is shut down before   *)
(* it serves never serves.                                                 *)
StopListener(c, p) ==
    /\ Step(c, StopOf(p), WaitOf(p))
    /\ listener' = [listener EXCEPT ![p] =
                       IF @ = "open" THEN "stopped" ELSE IF @ = "starting" THEN "quiet" ELSE @]
    /\ UNCHANGED <<main, draining, active, req, done, expired>>

(* A bug: the context has no deadline.                                     *)
PlaneQuietOnly(c, p) ==
    /\ Step(c, WaitOf(p), Past(p))
    /\ Busy(p) = {}
    /\ listener' = [listener EXCEPT ![p] = IF @ = "stopped" THEN "quiet" ELSE @]
    /\ UNCHANGED <<main, draining, active, req, done, expired>>

PlaneQuiet(c, p) ==
    /\ Step(c, WaitOf(p), Past(p))
    /\ \/ /\ Busy(p) = {}
          /\ listener' = [listener EXCEPT ![p] = IF @ = "stopped" THEN "quiet" ELSE @]
       \/ expired[c] /\ UNCHANGED listener
    /\ UNCHANGED <<main, draining, active, req, done, expired>>

(* The goroutine that waits for active, and the timer of shutCtx.          *)
CountIsZero(c) ==
    /\ Begun(c) /\ active = {} /\ ~done[c]
    /\ done' = [done EXCEPT ![c] = TRUE]
    /\ UNCHANGED <<main, listener, draining, active, req, sh, expired>>

Expire(c) ==
    /\ Begun(c) /\ sh[c] # "over" /\ ~expired[c]
    /\ expired' = [expired EXCEPT ![c] = TRUE]
    /\ UNCHANGED <<main, listener, draining, active, req, sh, done>>

(* A bug: Shutdown does not wait for the requests.                         *)
EndDrainAtOnce(c) ==
    /\ Step(c, StopOf("data"), "over")
    /\ listener' = [p \in Planes |-> IF listener[p] = "open" THEN "stopped" ELSE listener[p]]
    /\ UNCHANGED <<main, draining, active, req, done, expired>>

EndDrain(c) ==
    /\ Step(c, "last", "over")
    /\ done[c] \/ expired[c]
    /\ UNCHANGED <<main, listener, draining, active, req, done, expired>>

-------------------------------------------------------------------------------
Serving == \E r \in Requests : Arrive(r) \/ Track(r) \/ PassBy(r) \/ Leave(r)

Running ==
    \/ \E p \in Planes : Listen(p) \/ ServeEnds(p)
    \/ Signalled \/ Return \/ CloseStore \/ HostCalls

Draining(c) ==
    \/ BeginDrain(c) \/ EndDrain(c)
    \/ \E p \in Planes : StopListener(c, p) \/ PlaneQuiet(c, p)

Next ==
    \/ Serving \/ Running
    \/ \E c \in Callers : Draining(c) \/ CountIsZero(c) \/ Expire(c)

Spec == Init /\ [][Next]_vars

(* Shutdown's goroutine runs and its timer fires.  No request has to end,  *)
(* and nobody has to send a signal.                                        *)
FairSpec ==
    Spec /\ \A c \in Callers : WF_vars(Draining(c)) /\ WF_vars(Expire(c))

-------------------------------------------------------------------------------
(* Properties.                                                             *)

Stages == {"off", "begin", "stop data", "wait data", "stop admin", "wait admin", "last", "over"}

TypeOK ==
    /\ main \in {"serving", "draining", "returned", "closed"}
    /\ listener \in [Planes -> {"starting", "failed", "open", "stopped", "quiet"}]
    /\ draining \in BOOLEAN /\ active \subseteq Tracked
    /\ req \in [Requests -> {"none", "arrived", "running", "refused", "ended"}]
    /\ sh \in [Callers -> Stages]
    /\ done \in [Callers -> BOOLEAN] /\ expired \in [Callers -> BOOLEAN]

(* "Shutdown stops accepts and drains in-flight requests": when a call of  *)
(* Shutdown returns with time left, no handler runs and none will, on      *)
(* either plane, tracked or not, although the listeners are stopped one    *)
(* after the other and requests arrive meanwhile.                          *)
DrainedOnReturn ==
    \A c \in Callers : sh[c] = "over" /\ ~expired[c] => \A p \in Planes : Busy(p) = {}

(* How the life of a gateway maps to DrainContract.                        *)
PlaceMap == [r \in Requests |->
                CASE req[r] = "running" -> "inside" [] req[r] = "ended" -> "gone"
                  [] req[r] = "refused" -> "refused" [] OTHER -> "outside"]
DrainMap == [c \in Callers |-> IF sh[c] # "over" THEN "pending"
                               ELSE IF expired[c] THEN "timed out" ELSE "complete"]
ZeroMap  == {c \in Callers : done[c]}

Drain == INSTANCE DrainContract WITH
    Counted <- Tracked, shut <- draining, place <- PlaceMap, zero <- ZeroMap, drain <- DrainMap

(* Shutdown implements DrainContract: nobody is let in or refused on the   *)
(* wrong side of the drain's beginning, the WaitGroup is not added to once *)
(* it has been found at zero, and no handler runs on any plane after one   *)
(* caller's drain has ended in time, whatever another's is still doing.    *)
ImplementsDrain == Drain!Spec

(* The store is open as long as a handler runs, unless the five minutes    *)
(* have passed or a host has called Shutdown: ListenAndServe returns then  *)
(* as soon as a listener is stopped, while the host's drain is under way.  *)
HostIsSilent == "host" \in Callers => sh["host"] = "off"
StoreOutlivesHandlers ==
    main = "closed" /\ HostIsSilent /\ ~expired["main"] => \A r \in Requests : req[r] # "running"

(* Every Shutdown returns, although a request may never end (a client that *)
(* follows the snapshot stream holds it until the five minutes are over).  *)
ShutdownReturns == \A c \in Callers : sh[c] = "begin" ~> sh[c] = "over"

-------------------------------------------------------------------------------
(* The strengthening that makes the invariants above inductive.            *)

(* The stages of a Shutdown that has left plane p behind.                  *)
After(p) == IF p = "data" THEN {"stop admin", "wait admin", "last", "over"} ELSE {"last", "over"}

Paired == \A r \in Tracked : r \in active <=> req[r] = "running"

Begins(c) == /\ Begun(c) => draining
             /\ done[c] => Begun(c) /\ active = {}

(* A plane that has been left behind takes no requests, and has none left  *)
(* unless the time was up.                                                 *)
Leaves(c, p) ==
    /\ sh[c] = WaitOf(p) \/ sh[c] \in After(p) => listener[p] \in {"stopped", "quiet", "failed"}
    /\ sh[c] \in After(p) /\ ~expired[c] => listener[p] \in {"quiet", "failed"}

Silent(p) == listener[p] \in {"starting", "failed", "quiet"} => Busy(p) = {}

(* As long as no host has called, only ListenAndServe stops a listener.    *)
Alone ==
    HostIsSilent =>
        /\ main = "serving" => sh["main"] = "off"
        /\ \A p \in Planes : listener[p] \in {"stopped", "quiet"} => Begun("main")
        /\ main \in {"returned", "closed"} => sh["main"] = "over"

IInv ==
    /\ TypeOK /\ Paired /\ Alone
    /\ \A c \in Callers : Begins(c)
    /\ \A c \in Callers : \A p \in Planes : Leaves(c, p)
    /\ \A p \in Planes : Silent(p)

===============================================================================
