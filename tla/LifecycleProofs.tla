---------------------------- MODULE LifecycleProofs ----------------------------
(***************************************************************************)
(* Lifecycle: for every set of requests and every routing of them, with an *)
(* admin plane or without.                                                 *)
(***************************************************************************)
EXTENDS Lifecycle, TLAPS

(* The initial states satisfy the invariant (gateway.go New and the start  *)
(* of ListenAndServe).                                                     *)
LEMMA InitInv == Init => IInv
<1> SUFFICES ASSUME Init PROVE IInv
  OBVIOUS
<1> USE LifecycleAssumption DEF Init
<1>1. TypeOK
  BY DEF TypeOK, Stages
<1>2. Paired /\ Alone
  BY DEF Paired, Alone, HostIsSilent
<1>3. \A c \in Callers : Begins(c)
  BY DEF Begins, Begun
<1>4. \A c \in Callers : \A p \in Planes : Leaves(c, p)
  BY DEF Leaves, After, WaitOf
<1>5. \A p \in Planes : Silent(p)
  BY DEF Silent, Busy
<1>. QED
  BY <1>1, <1>2, <1>3, <1>4, <1>5 DEF IInv

(* Every step of the gateway keeps its variables in their types.           *)
LEMMA TypeStep ==
  ASSUME TypeOK, [Next]_vars
  PROVE  TypeOK'
<1> USE LifecycleAssumption DEF TypeOK, Call, Step, Begun, StopOf, WaitOf, Past, Stages, Busy
<1>1. ASSUME NEW r \in Requests, Arrive(r) PROVE TypeOK'
  BY <1>1 DEF Arrive
<1>2. ASSUME NEW r \in Requests, Track(r) PROVE TypeOK'
  BY <1>2 DEF Track
<1>3. ASSUME NEW r \in Requests, PassBy(r) PROVE TypeOK'
  BY <1>3 DEF PassBy
<1>4. ASSUME NEW r \in Requests, Leave(r) PROVE TypeOK'
  BY <1>4 DEF Leave
<1>5. ASSUME NEW p \in Planes, Listen(p) PROVE TypeOK'
  <2>1. PICK outcome \in {"open", "failed"} : listener' = [listener EXCEPT ![p] = outcome]
    BY <1>5 DEF Listen
  <2>. QED
    BY <1>5, <2>1 DEF Listen
<1>6. ASSUME NEW p \in Planes, ServeEnds(p) PROVE TypeOK'
  BY <1>6 DEF ServeEnds
<1>7. CASE Signalled
  BY <1>7 DEF Signalled
<1>8. CASE Return
  BY <1>8 DEF Return
<1>9. CASE CloseStore
  BY <1>9 DEF CloseStore
<1>10. CASE HostCalls
  BY <1>10 DEF HostCalls
<1>11. ASSUME NEW c \in Callers, BeginDrain(c) PROVE TypeOK'
  BY <1>11 DEF BeginDrain
<1>12. ASSUME NEW c \in Callers, EndDrain(c) PROVE TypeOK'
  BY <1>12 DEF EndDrain
<1>13. ASSUME NEW c \in Callers, NEW p \in Planes, StopListener(c, p) PROVE TypeOK'
  BY <1>13 DEF StopListener
<1>14. ASSUME NEW c \in Callers, NEW p \in Planes, PlaneQuiet(c, p) PROVE TypeOK'
  <2>1. sh' \in [Callers -> Stages]
    BY <1>14 DEF PlaneQuiet
  <2>2. listener' \in [Planes -> {"starting", "failed", "open", "stopped", "quiet"}]
    <3>1. CASE listener' = [listener EXCEPT ![p] = IF @ = "stopped" THEN "quiet" ELSE @]
      BY <3>1
    <3>2. CASE UNCHANGED listener
      BY <3>2
    <3>. QED
      BY <1>14, <3>1, <3>2 DEF PlaneQuiet
  <2>. QED
    BY <1>14, <2>1, <2>2 DEF PlaneQuiet
<1>15. ASSUME NEW c \in Callers, CountIsZero(c) PROVE TypeOK'
  BY <1>15 DEF CountIsZero
<1>16. ASSUME NEW c \in Callers, Expire(c) PROVE TypeOK'
  BY <1>16 DEF Expire
<1>17. CASE UNCHANGED vars
  BY <1>17 DEF vars
<1>. QED
  BY <1>1, <1>2, <1>3, <1>4, <1>5, <1>6, <1>7, <1>8, <1>9, <1>10, <1>11, <1>12, <1>13, <1>14, <1>15, <1>16, <1>17 DEF Next, Serving, Running, Draining


(* active counts the tracked requests that run: Add and Done are paired.   *)
LEMMA CountedStep ==
  ASSUME TypeOK, Paired, [Next]_vars
  PROVE  Paired'
<1> USE LifecycleAssumption DEF TypeOK, Paired, Call, Step, Begun, StopOf, WaitOf, Past, Stages, Busy
<1>1. ASSUME NEW r \in Requests, Arrive(r) PROVE Paired'
  BY <1>1 DEF Arrive
<1>2. ASSUME NEW r \in Requests, Track(r) PROVE Paired'
  BY <1>2 DEF Track
<1>3. ASSUME NEW r \in Requests, PassBy(r) PROVE Paired'
  BY <1>3 DEF PassBy
<1>4. ASSUME NEW r \in Requests, Leave(r) PROVE Paired'
  BY <1>4 DEF Leave
<1>5. ASSUME NEW p \in Planes, Listen(p) PROVE Paired'
  BY <1>5 DEF Listen
<1>6. ASSUME NEW p \in Planes, ServeEnds(p) PROVE Paired'
  BY <1>6 DEF ServeEnds
<1>7. CASE Signalled
  BY <1>7 DEF Signalled
<1>8. CASE Return
  BY <1>8 DEF Return
<1>9. CASE CloseStore
  BY <1>9 DEF CloseStore
<1>10. CASE HostCalls
  BY <1>10 DEF HostCalls
<1>11. ASSUME NEW c \in Callers, BeginDrain(c) PROVE Paired'
  BY <1>11 DEF BeginDrain
<1>12. ASSUME NEW c \in Callers, EndDrain(c) PROVE Paired'
  BY <1>12 DEF EndDrain
<1>13. ASSUME NEW c \in Callers, NEW p \in Planes, StopListener(c, p) PROVE Paired'
  BY <1>13 DEF StopListener
<1>14. ASSUME NEW c \in Callers, NEW p \in Planes, PlaneQuiet(c, p) PROVE Paired'
  BY <1>14 DEF PlaneQuiet
<1>15. ASSUME NEW c \in Callers, CountIsZero(c) PROVE Paired'
  BY <1>15 DEF CountIsZero
<1>16. ASSUME NEW c \in Callers, Expire(c) PROVE Paired'
  BY <1>16 DEF Expire
<1>17. CASE UNCHANGED vars
  BY <1>17 DEF vars
<1>. QED
  BY <1>1, <1>2, <1>3, <1>4, <1>5, <1>6, <1>7, <1>8, <1>9, <1>10, <1>11, <1>12, <1>13, <1>14, <1>15, <1>16, <1>17 DEF Next, Serving, Running, Draining


(* A plane that never opened, or was found quiet, has no busy request.     *)
LEMMA SilentStep ==
  ASSUME TypeOK, \A q \in Planes : Silent(q), [Next]_vars
  PROVE  (\A q \in Planes : Silent(q))'
<1> USE LifecycleAssumption DEF TypeOK, Silent, Call, Step, Begun, StopOf, WaitOf, Past, Stages, Busy
<1>1. ASSUME NEW r \in Requests, Arrive(r) PROVE (\A q \in Planes : Silent(q))'
  BY <1>1 DEF Arrive
<1>2. ASSUME NEW r \in Requests, Track(r) PROVE (\A q \in Planes : Silent(q))'
  BY <1>2 DEF Track
<1>3. ASSUME NEW r \in Requests, PassBy(r) PROVE (\A q \in Planes : Silent(q))'
  BY <1>3 DEF PassBy
<1>4. ASSUME NEW r \in Requests, Leave(r) PROVE (\A q \in Planes : Silent(q))'
  BY <1>4 DEF Leave
<1>5. ASSUME NEW p \in Planes, Listen(p) PROVE (\A q \in Planes : Silent(q))'
  BY <1>5 DEF Listen
<1>6. ASSUME NEW p \in Planes, ServeEnds(p) PROVE (\A q \in Planes : Silent(q))'
  BY <1>6 DEF ServeEnds
<1>7. CASE Signalled
  BY <1>7 DEF Signalled
<1>8. CASE Return
  BY <1>8 DEF Return
<1>9. CASE CloseStore
  BY <1>9 DEF CloseStore
<1>10. CASE HostCalls
  BY <1>10 DEF HostCalls
<1>11. ASSUME NEW c \in Callers, BeginDrain(c) PROVE (\A q \in Planes : Silent(q))'
  BY <1>11 DEF BeginDrain
<1>12. ASSUME NEW c \in Callers, EndDrain(c) PROVE (\A q \in Planes : Silent(q))'
  BY <1>12 DEF EndDrain
<1>13. ASSUME NEW c \in Callers, NEW p \in Planes, StopListener(c, p) PROVE (\A q \in Planes : Silent(q))'
  BY <1>13 DEF StopListener
<1>14. ASSUME NEW c \in Callers, NEW p \in Planes, PlaneQuiet(c, p) PROVE (\A q \in Planes : Silent(q))'
  BY <1>14 DEF PlaneQuiet
<1>15. ASSUME NEW c \in Callers, CountIsZero(c) PROVE (\A q \in Planes : Silent(q))'
  BY <1>15 DEF CountIsZero
<1>16. ASSUME NEW c \in Callers, Expire(c) PROVE (\A q \in Planes : Silent(q))'
  BY <1>16 DEF Expire
<1>17. CASE UNCHANGED vars
  BY <1>17 DEF vars
<1>. QED
  BY <1>1, <1>2, <1>3, <1>4, <1>5, <1>6, <1>7, <1>8, <1>9, <1>10, <1>11, <1>12, <1>13, <1>14, <1>15, <1>16, <1>17 DEF Next, Serving, Running, Draining


(* A call of Shutdown does not count as begun before it has set draining.  *)
LEMMA CallIsNotBegun ==
  ASSUME TypeOK, NEW c \in Callers, Call(c), NEW d \in Callers
  PROVE  Begun(d)' <=> Begun(d)
<1>1. sh \in [Callers -> Stages] /\ sh[c] = "off" /\ sh' = [sh EXCEPT ![c] = "begin"]
  BY DEF TypeOK, Call
<1>2. CASE d = c
  BY <1>1, <1>2 DEF Begun
<1>3. CASE d # c
  BY <1>1, <1>3 DEF Begun
<1>. QED
  BY <1>2, <1>3

(* A wait for active that is over stays over, because draining is set      *)
(* before it begins and track looks at it under the same lock.             *)
LEMMA BeginsStep ==
  ASSUME TypeOK, NEW d \in Callers, Begins(d), [Next]_vars
  PROVE  Begins(d)'
<1> USE LifecycleAssumption DEF TypeOK, Begins, Call, Step, Begun, StopOf, WaitOf, Past, Stages, Busy
<1>1. ASSUME NEW r \in Requests, Arrive(r) PROVE Begins(d)'
  BY <1>1 DEF Arrive
<1>2. ASSUME NEW r \in Requests, Track(r) PROVE Begins(d)'
  BY <1>2 DEF Track
<1>3. ASSUME NEW r \in Requests, PassBy(r) PROVE Begins(d)'
  BY <1>3 DEF PassBy
<1>4. ASSUME NEW r \in Requests, Leave(r) PROVE Begins(d)'
  BY <1>4 DEF Leave
<1>5. ASSUME NEW p \in Planes, Listen(p) PROVE Begins(d)'
  BY <1>5 DEF Listen
<1>6. ASSUME NEW p \in Planes, ServeEnds(p) PROVE Begins(d)'
  <2>1. UNCHANGED <<draining, active, done>> /\ (sh' = sh \/ Call("main"))
    BY <1>6 DEF ServeEnds
  <2>2. CASE d = "main"
    BY <2>1, <2>2
  <2>3. CASE d # "main"
    BY <2>1, <2>3
  <2>. QED
    BY <2>2, <2>3
<1>7. CASE Signalled
  BY <1>7 DEF Signalled
<1>8. CASE Return
  BY <1>8 DEF Return
<1>9. CASE CloseStore
  BY <1>9 DEF CloseStore
<1>10. CASE HostCalls
  <2>1. "host" \in Callers /\ Call("host") /\ UNCHANGED <<draining, active, done>>
    BY <1>10 DEF HostCalls
  <2>2. Begun(d)' <=> Begun(d)
    BY <2>1, CallIsNotBegun
  <2>. QED
    BY <2>1, <2>2
<1>11. ASSUME NEW c \in Callers, BeginDrain(c) PROVE Begins(d)'
  BY <1>11 DEF BeginDrain
<1>12. ASSUME NEW c \in Callers, EndDrain(c) PROVE Begins(d)'
  BY <1>12 DEF EndDrain
<1>13. ASSUME NEW c \in Callers, NEW p \in Planes, StopListener(c, p) PROVE Begins(d)'
  BY <1>13 DEF StopListener
<1>14. ASSUME NEW c \in Callers, NEW p \in Planes, PlaneQuiet(c, p) PROVE Begins(d)'
  BY <1>14 DEF PlaneQuiet
<1>15. ASSUME NEW c \in Callers, CountIsZero(c) PROVE Begins(d)'
  BY <1>15 DEF CountIsZero
<1>16. ASSUME NEW c \in Callers, Expire(c) PROVE Begins(d)'
  BY <1>16 DEF Expire
<1>17. CASE UNCHANGED vars
  BY <1>17 DEF vars
<1>. QED
  BY <1>1, <1>2, <1>3, <1>4, <1>5, <1>6, <1>7, <1>8, <1>9, <1>10, <1>11, <1>12, <1>13, <1>14, <1>15, <1>16, <1>17 DEF Next, Serving, Running, Draining


(* A Shutdown leaves a plane behind stopped, and quiet if it had time.     *)
LEMMA LeavesStep ==
  ASSUME TypeOK, NEW d \in Callers, NEW q \in Planes, Leaves(d, q), [Next]_vars
  PROVE  Leaves(d, q)'
<1> USE LifecycleAssumption DEF TypeOK, Leaves, After, Call, Step, Begun, StopOf, WaitOf, Past, Stages, Busy
<1>1. ASSUME NEW r \in Requests, Arrive(r) PROVE Leaves(d, q)'
  BY <1>1 DEF Arrive
<1>2. ASSUME NEW r \in Requests, Track(r) PROVE Leaves(d, q)'
  BY <1>2 DEF Track
<1>3. ASSUME NEW r \in Requests, PassBy(r) PROVE Leaves(d, q)'
  BY <1>3 DEF PassBy
<1>4. ASSUME NEW r \in Requests, Leave(r) PROVE Leaves(d, q)'
  BY <1>4 DEF Leave
<1>5. ASSUME NEW p \in Planes, Listen(p) PROVE Leaves(d, q)'
  <2>1. PICK outcome \in {"open", "failed"} : listener' = [listener EXCEPT ![p] = outcome]
    BY <1>5 DEF Listen
  <2>. QED
    BY <1>5, <2>1 DEF Listen
<1>6. ASSUME NEW p \in Planes, ServeEnds(p) PROVE Leaves(d, q)'
  BY <1>6 DEF ServeEnds
<1>7. CASE Signalled
  BY <1>7 DEF Signalled
<1>8. CASE Return
  BY <1>8 DEF Return
<1>9. CASE CloseStore
  BY <1>9 DEF CloseStore
<1>10. CASE HostCalls
  <2>1. CASE d = "host"
    <3>1. sh'[d] = "begin"
      BY <1>10, <2>1 DEF HostCalls
    <3>. QED
      BY <3>1
  <2>2. CASE d # "host"
    BY <1>10, <2>2 DEF HostCalls
  <2>. QED
    BY <2>1, <2>2
<1>11. ASSUME NEW c \in Callers, BeginDrain(c) PROVE Leaves(d, q)'
  BY <1>11 DEF BeginDrain
<1>12. ASSUME NEW c \in Callers, EndDrain(c) PROVE Leaves(d, q)'
  BY <1>12 DEF EndDrain
<1>13. ASSUME NEW c \in Callers, NEW p \in Planes, StopListener(c, p) PROVE Leaves(d, q)'
  BY <1>13 DEF StopListener
<1>14. ASSUME NEW c \in Callers, NEW p \in Planes, PlaneQuiet(c, p) PROVE Leaves(d, q)'
  <2>1. sh[c] = WaitOf(p) /\ sh' = [sh EXCEPT ![c] = Past(p)] /\ expired' = expired
    BY <1>14 DEF PlaneQuiet
  <2>2. CASE Busy(p) = {} /\ listener' = [listener EXCEPT ![p] = IF @ = "stopped" THEN "quiet" ELSE @]
    <3>1. CASE d = c
      BY <2>1, <2>2, <3>1
    <3>2. CASE d # c
      BY <2>1, <2>2, <3>2
    <3>. QED
      BY <3>1, <3>2
  <2>3. CASE expired[c] /\ listener' = listener
    <3>1. CASE d = c
      BY <2>1, <2>3, <3>1
    <3>2. CASE d # c
      BY <2>1, <2>3, <3>2
    <3>. QED
      BY <3>1, <3>2
  <2>. QED
    BY <1>14, <2>2, <2>3 DEF PlaneQuiet
<1>15. ASSUME NEW c \in Callers, CountIsZero(c) PROVE Leaves(d, q)'
  BY <1>15 DEF CountIsZero
<1>16. ASSUME NEW c \in Callers, Expire(c) PROVE Leaves(d, q)'
  BY <1>16 DEF Expire
<1>17. CASE UNCHANGED vars
  BY <1>17 DEF vars
<1>. QED
  BY <1>1, <1>2, <1>3, <1>4, <1>5, <1>6, <1>7, <1>8, <1>9, <1>10, <1>11, <1>12, <1>13, <1>14, <1>15, <1>16, <1>17 DEF Next, Serving, Running, Draining


(* As long as no host has called Shutdown, ListenAndServe returns after    *)
(* its own drain.                                                          *)
LEMMA AloneStep ==
  ASSUME TypeOK, Alone, [Next]_vars
  PROVE  Alone'
<1> USE LifecycleAssumption DEF TypeOK, Alone, HostIsSilent, Call, Step, Begun, StopOf, WaitOf, Past, Stages, Busy
<1>1. ASSUME NEW r \in Requests, Arrive(r) PROVE Alone'
  BY <1>1 DEF Arrive
<1>2. ASSUME NEW r \in Requests, Track(r) PROVE Alone'
  BY <1>2 DEF Track
<1>3. ASSUME NEW r \in Requests, PassBy(r) PROVE Alone'
  BY <1>3 DEF PassBy
<1>4. ASSUME NEW r \in Requests, Leave(r) PROVE Alone'
  BY <1>4 DEF Leave
<1>5. ASSUME NEW p \in Planes, Listen(p) PROVE Alone'
  BY <1>5 DEF Listen
<1>6. ASSUME NEW p \in Planes, ServeEnds(p) PROVE Alone'
  BY <1>6 DEF ServeEnds
<1>7. CASE Signalled
  BY <1>7 DEF Signalled
<1>8. CASE Return
  BY <1>8 DEF Return
<1>9. CASE CloseStore
  BY <1>9 DEF CloseStore
<1>10. CASE HostCalls
  BY <1>10 DEF HostCalls
<1>11. ASSUME NEW c \in Callers, BeginDrain(c) PROVE Alone'
  BY <1>11 DEF BeginDrain
<1>12. ASSUME NEW c \in Callers, EndDrain(c) PROVE Alone'
  BY <1>12 DEF EndDrain
<1>13. ASSUME NEW c \in Callers, NEW p \in Planes, StopListener(c, p) PROVE Alone'
  <2>1. SUFFICES ASSUME HostIsSilent' PROVE Alone'
    BY DEF Alone
  <2>2. HostIsSilent /\ c = "main"
    <3>1. sh[c] = StopOf(p) /\ sh'[c] \in {"wait data", "wait admin"}
      BY <1>13 DEF StopListener
    <3>2. \A d \in Callers : d # c => sh'[d] = sh[d]
      BY <1>13 DEF StopListener
    <3>3. c # "host"
      BY <2>1, <3>1
    <3>. QED
      BY <2>1, <3>2, <3>3
  <2>3. sh["main"] = StopOf(p) /\ sh'["main"] = WaitOf(p) /\ main' = main
    BY <1>13, <2>2 DEF StopListener
  <2>4. Begun("main") /\ Begun("main")' /\ main \notin {"serving", "returned", "closed"}
    BY <2>2, <2>3
  <2>. QED
    BY <2>2, <2>3, <2>4
<1>14. ASSUME NEW c \in Callers, NEW p \in Planes, PlaneQuiet(c, p) PROVE Alone'
  <2>1. SUFFICES ASSUME HostIsSilent' PROVE Alone'
    BY DEF Alone
  <2>2. HostIsSilent /\ c = "main"
    <3>1. sh[c] = WaitOf(p) /\ sh'[c] \in {"stop admin", "last"}
      BY <1>14 DEF PlaneQuiet
    <3>2. \A d \in Callers : d # c => sh'[d] = sh[d]
      BY <1>14 DEF PlaneQuiet
    <3>3. c # "host"
      BY <2>1, <3>1
    <3>. QED
      BY <2>1, <3>2, <3>3
  <2>3. sh["main"] = WaitOf(p) /\ sh'["main"] = Past(p) /\ main' = main
    BY <1>14, <2>2 DEF PlaneQuiet
  <2>4. Begun("main") /\ Begun("main")' /\ main \notin {"serving", "returned", "closed"}
    BY <2>2, <2>3
  <2>. QED
    BY <2>2, <2>3, <2>4
<1>15. ASSUME NEW c \in Callers, CountIsZero(c) PROVE Alone'
  BY <1>15 DEF CountIsZero
<1>16. ASSUME NEW c \in Callers, Expire(c) PROVE Alone'
  BY <1>16 DEF Expire
<1>17. CASE UNCHANGED vars
  BY <1>17 DEF vars
<1>. QED
  BY <1>1, <1>2, <1>3, <1>4, <1>5, <1>6, <1>7, <1>8, <1>9, <1>10, <1>11, <1>12, <1>13, <1>14, <1>15, <1>16, <1>17 DEF Next, Serving, Running, Draining


(* The inductive invariant: every reachable state of the gateway satisfies *)
(* IInv.                                                                   *)
THEOREM Invariance == Spec => []IInv
<1>1. IInv /\ [Next]_vars => IInv'
  BY TypeStep, CountedStep, SilentStep, BeginsStep, LeavesStep, AloneStep DEF IInv
<1>. QED
  BY InitInv, <1>1, PTL DEF Spec

(* The state of the gateway is well typed in every reachable state.        *)
THEOREM TypeCorrect == Spec => []TypeOK
<1>1. IInv => TypeOK
  BY DEF IInv
<1>. QED
  BY Invariance, <1>1, PTL

(* Shutdown drains: when it returns with time left, whoever called it, no  *)
(* request is being handled on any plane.                                  *)
THEOREM DrainedAlways == Spec => []DrainedOnReturn
<1>1. IInv => DrainedOnReturn
  BY LifecycleAssumption DEF IInv, DrainedOnReturn, Leaves, Silent, After
<1>. QED
  BY Invariance, <1>1, PTL

(* Nobody is let in after the wait for active is over, which net/http's    *)
(* own bookkeeping does not give: track looks at draining under the lock.  *)
ZeroIsFinal == \A c \in Callers : done[c] => active = {}

(* The WaitGroup is not added to after it has been found at zero.          *)
THEOREM ZeroIsFinalAlways == Spec => []ZeroIsFinal
<1>1. IInv => ZeroIsFinal
  BY DEF IInv, Begins, ZeroIsFinal
<1>. QED
  BY Invariance, <1>1, PTL

(* The deferred Store.Close runs when no handler does, unless the time was *)
(* up or a host has called Shutdown.                                       *)
THEOREM StoreOutlives == Spec => []StoreOutlivesHandlers
<1>1. IInv => StoreOutlivesHandlers
  <2> SUFFICES ASSUME IInv, main = "closed", HostIsSilent, ~expired["main"], NEW r \in Requests
               PROVE  req[r] # "running"
    BY DEF StoreOutlivesHandlers
  <2>1. sh["main"] = "over"
    BY DEF IInv, Alone
  <2>2. PlaneOf[r] \in Planes
    BY LifecycleAssumption
  <2>3. Busy(PlaneOf[r]) = {}
    BY LifecycleAssumption, <2>1, <2>2 DEF IInv, Leaves, Silent, After
  <2>. QED
    BY <2>3 DEF Busy
<1>. QED
  BY Invariance, <1>1, PTL

-------------------------------------------------------------------------------
(* The refinement of DrainContract.                                        *)

(* The initial states are the contract's.                                  *)
LEMMA DrainInit == Init => Drain!Init
<1> SUFFICES ASSUME Init PROVE Drain!Init
  OBVIOUS
<1>1. PlaceMap = [r \in Requests |-> "outside"]
  BY DEF Init, PlaceMap
<1>2. DrainMap = [c \in Callers |-> "pending"]
  BY DEF Init, DrainMap
<1>3. ZeroMap = {} /\ draining = FALSE
  BY DEF Init, ZeroMap
<1>. QED BY <1>1, <1>2, <1>3 DEF Drain!Init

(* A request that moves, moves in the contract.                            *)
LEMMA PlaceMoves ==
  ASSUME TypeOK, NEW r \in Requests, NEW to, req' = [req EXCEPT ![r] = to]
  PROVE  \A what : PlaceMap'[r] = what => PlaceMap' = [PlaceMap EXCEPT ![r] = what]
<1> SUFFICES ASSUME NEW what, PlaceMap'[r] = what PROVE PlaceMap' = [PlaceMap EXCEPT ![r] = what]
  OBVIOUS
<1>1. \A q \in Requests \ {r} : req'[q] = req[q]
  BY DEF TypeOK
<1>2. \A q \in Requests \ {r} : PlaceMap'[q] = PlaceMap[q]
  BY <1>1 DEF PlaceMap
<1>3. \A q \in Requests : PlaceMap'[q] = [PlaceMap EXCEPT ![r] = what][q]
  BY <1>2 DEF PlaceMap
<1>4. PlaceMap' = [q \in Requests |-> PlaceMap'[q]] /\ PlaceMap = [q \in Requests |-> PlaceMap[q]]
  BY DEF PlaceMap
<1>. QED BY <1>3, <1>4

(* What the contract has inside are the requests whose handlers run.       *)
LEMMA InsideRuns == Drain!Inside = {r \in Requests : req[r] = "running"}
BY DEF Drain!Inside, PlaceMap

(* Nothing in the contract's state changes.                                *)
LEMMA NothingMoves ==
  ASSUME UNCHANGED <<req, draining, done, expired>>,
         \A c \in Callers : sh'[c] = "over" <=> sh[c] = "over"
  PROVE  UNCHANGED Drain!vars
<1>1. PlaceMap' = PlaceMap
  BY DEF PlaceMap
<1>2. ZeroMap' = ZeroMap
  BY DEF ZeroMap
<1>3. DrainMap' = DrainMap
  BY DEF DrainMap
<1>. QED BY <1>1, <1>2, <1>3 DEF Drain!vars

(* Requests.                                                               *)
LEMMA ServingDrains ==
  ASSUME IInv, NEW r \in Requests, Arrive(r) \/ Track(r) \/ PassBy(r) \/ Leave(r)
  PROVE  [Drain!Next]_Drain!vars
<1>1. UNCHANGED <<draining, done, sh, expired>>
  BY DEF Arrive, Track, PassBy, Leave
<1>2. ZeroMap' = ZeroMap /\ DrainMap' = DrainMap
  BY <1>1 DEF ZeroMap, DrainMap
<1>3. TypeOK
  BY DEF IInv
<1>4. CASE Arrive(r)
  <2>1. req[r] = "none" /\ req' = [req EXCEPT ![r] = "arrived"]
    BY <1>4 DEF Arrive
  <2>2. PlaceMap' = [PlaceMap EXCEPT ![r] = "outside"] /\ PlaceMap[r] = "outside"
    <3>1. PlaceMap'[r] = "outside" /\ PlaceMap[r] = "outside"
      BY <1>3, <2>1 DEF PlaceMap, TypeOK
    <3>. QED BY <1>3, <2>1, <3>1, PlaceMoves
  <2>3. PlaceMap' = PlaceMap
    BY <2>2 DEF PlaceMap
  <2>. QED BY <1>1, <1>2, <2>3 DEF Drain!vars
<1>5. ASSUME req[r] = "arrived", req' = [req EXCEPT ![r] = "running"], r \in Tracked => ~draining
      PROVE  Drain!Next
  <2>1. PlaceMap[r] = "outside" /\ PlaceMap'[r] = "inside"
    BY <1>3, <1>5 DEF PlaceMap, TypeOK
  <2>2. PlaceMap' = [PlaceMap EXCEPT ![r] = "inside"]
    BY <1>3, <1>5, <2>1, PlaceMoves
  <2>3. ASSUME NEW c \in Callers PROVE DrainMap[c] # "complete"
    <3>1. listener[PlaneOf[r]] \notin {"quiet", "failed"} /\ PlaneOf[r] \in Planes
      BY <1>5, LifecycleAssumption DEF IInv, Silent, Busy
    <3>2. ~(sh[c] = "over" /\ ~expired[c])
      BY <3>1, LifecycleAssumption DEF IInv, Leaves, After
    <3>. QED BY <3>2 DEF DrainMap
  <2>4. Drain!Admit(r)
    BY <1>1, <1>2, <1>5, <2>1, <2>2, <2>3 DEF Drain!Admit, Drain!Put
  <2>. QED BY <2>4 DEF Drain!Next
<1>6. CASE Track(r)
  <2>1. CASE draining
    <3>1. /\ req[r] = "arrived" /\ req' = [req EXCEPT ![r] = "refused"]
          /\ r \in Tracked
      BY <1>6, <2>1 DEF Track
    <3>2. PlaceMap[r] = "outside" /\ PlaceMap'[r] = "refused"
      BY <1>3, <3>1 DEF PlaceMap, TypeOK
    <3>3. PlaceMap' = [PlaceMap EXCEPT ![r] = "refused"]
      BY <1>3, <3>1, <3>2, PlaceMoves
    <3>4. Drain!Refuse(r)
      BY <1>1, <1>2, <2>1, <3>1, <3>2, <3>3 DEF Drain!Refuse, Drain!Put
    <3>. QED BY <3>4 DEF Drain!Next
  <2>2. CASE ~draining
    BY <1>5, <1>6, <2>2 DEF Track
  <2>. QED BY <2>1, <2>2
<1>7. CASE PassBy(r)
  BY <1>5, <1>7 DEF PassBy
<1>8. CASE Leave(r)
  <2>1. req[r] = "running" /\ req' = [req EXCEPT ![r] = "ended"]
    BY <1>8 DEF Leave
  <2>2. PlaceMap[r] = "inside" /\ PlaceMap'[r] = "gone"
    BY <1>3, <2>1 DEF PlaceMap, TypeOK
  <2>3. PlaceMap' = [PlaceMap EXCEPT ![r] = "gone"]
    BY <1>3, <2>1, <2>2, PlaceMoves
  <2>4. Drain!Release(r)
    BY <1>1, <1>2, <2>2, <2>3 DEF Drain!Release, Drain!Put
  <2>. QED BY <2>4 DEF Drain!Next
<1>. QED BY <1>4, <1>6, <1>7, <1>8

(* ListenAndServe and the host: a call of Shutdown is not yet a drain.     *)
LEMMA RunningDrains ==
  ASSUME IInv, Running
  PROVE  UNCHANGED Drain!vars
<1>1. UNCHANGED <<req, draining, done, expired>>
  BY DEF Running, Listen, ServeEnds, Signalled, Return, CloseStore, HostCalls
<1>2. sh' = sh \/ \E c \in Callers : Call(c)
  BY LifecycleAssumption DEF Running, Listen, ServeEnds, Signalled, Return, CloseStore, HostCalls
<1>3. \A c \in Callers : sh'[c] = "over" <=> sh[c] = "over"
  BY <1>2 DEF IInv, TypeOK, Call
<1>. QED BY <1>1, <1>3, NothingMoves

(* The steps of one call of Shutdown, its goroutine and its timer.         *)
LEMMA ShutdownDrains ==
  ASSUME IInv, NEW c \in Callers, Draining(c) \/ CountIsZero(c) \/ Expire(c)
  PROVE  [Drain!Next]_Drain!vars
<1>1. UNCHANGED req
  BY DEF Draining, BeginDrain, EndDrain, StopListener, PlaneQuiet, CountIsZero, Expire
<1>2. PlaceMap' = PlaceMap /\ TypeOK
  BY <1>1 DEF PlaceMap, IInv
<1>3. CASE BeginDrain(c)
  <2>1. /\ UNCHANGED <<done, expired>> /\ draining' = TRUE
        /\ sh[c] = "begin" /\ sh' = [sh EXCEPT ![c] = StopOf("data")]
    BY <1>3 DEF BeginDrain, Step
  <2>2. \A d \in Callers : sh'[d] = "over" <=> sh[d] = "over"
    BY <1>2, <2>1 DEF TypeOK, StopOf
  <2>3. DrainMap' = DrainMap /\ ZeroMap' = ZeroMap
    BY <2>1, <2>2 DEF DrainMap, ZeroMap
  <2>4. CASE draining
    BY <1>2, <2>1, <2>3, <2>4 DEF Drain!vars
  <2>5. CASE ~draining
    <3>1. Drain!Shut
      BY <1>2, <2>1, <2>3, <2>5 DEF Drain!Shut
    <3>. QED BY <3>1 DEF Drain!Next
  <2>. QED BY <2>4, <2>5
<1>4. ASSUME NEW p \in Planes, StopListener(c, p) PROVE UNCHANGED Drain!vars
  <2>1. /\ UNCHANGED <<draining, done, expired>>
        /\ sh[c] = StopOf(p) /\ sh' = [sh EXCEPT ![c] = WaitOf(p)]
    BY <1>4 DEF StopListener, Step
  <2>2. \A d \in Callers : sh'[d] = "over" <=> sh[d] = "over"
    BY <1>2, <2>1 DEF TypeOK, StopOf, WaitOf
  <2>. QED BY <1>1, <2>1, <2>2, NothingMoves
<1>5. ASSUME NEW p \in Planes, PlaneQuiet(c, p) PROVE UNCHANGED Drain!vars
  <2>1. /\ UNCHANGED <<draining, done, expired>>
        /\ sh[c] = WaitOf(p) /\ sh' = [sh EXCEPT ![c] = Past(p)]
    BY <1>5 DEF PlaneQuiet, Step
  <2>2. \A d \in Callers : sh'[d] = "over" <=> sh[d] = "over"
    BY <1>2, <2>1 DEF TypeOK, StopOf, WaitOf, Past
  <2>. QED BY <1>1, <2>1, <2>2, NothingMoves
<1>6. CASE CountIsZero(c)
  <2>1. /\ UNCHANGED <<draining, sh, expired>> /\ Begun(c) /\ active = {}
        /\ ~done[c] /\ done' = [done EXCEPT ![c] = TRUE]
    BY <1>6 DEF CountIsZero
  <2>2. DrainMap' = DrainMap
    BY <2>1 DEF DrainMap
  <2>3. c \notin ZeroMap /\ ZeroMap' = ZeroMap \cup {c}
    BY <1>2, <2>1 DEF ZeroMap, TypeOK
  <2>4. Drain!Inside \cap Tracked = {}
    BY <2>1, InsideRuns DEF IInv, Paired
  <2>5. draining
    BY <2>1 DEF IInv, Begins
  <2>6. Drain!FindZero(c)
    BY <1>2, <2>1, <2>2, <2>3, <2>4, <2>5 DEF Drain!FindZero
  <2>. QED BY <2>6 DEF Drain!Next
<1>7. CASE Expire(c)
  <2>1. /\ UNCHANGED <<draining, sh, done>> /\ sh[c] # "over"
        /\ expired' = [expired EXCEPT ![c] = TRUE]
    BY <1>7 DEF Expire
  <2>2. \A d \in Callers : d # c => expired'[d] = expired[d]
    BY <1>2, <2>1 DEF TypeOK
  <2>3. DrainMap' = DrainMap
    BY <2>1, <2>2 DEF DrainMap
  <2>4. ZeroMap' = ZeroMap
    BY <2>1 DEF ZeroMap
  <2>. QED BY <1>2, <2>1, <2>3, <2>4 DEF Drain!vars
<1>8. CASE EndDrain(c)
  <2>1. /\ UNCHANGED <<draining, done, expired>> /\ (done[c] \/ expired[c])
        /\ sh[c] = "last" /\ sh' = [sh EXCEPT ![c] = "over"]
    BY <1>8 DEF EndDrain, Step
  <2>2. draining /\ ZeroMap' = ZeroMap
    BY <2>1 DEF IInv, Begins, Begun, ZeroMap
  <2>3. sh'[c] = "over" /\ \A d \in Callers : d # c => sh'[d] = sh[d]
    BY <1>2, <2>1 DEF TypeOK
  <2>4. DrainMap[c] = "pending" /\ \A d \in Callers : d # c => DrainMap'[d] = DrainMap[d]
    BY <2>1, <2>3 DEF DrainMap
  <2>5. \A how : DrainMap'[c] = how => DrainMap' = [DrainMap EXCEPT ![c] = how]
    BY <2>4 DEF DrainMap
  <2>6. CASE expired[c]
    <3>1. DrainMap'[c] = "timed out"
      BY <2>1, <2>3, <2>6 DEF DrainMap
    <3>2. Drain!TimeUp(c)
      BY <1>2, <2>1, <2>2, <2>4, <2>5, <3>1 DEF Drain!TimeUp, Drain!End
    <3>. QED BY <3>2 DEF Drain!Next
  <2>7. CASE ~expired[c]
    <3>1. DrainMap'[c] = "complete"
      BY <2>1, <2>3, <2>7 DEF DrainMap
    <3>2. \A p \in Planes : Busy(p) = {}
      BY <2>1, <2>7, LifecycleAssumption DEF IInv, Leaves, Silent, After
    <3>3. Drain!Inside = {}
      BY <3>2, InsideRuns, LifecycleAssumption DEF Busy
    <3>4. c \in ZeroMap
      BY <2>1, <2>7 DEF ZeroMap
    <3>5. Drain!Complete(c)
      BY <1>2, <2>1, <2>2, <2>4, <2>5, <3>1, <3>3, <3>4 DEF Drain!Complete, Drain!End
    <3>. QED BY <3>5 DEF Drain!Next
  <2>. QED BY <2>6, <2>7
<1>. QED BY <1>3, <1>4, <1>5, <1>6, <1>7, <1>8 DEF Draining

(* Every behaviour of a gateway, whoever calls Shutdown and whenever, is   *)
(* one DrainContract allows: a counted request is let in before the drain  *)
(* and refused after it, never the reverse; the WaitGroup's zero is final; *)
(* and once one drain has completed in time no handler runs again.         *)
THEOREM DrainRefinement == Spec => ImplementsDrain
<1>1. ASSUME IInv, [Next]_vars PROVE [Drain!Next]_Drain!vars
  <2>1. CASE Serving
    BY <1>1, <2>1, ServingDrains DEF Serving
  <2>2. CASE Running
    BY <1>1, <2>2, RunningDrains
  <2>3. ASSUME NEW c \in Callers, Draining(c) \/ CountIsZero(c) \/ Expire(c)
        PROVE  [Drain!Next]_Drain!vars
    BY <1>1, <2>3, ShutdownDrains
  <2>4. CASE UNCHANGED vars
    <3>1. UNCHANGED <<req, draining, done, expired, sh>>
      BY <2>4 DEF vars
    <3>. QED BY <3>1, NothingMoves
  <2>. QED BY <1>1, <2>1, <2>2, <2>3, <2>4 DEF Next
<1>. QED BY <1>1, DrainInit, Invariance, PTL DEF Spec, ImplementsDrain, Drain!Spec

===============================================================================
