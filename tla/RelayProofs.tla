------------------------------ MODULE RelayProofs ------------------------------
(***************************************************************************)
(* Proofs about Relay: whatever the upstream sends and however it and the  *)
(* client end, for responses of any length and any size of net/http's      *)
(* buffer, an event is flushed before the relay waits for the next, and a  *)
(* response that ends as complete is complete.                             *)
(***************************************************************************)
EXTENDS Relay, Integers, TLAPS

(* The handler has handed over what it has read, but for a line it is      *)
(* about to write, or one that a client who left did not take.             *)
Handed ==
    /\ pc = "write" => read = wrote + 1
    /\ pc \in {"next", "read", "flush"} => read = wrote
    /\ pc \in {"return", "done"} /\ ~gone => read = wrote

(* What a writer that can flush has passed on when the handler turns to    *)
(* the next line.                                                          *)
Flushed == with.sse /\ with.flusher /\ ~gone /\ pc \in {"next", "read"} => got = wrote

(* The handler stops at the upstream's end only, with every line read,     *)
(* unless the client has left.                                             *)
Stopped ==
    /\ pc \in {"next", "read"} => stop = "none"
    /\ stop # "none" => upEnd # "open" /\ read = up
    /\ pc \in {"return", "done"} /\ ~gone => upEnd # "open" /\ read = up

Ended == (ending = "open") <=> (pc # "done")

IInv == TypeOK /\ Handed /\ Flushed /\ Stopped /\ Ended /\ WholeIsWhole

(* Every setting begins with nothing sent.                                 *)
LEMMA InitInvariant == ASSUME Init PROVE IInv
<1>1. TypeOK
  <2>1. up \in 0..MaxLines /\ read \in 0..up /\ wrote \in 0..read /\ got \in 0..wrote
    <3>1. up = 0 /\ read = 0 /\ wrote = 0 /\ got = 0
      BY DEF Init
    <3>. QED BY <3>1, RelayAssumption
  <2>2. /\ with \in Settings
        /\ pc \in {"next", "read", "write", "flush", "return", "done"}
        /\ upEnd \in {"open", "eof", "error"} /\ stop \in {"none", "eof", "error"}
        /\ gone \in BOOLEAN /\ ending \in {"open", "whole", "cut"}
    BY DEF Init
  <2>. QED BY <2>1, <2>2 DEF TypeOK
<1>2. Handed /\ Flushed /\ Stopped /\ Ended /\ WholeIsWhole
  BY DEF Init, Handed, Flushed, Stopped, Ended, WholeIsWhole
<1>. QED BY <1>1, <1>2 DEF IInv

(* What happens outside of the handler.                                    *)
LEMMA OutsideInvariant ==
  ASSUME IInv,
         UpstreamSends \/ (\E how \in {"eof", "error"} : UpstreamEnds(how)) \/ ClientLeaves
  PROVE  IInv'
<1> USE RelayAssumption DEF IInv, TypeOK, Handed, Flushed, Stopped, Ended, WholeIsWhole
<1>1. CASE UpstreamSends
  BY <1>1 DEF UpstreamSends
<1>2. CASE \E how \in {"eof", "error"} : UpstreamEnds(how)
  BY <1>2 DEF UpstreamEnds
<1>3. CASE ClientLeaves
  BY <1>3 DEF ClientLeaves
<1>. QED BY <1>1, <1>2, <1>3

(* The handler's steps.                                                    *)
LEMMA HandlerInvariant == ASSUME IInv, Handle PROVE IInv'
<1> USE RelayAssumption DEF IInv, TypeOK, Handed, Flushed, Stopped, Ended, WholeIsWhole, GoTo
<1>1. CASE CheckContext
  BY <1>1 DEF CheckContext
<1>2. CASE ReadLine
  BY <1>2 DEF ReadLine
<1>3. CASE ReadEnd
  BY <1>3 DEF ReadEnd
<1>4. CASE Write
  BY <1>4 DEF Write, AfterWrite
<1>5. CASE WriteFails
  BY <1>5 DEF WriteFails
<1>6. CASE Flush
  BY <1>6 DEF Flush
<1>7. CASE Finish
  BY <1>7 DEF Finish
<1>. QED BY <1>1, <1>2, <1>3, <1>4, <1>5, <1>6, <1>7 DEF Handle

(* The strengthening is an invariant.                                      *)
THEOREM Invariance == Spec => []IInv
<1>1. IInv /\ [Next]_vars => IInv'
  <2> SUFFICES ASSUME IInv, [Next]_vars PROVE IInv'
    OBVIOUS
  <2>1. CASE Handle
    BY <2>1, HandlerInvariant
  <2>2. CASE UpstreamSends \/ (\E how \in {"eof", "error"} : UpstreamEnds(how)) \/ ClientLeaves
    BY <2>2, OutsideInvariant
  <2>3. CASE UNCHANGED vars
    BY <2>3 DEF vars, IInv, TypeOK, Handed, Flushed, Stopped, Ended, WholeIsWhole
  <2>. QED BY <2>1, <2>2, <2>3 DEF Next
<1>. QED BY InitInvariant, <1>1, PTL DEF Spec

(* The relay's state has its type: no more is handed over than was read,   *)
(* and no more was read than the upstream sent.                            *)
THEOREM TypeCorrect == Spec => []TypeOK
  BY Invariance, PTL DEF IInv

(* A response of declared length that ends as complete is complete.        *)
THEOREM WholeAlwaysWhole == Spec => []WholeIsWhole
  BY Invariance, PTL DEF IInv

(* While the relay waits for the next event the client has those before,   *)
(* where every event stream's writer can flush.                            *)
THEOREM EventsAlwaysFlushed ==
  ASSUME \A x \in Settings : x.sse => x.flusher
  PROVE  Spec => []EventsAreFlushed
<1>1. IInv => EventsAreFlushed
  BY DEF IInv, TypeOK, Flushed, EventsAreFlushed
<1>. QED BY Invariance, <1>1, PTL

(* A client that stays until the end has every line the upstream sent,     *)
(* whether its length was declared or not.                                 *)
NothingIsLost == pc = "done" /\ ~gone => got = up

(* A client that stays until the relay is done has all that was sent.      *)
THEOREM NothingIsEverLost == Spec => []NothingIsLost
<1> DEFINE Sent == pc = "done" /\ ~gone => got = wrote
<1>1. Init => Sent
  BY DEF Init
<1>2. IInv /\ Sent /\ [Next]_vars => Sent'
  BY DEF IInv, Ended, Next, vars, Handle, GoTo, UpstreamSends, UpstreamEnds, ClientLeaves,
         CheckContext, ReadLine, ReadEnd, Write, AfterWrite, WriteFails, Flush, Finish
<1>3. IInv /\ Sent => NothingIsLost
  BY DEF IInv, Handed, Stopped, NothingIsLost
<1>. QED BY Invariance, <1>1, <1>2, <1>3, PTL DEF Spec

-------------------------------------------------------------------------------
(* The termination argument under RelayReturns.                            *)

(* A bound on the handler's steps until it is done, if the upstream sends  *)
(* nothing more: four for each line not yet read, and those of the stage.  *)
Rest == CASE pc = "write"  -> 5 [] pc = "flush" -> 4 [] pc = "next" -> 3
          [] pc = "read"   -> 2 [] pc = "return" -> 1 [] OTHER -> 0
Left == 4 * (up - read) + Rest

(* Every step of the handler brings it closer to its return, and only a    *)
(* line that the upstream sends sets it back, by four steps.               *)
CloserToReturn ==
    /\ Handle => Left' < Left
    /\ Left' <= Left \/ (UpstreamSends /\ Left' = Left + 4)
StepsLeft == Left \in Nat

(* The relay of a response takes four steps a line and a few to end, for   *)
(* an event stream and for a copy, with a writer that flushes and without, *)
(* wherever the client leaves and however the upstream ends: neither       *)
(* copySSE nor io.Copy goes round without reading (upstream/relay.go).     *)
THEOREM RelayTerminates == Spec => [][CloserToReturn]_vars /\ []StepsLeft
<1>1. ASSUME TypeOK, [Next]_vars PROVE [CloserToReturn]_vars
  <2>1. up \in Nat /\ read \in Nat /\ read <= up
    BY <1>1, RelayAssumption DEF TypeOK
  <2>2. Rest \in Nat /\ Rest' \in Nat
    BY DEF Rest
  <2>3. CASE Handle
    <3>1. \/ up' = up /\ read' = read /\ Rest' < Rest
          \/ up' = up /\ read' = read + 1 /\ Rest' < Rest + 4
      <4> USE DEF GoTo, Rest
      <4>1. CASE CheckContext
        BY <4>1 DEF CheckContext
      <4>2. CASE ReadLine
        BY <4>2 DEF ReadLine
      <4>3. CASE ReadEnd
        BY <4>3 DEF ReadEnd
      <4>4. CASE Write
        BY <4>4 DEF Write, AfterWrite
      <4>5. CASE WriteFails
        BY <4>5 DEF WriteFails
      <4>6. CASE Flush
        BY <4>6 DEF Flush
      <4>7. CASE Finish
        BY <4>7 DEF Finish
      <4>. QED BY <2>3, <4>1, <4>2, <4>3, <4>4, <4>5, <4>6, <4>7 DEF Handle
    <3>2. Left' < Left /\ Left' <= Left
      BY <2>1, <2>2, <3>1 DEF Left
    <3>. QED BY <3>2 DEF CloserToReturn
  <2>4. CASE UpstreamSends
    <3>1. up' = up + 1 /\ read' = read /\ pc' = pc
      BY <2>4 DEF UpstreamSends
    <3>2. Left' = Left + 4
      BY <2>1, <2>2, <3>1 DEF Left, Rest
    <3>3. ~Handle
      BY <3>1 DEF Handle, GoTo, CheckContext, ReadLine, ReadEnd, Write, AfterWrite, WriteFails,
                  Flush, Finish
    <3>. QED BY <2>4, <3>2, <3>3 DEF CloserToReturn
  <2>5. CASE (\E how \in {"eof", "error"} : UpstreamEnds(how)) \/ ClientLeaves
    <3>1. UNCHANGED <<up, read, pc>>
      BY <2>5 DEF UpstreamEnds, ClientLeaves
    <3>2. Left' = Left /\ Left \in Int
      BY <2>1, <2>2, <3>1 DEF Left, Rest
    <3>3. ~Handle
      BY <3>1 DEF Handle, GoTo, CheckContext, ReadLine, ReadEnd, Write, AfterWrite, WriteFails,
                  Flush, Finish
    <3>. QED BY <3>2, <3>3 DEF CloserToReturn
  <2>. QED BY <1>1, <2>3, <2>4, <2>5 DEF Next
<1>2. TypeOK => StepsLeft
  <2> SUFFICES ASSUME TypeOK PROVE Left \in Nat
    BY DEF StepsLeft
  <2>1. up \in Nat /\ read \in Nat /\ read <= up
    BY RelayAssumption DEF TypeOK
  <2>2. Rest \in Nat
    BY DEF Rest
  <2>. QED BY <2>1, <2>2 DEF Left
<1>3. TypeOK /\ [Next]_vars => [CloserToReturn]_vars
  BY <1>1
<1>. QED BY <1>2, <1>3, TypeCorrect, PTL DEF Spec

===============================================================================
