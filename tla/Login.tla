--------------------------------- MODULE Login ---------------------------------
(***************************************************************************)
(* credential login (credential/oauth/generic/oauth.go): the browser flow, *)
(* whose callback handler runs beside the login and talks to it over two   *)
(* channels of capacity one, the manual flow, and the device flow, which   *)
(* polls until a deadline.  What they get is stored by PutOAuth.           *)
(*                                                                         *)
(* An authorization is what a login asks the provider for.  It is known by *)
(* the process that began it, and outlives it in the user's browser.  The  *)
(* state, the code verifier and the device code of an authorization are    *)
(* random, hence its own.                                                  *)
(***************************************************************************)
EXTENDS Broker

VARIABLES
    asked,  \* of each authorization: "none", "asked", "issued" (a code is), "used",
            \* "refused"
    work,   \* what a login works on: left: the callbacks its listener may still get;
            \* blocked, errs: handlers about to send a code, an error;
            \* codeCh, errCh: the channels; code: what was received;
            \* grant: what the token endpoint gave for it; spent: polling intervals
    grants  \* the rows PutOAuth inserted, with the authorization each is of

login == <<asked, work, grants>>

Fresh == [left |-> MaxCalls, blocked |-> [a \in Procs |-> 0], errs |-> 0,
          codeCh |-> {}, errCh |-> FALSE, code |-> {}, grant |-> {}, spent |-> 0]

LoginInit ==
    /\ asked  = [c \in Procs |-> "none"]
    /\ work    = [c \in Procs |-> Fresh]
    /\ grants = {}

(* credentialLoginCmd and Login: the flow, once the store is open.         *)
Flow(c, flow) == with.job[c] = "login" /\ with.flow = flow
Ask(c, to)    == asked' = [asked EXCEPT ![c] = to]
Set(c, j)     == work' = [work EXCEPT ![c] = j]

-------------------------------------------------------------------------------
(* loginBrowser.                                                           *)

Listening(c) == Flow(c, "browser") /\ at[c] \in {"wait", "exchange"}
Shares(c, d) == c = d \/ with.fixed

(* net.Listen, Serve and the URL for the user's browser.                   *)
Listen(c) ==
    /\ Flow(c, "browser")
    /\ \/ /\ \A d \in Procs \ {c} : ~(Shares(c, d) /\ Listening(d))
          /\ GoTo(c, "run", "wait") /\ Ask(c, "asked") /\ UNCHANGED amiss
       \/ /\ \E d \in Procs \ {c} : Shares(c, d) /\ Listening(d)
          /\ GoTo(c, "run", "failed") /\ Blame(c, "taken") /\ UNCHANGED asked
    /\ UNCHANGED <<with, db, work, grants>>

(* A bug: the state is not compared.                                       *)
HandleAnyState(c, a) ==
    /\ work[c].left > 0
    /\ Set(c, [work[c] EXCEPT !.left = @ - 1, !.blocked[a] = @ + 1])

(* The callback handler up to its send, with the state and code of a.      *)
Handle(c, a) ==
    /\ work[c].left > 0
    /\ IF a = c THEN Set(c, [work[c] EXCEPT !.left = @ - 1, !.blocked[a] = @ + 1])
       ELSE Set(c, [work[c] EXCEPT !.left = @ - 1, !.errs = @ + 1])

(* The provider redirects a browser once the user has agreed; the page may *)
(* be loaded again.  Another login's is redirected here too, if its        *)
(* address was the same.                                                   *)
Callback(c, a) ==
    /\ Listening(c) /\ Shares(c, a)
    /\ asked[a] \in {"asked", "issued", "used"}
    /\ asked' = [asked EXCEPT ![a] = IF @ = "asked" THEN "issued" ELSE @]
    /\ Handle(c, a)
    /\ IF a = c THEN UNCHANGED amiss ELSE Blame(c, "stray")
    /\ UNCHANGED <<with, db, at, grants>>

(* The user declines: the redirect has an error, or another state.         *)
Decline(c, a) ==
    /\ Listening(c) /\ Shares(c, a)
    /\ asked[a] \in {"asked", "refused"} /\ Ask(a, "refused")
    /\ work[c].left > 0
    /\ Set(c, [work[c] EXCEPT !.left = @ - 1, !.errs = @ + 1])
    /\ Blame(c, "refused")
    /\ UNCHANGED <<with, db, at, grants>>

Serving(c) == Listening(c) \/ at[c] = "close"

(* A handler's send, which waits for room in the channel.                  *)
SendCode(c, a) ==
    /\ Serving(c) /\ work[c].blocked[a] > 0 /\ work[c].codeCh = {}
    /\ Set(c, [work[c] EXCEPT !.blocked[a] = @ - 1, !.codeCh = {a}])
    /\ UNCHANGED <<broker, asked, grants>>

SendErr(c) ==
    /\ Serving(c) /\ work[c].errs > 0 /\ ~work[c].errCh
    /\ Set(c, [work[c] EXCEPT !.errs = @ - 1, !.errCh = TRUE])
    /\ UNCHANGED <<broker, asked, grants>>

(* The select: whichever channel has something, either if both have.       *)
ReceiveCode(c) ==
    /\ GoTo(c, "wait", "exchange") /\ work[c].codeCh # {}
    /\ Set(c, [work[c] EXCEPT !.code = work[c].codeCh, !.codeCh = {}])
    /\ UNCHANGED <<with, db, amiss, asked, grants>>

ReceiveErr(c) ==
    /\ GoTo(c, "wait", "close") /\ work[c].errCh
    /\ Set(c, [work[c] EXCEPT !.errCh = FALSE])
    /\ UNCHANGED <<with, db, amiss, asked, grants>>

Quiet(c) == work[c].errs = 0 /\ \A a \in Procs : work[c].blocked[a] = 0

Returned(c) == IF work[c].grant # {} THEN "put" ELSE "failed"

(* A bug: Shutdown waits for as long as it takes.                          *)
ShutdownUnbounded(c) ==
    /\ Quiet(c) /\ GoTo(c, "close", Returned(c))
    /\ Set(c, [Fresh EXCEPT !.grant = work[c].grant])
    /\ UNCHANGED <<with, db, amiss, asked, grants>>

(* The deferred Shutdown returns when no handler runs, or after 2 s; the   *)
(* channels are of no use any more.                                        *)
Shutdown(c) ==
    /\ GoTo(c, "close", Returned(c))
    /\ Set(c, [Fresh EXCEPT !.grant = work[c].grant])
    /\ UNCHANGED <<with, db, amiss, asked, grants>>

-------------------------------------------------------------------------------
(* exchangeCode, of the browser and the manual flow.                       *)

(* What the token endpoint accepts: a code once, and with the verifier of  *)
(* its authorization if it asks for that.                                  *)
Accepted(c, a) == asked[a] = "issued" /\ (with.pkce => a = c)

Finish(c, ok) ==
    GoTo(c, "exchange", IF with.flow = "browser" THEN "close" ELSE IF ok THEN "put" ELSE "failed")

Exchange(c) ==
    /\ \E a \in work[c].code :
          \/ /\ Accepted(c, a) /\ Finish(c, TRUE) /\ Ask(a, "used")
             /\ Set(c, [work[c] EXCEPT !.code = {}, !.grant = {a}])
          \/ /\ ~Accepted(c, a) /\ Finish(c, FALSE)
             /\ Set(c, [work[c] EXCEPT !.code = {}]) /\ UNCHANGED asked
    /\ UNCHANGED <<with, db, amiss, grants>>

(* The call fails, or its answer is lost.                                  *)
ExchangeLost(c) ==
    /\ "net" \in with.faults
    /\ \E a \in work[c].code :
          /\ asked' \in {asked, [asked EXCEPT ![a] = "used"]}
          /\ Set(c, [work[c] EXCEPT !.code = {}])
    /\ Finish(c, FALSE) /\ Blame(c, "lost")
    /\ UNCHANGED <<with, db, grants>>

-------------------------------------------------------------------------------
(* loginManual.                                                            *)

ShowURL(c) ==
    /\ Flow(c, "manual") /\ GoTo(c, "run", "paste")
    /\ Ask(c, "asked")
    /\ UNCHANGED <<with, db, amiss, work, grants>>

(* The user agrees, and pastes a code of this login's or another one's     *)
(* page.  extractCode takes the code and leaves the state alone.           *)
Paste(c, a) ==
    /\ Flow(c, "manual") /\ GoTo(c, "paste", "exchange")
    /\ asked[a] \in {"asked", "issued", "used"}
    /\ asked' = [asked EXCEPT ![a] = IF @ = "asked" THEN "issued" ELSE @]
    /\ Set(c, [work[c] EXCEPT !.code = {a}])
    /\ amiss' = [d \in Procs |->
                    IF a # c /\ d \in {a, c} THEN amiss[d] \cup {"mixed up"} ELSE amiss[d]]
    /\ UNCHANGED <<with, db, grants>>

PasteNothing(c) ==
    /\ Flow(c, "manual") /\ GoTo(c, "paste", "failed")
    /\ Blame(c, "refused")
    /\ UNCHANGED <<with, db, login>>

-------------------------------------------------------------------------------
(* loginDevice, in polling intervals.  A call takes no time here.          *)

(* Without the user's consent one interval before the last poll that is    *)
(* sure to be before the deadline, the login may be too late.              *)
Late(a, spent) == asked[a] # "issued" /\ spent + 1 >= with.lifetime
Watch(c, late) == amiss' = [amiss EXCEPT ![c] = @ \cup {x \in {"late"} : late}]

DeviceAuthorize(c) ==
    /\ Flow(c, "device") /\ GoTo(c, "run", "sleep")
    /\ Ask(c, "asked") /\ Watch(c, Late(c, 0))
    /\ UNCHANGED <<with, db, work, grants>>

(* The user answers, at any time while the code lives.                     *)
Answer(c) ==
    /\ Flow(c, "device") /\ asked[c] = "asked" /\ work[c].spent < with.lifetime
    /\ \/ Ask(c, "issued") /\ UNCHANGED amiss
       \/ Ask(c, "refused") /\ Blame(c, "refused")
    /\ UNCHANGED <<with, db, at, work, grants>>

(* The loop: an interval, if the deadline is not reached.                  *)
Sleep(c) ==
    /\ work[c].spent < with.lifetime /\ GoTo(c, "sleep", "poll")
    /\ Set(c, [work[c] EXCEPT !.spent = @ + 1]) /\ Watch(c, Late(c, work[c].spent + 1))
    /\ UNCHANGED <<with, db, asked, grants>>

TimeOut(c) ==
    /\ work[c].spent >= with.lifetime /\ GoTo(c, "sleep", "failed")
    /\ UNCHANGED <<with, db, amiss, login>>

(* A bug: each 400 is an error, authorization_pending too.                 *)
PollPendingFails(c) ==
    /\ asked[c] = "asked" /\ GoTo(c, "poll", "failed")
    /\ UNCHANGED <<with, db, amiss, login>>

PollPending(c) ==
    /\ asked[c] = "asked" /\ GoTo(c, "poll", "sleep")
    /\ UNCHANGED <<with, db, amiss, login>>

PollGranted(c) ==
    /\ asked[c] = "issued" /\ GoTo(c, "poll", "put") /\ Ask(c, "used")
    /\ Set(c, [work[c] EXCEPT !.grant = {c}])
    /\ UNCHANGED <<with, db, amiss, grants>>

(* access_denied; or expired_token, which the endpoint may say from the    *)
(* deadline on.                                                            *)
PollRefused(c) ==
    /\ asked[c] = "refused" \/ work[c].spent >= with.lifetime
    /\ GoTo(c, "poll", "failed")
    /\ UNCHANGED <<with, db, amiss, login>>

(* The call for a device code, or a poll, fails.                           *)
CallLost(c) ==
    /\ "net" \in with.faults /\ Flow(c, "device")
    /\ GoTo(c, "run", "failed") \/ GoTo(c, "poll", "failed")
    /\ Blame(c, "lost")
    /\ UNCHANGED <<with, db, login>>

-------------------------------------------------------------------------------
(* PutOAuth's INSERT.                                                      *)
Put(c) ==
    /\ GoTo(c, "put", "bump")
    /\ grants' = grants \cup {[by |-> c, of |-> a] : a \in work[c].grant}
    /\ Set(c, Fresh)
    /\ UNCHANGED <<with, db, amiss, asked>>

LoginStep(c) ==
    \/ Listen(c) \/ ReceiveCode(c) \/ ReceiveErr(c) \/ Shutdown(c) \/ Exchange(c)
    \/ SendErr(c) \/ \E a \in Procs : SendCode(c, a)
    \/ ShowURL(c) \/ DeviceAuthorize(c) \/ Sleep(c) \/ TimeOut(c)
    \/ PollPending(c) \/ PollGranted(c) \/ PollRefused(c) \/ Put(c)

(* The user, and the network.                                              *)
LoginEvent(c) ==
    \/ \E a \in Procs : Callback(c, a) \/ Decline(c, a) \/ Paste(c, a)
    \/ ExchangeLost(c) \/ PasteNothing(c) \/ Answer(c) \/ CallLost(c)

States == {"none", "asked", "issued", "used", "refused"}
Works  == [left : 0..MaxCalls, blocked : [Procs -> Nat], errs : Nat,
           codeCh : SUBSET Procs, errCh : BOOLEAN,
           code : SUBSET Procs, grant : SUBSET Procs, spent : 0..MaxLife]

LoginTypeOK ==
    /\ asked \in [Procs -> States]
    /\ work \in [Procs -> Works]
    /\ grants \subseteq [by : Procs, of : Procs]

===============================================================================
