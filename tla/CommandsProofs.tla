----------------------------- MODULE CommandsProofs ----------------------------
(***************************************************************************)
(* Commands: for any number of processes, whatever each is started for and *)
(* whatever goes wrong around it.                                          *)
(***************************************************************************)
EXTENDS Commands, TLAPS, WellFoundedInduction, SequenceTheorems

-------------------------------------------------------------------------------
(* The steps by the module they are of, each with what it leaves alone.    *)

OfBroker(c) ==
    /\ UNCHANGED <<plane, login>>
    /\ OpenStep(c) \/ Import(c) \/ BumpGeneration(c) \/ OpenBusy(c) \/ WriteBusy(c) \/ Crash(c)

OfPlane(c) ==
    /\ UNCHANGED login
    /\ InsertToken(c) \/ TellToken(c) \/ LoadTokens(c) \/ LoadBusy(c) \/ Stop(c)

OfLogin(c) ==
    /\ UNCHANGED plane
    /\ LoginStep(c) \/ LoginEvent(c)

(* Every step is one of these, or a process's start.                       *)
LEMMA StepKinds ==
  ASSUME NEW c \in Procs,
         \/ Start(c) \/ Proceed(c) \/ Fault(c)
         \/ Stop(c) /\ UNCHANGED login
         \/ LoginEvent(c) /\ UNCHANGED plane
  PROVE  Start(c) \/ OfBroker(c) \/ OfPlane(c) \/ OfLogin(c)
  BY DEF Proceed, Fault, OfBroker, OfPlane, OfLogin

-------------------------------------------------------------------------------
(* Type correctness.                                                       *)

LEMMA Bounds == MaxGen \in Nat \ {0} /\ MaxCalls \in Nat /\ MaxLife \in Nat
  BY BrokerAssumption

(* What a login works on before it begins is of its type.                  *)
LEMMA FreshType == Fresh \in Works
  BY Bounds DEF Fresh, Works

(* Every file that commands may find is of its type.                       *)
LEMMA InitType == Init => TypeOK
<1> SUFFICES ASSUME Init PROVE TypeOK
  OBVIOUS
<1>1. db \in Files
  <2>1. with \in Settings /\ db = with.file
    BY DEF Init, BrokerInit
  <2>2. db \in {NewFile, OldFile, UpToDate}
    BY <2>1, BrokerAssumption
  <2>3. 0 \in 0..MaxGen /\ 1 \in 0..MaxGen
    BY Bounds
  <2>4. NewFile \in Files /\ OldFile \in Files /\ UpToDate \in Files
    BY <2>3 DEF Files, NewFile, OldFile, UpToDate
  <2>. QED
    BY <2>2, <2>4
<1>2. with \in Settings /\ amiss \in [Procs -> SUBSET Causes] /\ at \in [Procs -> Places]
  BY DEF Init, BrokerInit, Places
<1>3. PlaneTypeOK
  <2>1. /\ tokens = <<>> /\ told = {} /\ entries = [c \in Procs |-> <<>>]
        /\ before = [c \in Procs |-> {}]
    BY DEF Init, PlaneInit
  <2>2. <<>> \in Seq(TokensOf(Procs)) /\ <<>> \in Seq(TokensOf(Values))
    OBVIOUS
  <2>. QED
    BY <2>1, <2>2 DEF PlaneTypeOK
<1>4. LoginTypeOK
  BY FreshType DEF Init, LoginInit, LoginTypeOK, States
<1>. QED
  BY <1>1, <1>2, <1>3, <1>4 DEF TypeOK, BrokerTypeOK

(* A process goes from one place to another, and is to blame or not.       *)
LEMMA Moves ==
  ASSUME TypeOK, NEW c \in Procs, NEW q \in Places, at' = [at EXCEPT ![c] = q]
  PROVE  at' \in [Procs -> Places]
  BY DEF TypeOK

(* Blaming a process keeps the history's type.                             *)
LEMMA Blames ==
  ASSUME TypeOK, NEW c \in Procs, NEW y \in Causes, Blame(c, y)
  PROVE  amiss' \in [Procs -> SUBSET Causes]
  BY DEF TypeOK, BrokerTypeOK, Blame

(* Opening broker.db keeps the types.                                      *)
LEMMA StartType ==
  ASSUME TypeOK, NEW c \in Procs, Start(c)
  PROVE  TypeOK'
<1>1. at' \in [Procs -> Places]
  BY Moves DEF Start, Open, Places, Statements
<1>2. amiss' \in [Procs -> SUBSET Causes]
  <2> DEFINE rivals == {x \in {"rival"} : \E e \in Procs \ {c} : Opening(e)}
  <2>1. rivals \in SUBSET Causes
    BY DEF Causes
  <2>2. amiss' = [d \in Procs |-> IF d = c THEN rivals
                                  ELSE IF Opening(d) THEN amiss[d] \cup {"rival"} ELSE amiss[d]]
    BY DEF Start, Open
  <2>3. \A d \in Procs : amiss[d] \cup {"rival"} \in SUBSET Causes /\ amiss[d] \in SUBSET Causes
    BY DEF TypeOK, BrokerTypeOK, Causes
  <2> HIDE DEF rivals
  <2>. QED
    BY <2>1, <2>2, <2>3
<1>3. BrokerTypeOK'
  BY <1>2 DEF TypeOK, BrokerTypeOK, Start, Open
<1>4. PlaneTypeOK'
  <2>1. UNCHANGED <<tokens, told>> /\ entries' = [entries EXCEPT ![c] = <<>>]
    BY DEF Start
  <2>2. before' \in [Procs -> SUBSET told]
    BY DEF Start, TypeOK, PlaneTypeOK
  <2>3. <<>> \in Seq(TokensOf(Values))
    OBVIOUS
  <2>4. entries' \in [Procs -> Seq(TokensOf(Values))]
    BY <2>1, <2>3 DEF TypeOK, PlaneTypeOK
  <2>. QED
    BY <2>1, <2>2, <2>4 DEF TypeOK, PlaneTypeOK
<1>5. LoginTypeOK'
  BY DEF TypeOK, LoginTypeOK, Start, login
<1>. QED
  BY <1>1, <1>3, <1>4, <1>5 DEF TypeOK

(* Each statement of OpenSQLite, and a counted generation, gives a file    *)
(* again.                                                                  *)
LEMMA FileKept ==
  ASSUME TypeOK,
         \/ db' = db
         \/ db' = [db EXCEPT !.tables = TRUE, !.scopes = TRUE]
         \/ db' = [db EXCEPT !.scopes = TRUE]
         \/ db' = [db EXCEPT !.version = 2]
         \/ db' = [db EXCEPT !.gen = 1]
         \/ db.gen \in 1..(MaxGen - 1) /\ db' = [db EXCEPT !.gen = @ + 1]
  PROVE  db' \in Files
<1>1. db \in [tables : BOOLEAN, scopes : BOOLEAN, gen : 0..MaxGen, version : {0, 2}]
  BY DEF TypeOK, BrokerTypeOK, Files
<1>2. 1 \in 0..MaxGen /\ (db.gen \in 1..(MaxGen - 1) => db.gen + 1 \in 0..MaxGen)
  BY Bounds
<1>. QED
  BY <1>1, <1>2 DEF Files

(* A statement of a process's opening or of its writes keeps the types.    *)
LEMMA BrokerType ==
  ASSUME TypeOK, NEW c \in Procs, OfBroker(c)
  PROVE  TypeOK'
<1> USE DEF Places, Statements, GoTo, Causes
<1>1. CASE Schema(c)
  BY <1>1, FileKept, Moves DEF Schema, OfBroker, TypeOK, BrokerTypeOK, PlaneTypeOK, LoginTypeOK, plane, login
<1>2. CASE CountMeta(c) \/ ReadVersion(c)
  BY <1>2, Moves DEF CountMeta, ReadVersion, OfBroker, TypeOK, BrokerTypeOK, PlaneTypeOK, LoginTypeOK, plane, login
<1>3. CASE InsertMeta(c)
  BY <1>3, FileKept, Moves DEF InsertMeta, OfBroker, TypeOK, BrokerTypeOK, PlaneTypeOK, LoginTypeOK, plane, login
<1>4. CASE AlterKeys(c) \/ RecordVersion(c)
  BY <1>4, FileKept, Moves DEF AlterKeys, RecordVersion, OfBroker, TypeOK, BrokerTypeOK, PlaneTypeOK, LoginTypeOK, plane, login
<1>5. CASE Import(c) \/ Crash(c)
  BY <1>5, Moves DEF Import, Crash, OfBroker, TypeOK, BrokerTypeOK, PlaneTypeOK, LoginTypeOK, plane, login
<1>6. CASE BumpGeneration(c)
  <2>1. db.gen \in 1..(MaxGen - 1) => db' = [db EXCEPT !.gen = @ + 1]
    BY <1>6 DEF BumpGeneration
  <2>2. db.gen \notin 1..(MaxGen - 1) => db' = db
    BY <1>6 DEF BumpGeneration, TypeOK, BrokerTypeOK, Files
  <2>3. db' \in Files
    BY <1>6, <2>1, <2>2, FileKept DEF BumpGeneration
  <2>. QED
  BY <1>6, <2>3, Moves DEF BumpGeneration, OfBroker, TypeOK, BrokerTypeOK, PlaneTypeOK, LoginTypeOK, plane, login
<1>7. CASE OpenBusy(c) \/ WriteBusy(c)
  BY <1>7, Blames, Moves DEF OpenBusy, WriteBusy, OfBroker, TypeOK, BrokerTypeOK, PlaneTypeOK, LoginTypeOK, plane, login
<1>. QED
  BY <1>1, <1>2, <1>3, <1>4, <1>5, <1>6, <1>7 DEF OfBroker, OpenStep, MigrateV2
(* What a table holds after an INSERT.                                     *)
LEMMA RangeOfAppend ==
  ASSUME NEW S, NEW t \in Seq(S), NEW x \in S
  PROVE  /\ Append(t, x) \in Seq(S)
         /\ Range(Append(t, x)) = Range(t) \cup {x}
<1>1. <<x>> \in Seq(S) /\ Range(<<x>>) = {x}
  BY DEF Range
<1>2. Append(t, x) = t \o <<x>> /\ Append(t, x) \in Seq(S)
  BY AppendIsConcat, AppendProperties
<1>3. Range(t \o <<x>>) = Range(t) \cup Range(<<x>>)
  BY <1>1, RangeConcatenation, Zenon
<1>. QED
  BY <1>1, <1>2, <1>3

(* The environment's tokens and the table's make a list of entries.        *)
LEMMA ListType ==
  ASSUME TypeOK
  PROVE  /\ with.env \in Seq(TokensOf(Values))
         /\ tokens \in Seq(TokensOf(Values))
<1>1. with.env \in Seq(TokensOf(Values \ Procs))
  BY PlaneAssumption DEF TypeOK, BrokerTypeOK
<1>2. tokens \in Seq(TokensOf(Procs))
  BY DEF TypeOK, PlaneTypeOK
<1>3. /\ TokensOf(Values \ Procs) \subseteq TokensOf(Values)
      /\ TokensOf(Procs) \subseteq TokensOf(Values)
  BY PlaneAssumption DEF TokensOf
<1>. QED
  BY <1>1, <1>2, <1>3, SeqMonotonic, Zenon

(* Creating a token and loading the list of tokens keep the types.         *)
LEMMA PlaneType ==
  ASSUME TypeOK, NEW c \in Procs, Inserted(c), OfPlane(c)
  PROVE  TypeOK'
<1> USE DEF Places, Statements, GoTo, Causes
<1>1. UNCHANGED <<with, db, login>>
  BY DEF OfPlane, InsertToken, TellToken, LoadTokens, LoadBusy, Stop
<1>2. BrokerTypeOK' /\ at' \in [Procs -> Places]
  <2>1. CASE InsertToken(c) \/ TellToken(c) \/ LoadTokens(c) \/ Stop(c)
    BY <1>1, <2>1, Moves DEF InsertToken, TellToken, LoadTokens, Stop, TypeOK, BrokerTypeOK
  <2>2. CASE LoadBusy(c)
    BY <1>1, <2>2, Moves, Blames DEF LoadBusy, TypeOK, BrokerTypeOK
  <2>. QED
    BY <2>1, <2>2 DEF OfPlane
<1>3. LoginTypeOK'
  BY <1>1 DEF TypeOK, LoginTypeOK, login
<1>4. CASE InsertToken(c)
  <2>1. Token(c) \in TokensOf(Procs)
    BY DEF TokensOf, Token, Role, Roles
  <2>2. /\ tokens' \in Seq(TokensOf(Procs))
        /\ Range(tokens') = Range(tokens) \cup {Token(c)}
    <3>1. tokens \in Seq(TokensOf(Procs))
      BY DEF TypeOK, PlaneTypeOK
    <3>2. tokens' = Append(tokens, Token(c))
      BY <1>4 DEF InsertToken
    <3>. QED
      BY <2>1, <3>1, <3>2, RangeOfAppend, Zenon
  <2>. QED
    BY <1>2, <1>3, <1>4, <2>2 DEF InsertToken, TypeOK, PlaneTypeOK
<1>5. CASE TellToken(c)
  <2>1. UNCHANGED <<tokens, entries, before>> /\ told' = told \cup {Token(c)}
    BY <1>5 DEF TellToken
  <2>2. Token(c) \in Range(tokens)
    BY <1>5 DEF TellToken, Inserted
  <2>. QED
    BY <1>2, <1>3, <2>1, <2>2 DEF TypeOK, PlaneTypeOK
<1>6. CASE LoadTokens(c)
  <2>1. with.env \o tokens \in Seq(TokensOf(Values))
    BY ListType, ConcatProperties
  <2>. QED
    BY <1>2, <1>3, <1>6, <2>1 DEF LoadTokens, Loaded, TypeOK, PlaneTypeOK
<1>7. CASE LoadBusy(c) \/ Stop(c)
  BY <1>2, <1>3, <1>7 DEF LoadBusy, Stop, plane, TypeOK, PlaneTypeOK
<1>. QED
  BY <1>4, <1>5, <1>6, <1>7 DEF OfPlane

(* What a step may make of the work of a login.                            *)
LEMMA WorkTypes ==
  ASSUME TypeOK, NEW c \in Procs, NEW a \in Procs
  PROVE  /\ work[c] \in Works
         /\ work[c].left > 0 =>
               /\ [work[c] EXCEPT !.left = @ - 1, !.blocked[a] = @ + 1] \in Works
               /\ [work[c] EXCEPT !.left = @ - 1, !.errs = @ + 1] \in Works
         /\ work[c].blocked[a] > 0 =>
               [work[c] EXCEPT !.blocked[a] = @ - 1, !.codeCh = {a}] \in Works
         /\ work[c].errs > 0 => [work[c] EXCEPT !.errs = @ - 1, !.errCh = TRUE] \in Works
         /\ [work[c] EXCEPT !.code = work[c].codeCh, !.codeCh = {}] \in Works
         /\ [work[c] EXCEPT !.errCh = FALSE] \in Works
         /\ [Fresh EXCEPT !.grant = work[c].grant] \in Works
         /\ [work[c] EXCEPT !.code = {}, !.grant = {a}] \in Works
         /\ [work[c] EXCEPT !.code = {}] \in Works
         /\ [work[c] EXCEPT !.code = {a}] \in Works
         /\ with.lifetime \in Nat /\ work[c].spent < with.lifetime =>
               [work[c] EXCEPT !.spent = @ + 1] \in Works
         /\ [work[c] EXCEPT !.grant = {c}] \in Works
<1>1. work[c] \in Works
  BY DEF TypeOK, LoginTypeOK
<1>. DEFINE w == work[c]
<1>2. /\ w \in Works /\ Fresh \in Works
  BY <1>1, FreshType
<1>3. with.lifetime \in 0..MaxLife
  BY BrokerAssumption DEF TypeOK, BrokerTypeOK
<1>. HIDE DEF w
<1>4. w.left > 0 =>
        /\ [w EXCEPT !.left = @ - 1, !.blocked[a] = @ + 1] \in Works
        /\ [w EXCEPT !.left = @ - 1, !.errs = @ + 1] \in Works
  <2>1. ASSUME w.left > 0 PROVE w.left - 1 \in 0..MaxCalls /\ w.errs + 1 \in Nat
    BY <1>2, <2>1, Bounds DEF Works
  <2>2. [w.blocked EXCEPT ![a] = @ + 1] \in [Procs -> Nat]
    BY <1>2 DEF Works
  <2>. QED
    BY <1>2, <2>1, <2>2 DEF Works
<1>5. w.blocked[a] > 0 => [w EXCEPT !.blocked[a] = @ - 1, !.codeCh = {a}] \in Works
  <2>1. ASSUME w.blocked[a] > 0 PROVE [w.blocked EXCEPT ![a] = @ - 1] \in [Procs -> Nat]
    BY <1>2, <2>1 DEF Works
  <2>. QED
    BY <1>2, <2>1 DEF Works
<1>6. w.errs > 0 => [w EXCEPT !.errs = @ - 1, !.errCh = TRUE] \in Works
  <2>1. w.errs > 0 => w.errs - 1 \in Nat
    BY <1>2 DEF Works
  <2>. QED
    BY <1>2, <2>1 DEF Works
<1>7. /\ [w EXCEPT !.code = w.codeCh, !.codeCh = {}] \in Works
      /\ [w EXCEPT !.errCh = FALSE] \in Works
  BY <1>2 DEF Works
<1>8. [Fresh EXCEPT !.grant = w.grant] \in Works
  BY <1>2 DEF Works
<1>9. /\ [w EXCEPT !.code = {}, !.grant = {a}] \in Works
      /\ [w EXCEPT !.code = {}] \in Works
      /\ [w EXCEPT !.code = {a}] \in Works
      /\ [w EXCEPT !.grant = {c}] \in Works
  BY <1>2 DEF Works
<1>10. w.spent < with.lifetime => [w EXCEPT !.spent = @ + 1] \in Works
  BY <1>2, <1>3, Bounds DEF Works
<1>. QED
  BY <1>1, <1>4, <1>5, <1>6, <1>7, <1>8, <1>9, <1>10 DEF w

(* A login's work keeps its type when it is replaced by work.              *)
LEMMA Sets ==
  ASSUME TypeOK, NEW c \in Procs, NEW j \in Works, Set(c, j)
  PROVE  work' \in [Procs -> Works]
  BY DEF TypeOK, LoginTypeOK, Set

(* The state of an authorization keeps its type.                           *)
LEMMA Asks ==
  ASSUME TypeOK, NEW a \in Procs, NEW s \in States, Ask(a, s)
  PROVE  asked' \in [Procs -> States]
  BY DEF TypeOK, LoginTypeOK, Ask

(* What is left alone by a step of a login.                                *)
LEMMA LoginLeaves ==
  ASSUME NEW c \in Procs, OfLogin(c)
  PROVE  UNCHANGED <<with, db, tokens, told, entries, before>>
<1>1. UNCHANGED plane
  BY DEF OfLogin
<1>2. UNCHANGED <<with, db>>
  <2>1. ASSUME LoginStep(c) PROVE UNCHANGED <<with, db>>
    BY <2>1 DEF LoginStep, Listen, ReceiveCode, ReceiveErr, Shutdown, Exchange, SendErr, SendCode,
                ShowURL, DeviceAuthorize, Sleep, TimeOut, PollPending, PollGranted, PollRefused,
                Put, broker
  <2>2. ASSUME LoginEvent(c) PROVE UNCHANGED <<with, db>>
    BY <2>2 DEF LoginEvent, Callback, Decline, Paste, ExchangeLost, PasteNothing, Answer, CallLost
  <2>. QED
    BY <2>1, <2>2 DEF OfLogin
<1>. QED
  BY <1>1, <1>2 DEF plane

(* Each step of each login flow keeps the types.                           *)
LEMMA LoginType ==
  ASSUME TypeOK, NEW c \in Procs, OfLogin(c)
  PROVE  TypeOK'
<1> DEFINE Typed == /\ at' \in [Procs -> Places] /\ amiss' \in [Procs -> SUBSET Causes]
                    /\ asked' \in [Procs -> States] /\ work' \in [Procs -> Works]
                    /\ grants' \in SUBSET [by : Procs, of : Procs]
<1>0. /\ at \in [Procs -> Places] /\ amiss \in [Procs -> SUBSET Causes]
      /\ asked \in [Procs -> States] /\ work \in [Procs -> Works]
      /\ grants \in SUBSET [by : Procs, of : Procs]
  BY DEF TypeOK, BrokerTypeOK, LoginTypeOK
<1>1. with.lifetime \in Nat
  BY BrokerAssumption DEF TypeOK, BrokerTypeOK
<1> USE DEF Places, Statements, Causes, States, GoTo
<1>2. ASSUME Listen(c) PROVE Typed
  BY <1>0, <1>2, Moves, Blames, Asks DEF Listen
<1>3. ASSUME ReceiveCode(c) \/ ReceiveErr(c) PROVE Typed
  BY <1>0, <1>3, Moves, WorkTypes, Sets DEF ReceiveCode, ReceiveErr
<1>4. ASSUME Shutdown(c) PROVE Typed
  BY <1>0, <1>4, Moves, WorkTypes, Sets DEF Shutdown, Returned
<1>5. ASSUME SendErr(c) PROVE Typed
  BY <1>0, <1>5, WorkTypes, Sets DEF SendErr, broker
<1>6. ASSUME ShowURL(c) PROVE Typed
  BY <1>0, <1>6, Moves, Asks DEF ShowURL
<1>7. ASSUME TimeOut(c) \/ PollPending(c) \/ PollRefused(c) PROVE Typed
  BY <1>0, <1>7, Moves DEF TimeOut, PollPending, PollRefused, login
<1>8. ASSUME PollGranted(c) PROVE Typed
  BY <1>0, <1>8, Moves, Asks, WorkTypes, Sets DEF PollGranted
<1>9. ASSUME PasteNothing(c) \/ CallLost(c) PROVE Typed
  BY <1>0, <1>9, Moves, Blames DEF PasteNothing, CallLost, login
<1>10. ASSUME Answer(c) PROVE Typed
  BY <1>0, <1>10, Blames, Asks DEF Answer
<1>11. ASSUME NEW a \in Procs, SendCode(c, a) PROVE Typed
  BY <1>0, <1>11, WorkTypes, Sets DEF SendCode, broker
<1>12. ASSUME Exchange(c) PROVE Typed
  <2>1. PICK a \in work[c].code :
          \/ /\ Finish(c, TRUE) /\ Ask(a, "used")
             /\ Set(c, [work[c] EXCEPT !.code = {}, !.grant = {a}])
          \/ Finish(c, FALSE) /\ Set(c, [work[c] EXCEPT !.code = {}]) /\ UNCHANGED asked
    BY <1>12 DEF Exchange
  <2>2. a \in Procs
    BY <1>0 DEF Works
  <2>3. at' \in [Procs -> Places] /\ UNCHANGED <<amiss, grants>>
    BY <1>12, <2>1, Moves DEF Finish, Exchange
  <2>. QED
    BY <1>0, <2>1, <2>2, <2>3, WorkTypes, Sets, Asks
<1>13. ASSUME ExchangeLost(c) PROVE Typed
  <2>1. PICK a \in work[c].code : /\ asked' \in {asked, [asked EXCEPT ![a] = "used"]}
                                  /\ Set(c, [work[c] EXCEPT !.code = {}])
    BY <1>13 DEF ExchangeLost
  <2>2. a \in Procs
    BY <1>0 DEF Works
  <2>3. at' \in [Procs -> Places] /\ UNCHANGED grants /\ amiss' \in [Procs -> SUBSET Causes]
    BY <1>13, Moves, Blames DEF Finish, ExchangeLost
  <2>. QED
    BY <1>0, <2>1, <2>2, <2>3, WorkTypes, Sets
<1>14. ASSUME DeviceAuthorize(c) \/ Sleep(c) PROVE Typed
  <2>1. ASSUME NEW late, Watch(c, late) PROVE amiss' \in [Procs -> SUBSET Causes]
    <3>1. {x \in {"late"} : late} \in SUBSET Causes
      OBVIOUS
    <3>. QED
      BY <1>0, <2>1, <3>1 DEF Watch
  <2>2. amiss' \in [Procs -> SUBSET Causes]
    BY <1>14, <2>1 DEF DeviceAuthorize, Sleep
  <2>. QED
    BY <1>0, <1>1, <1>14, <2>2, Moves, Asks, WorkTypes, Sets DEF DeviceAuthorize, Sleep
<1>15. ASSUME Put(c) PROVE Typed
  <2>1. {[by |-> c, of |-> a] : a \in work[c].grant} \in SUBSET [by : Procs, of : Procs]
    <3>1. \A a \in work[c].grant : a \in Procs
      BY <1>0 DEF Works
    <3>. QED
      BY <3>1
  <2>. QED
    BY <1>0, <1>15, <2>1, FreshType, Moves, Sets DEF Put
<1>16. ASSUME NEW a \in Procs, Callback(c, a) PROVE Typed
  BY <1>0, <1>16, Blames, WorkTypes, Sets DEF Callback, Handle
<1>17. ASSUME NEW a \in Procs, Decline(c, a) PROVE Typed
  BY <1>0, <1>17, Blames, WorkTypes, Sets, Asks DEF Decline
<1>18. ASSUME NEW a \in Procs, Paste(c, a) PROVE Typed
  BY <1>0, <1>18, Moves, WorkTypes, Sets DEF Paste
<1>19. Typed
  <2>1. CASE LoginStep(c)
    BY <2>1, <1>2, <1>3, <1>4, <1>5, <1>6, <1>7, <1>8, <1>11, <1>12, <1>14, <1>15 DEF LoginStep
  <2>2. CASE LoginEvent(c)
    BY <2>2, <1>9, <1>10, <1>13, <1>16, <1>17, <1>18 DEF LoginEvent
  <2>. QED
    BY <2>1, <2>2 DEF OfLogin
<1>. QED
  BY <1>19, LoginLeaves DEF TypeOK, BrokerTypeOK, PlaneTypeOK, LoginTypeOK

-------------------------------------------------------------------------------
(* The file.                                                               *)

(* Nothing that a process found in the file is undone by another.          *)
LEMMA FileGrows ==
  ASSUME TypeOK, NEW c \in Procs, Start(c) \/ OfBroker(c) \/ OfPlane(c) \/ OfLogin(c)
  PROVE  /\ with' = with
         /\ db'.gen >= db.gen
         /\ db.version = 2 => db'.version = 2
         /\ db.scopes => db'.scopes
<1>1. /\ db \in [tables : BOOLEAN, scopes : BOOLEAN, gen : 0..MaxGen, version : {0, 2}]
      /\ MaxGen \in Nat
  BY Bounds DEF TypeOK, BrokerTypeOK, Files
<1>2. CASE Start(c)
  BY <1>1, <1>2 DEF Start, Open
<1>3. CASE OfBroker(c)
  <2>1. CASE Schema(c)
    BY <1>1, <2>1 DEF Schema
  <2>5. CASE InsertMeta(c)
    BY <1>1, <2>5 DEF InsertMeta
  <2>2. CASE CountMeta(c) \/ ReadVersion(c) \/ Import(c) \/ OpenBusy(c) \/ WriteBusy(c) \/ Crash(c)
    BY <1>1, <2>2 DEF CountMeta, ReadVersion, Import, OpenBusy, WriteBusy, Crash
  <2>3. CASE AlterKeys(c) \/ RecordVersion(c)
    BY <1>1, <2>3 DEF AlterKeys, RecordVersion
  <2>4. CASE BumpGeneration(c)
    BY <1>1, <2>4 DEF BumpGeneration
  <2>. QED
    BY <1>3, <2>1, <2>2, <2>3, <2>4, <2>5 DEF OfBroker, OpenStep, MigrateV2
<1>4. CASE OfPlane(c)
  BY <1>1, <1>4 DEF OfPlane, InsertToken, TellToken, LoadTokens, LoadBusy, Stop
<1>5. CASE OfLogin(c)
  BY <1>1, <1>5, LoginLeaves
<1>. QED
  BY <1>2, <1>3, <1>4, <1>5

(* Where a process may be that has opened the file: the steps of a plane   *)
(* or a login begin and end there, but for the end in failure.             *)
Beyond == Places \ (Statements \cup {"off", "dead", "run"})

(* A process of the plane or of a login never goes back to opening the     *)
(* file.                                                                   *)
LEMMA StaysBeyond ==
  ASSUME TypeOK, NEW c \in Procs, OfPlane(c) \/ OfLogin(c)
  PROVE  /\ \A d \in Procs \ {c} : at'[d] = at[d]
         /\ at'[c] # at[c] => Opened(c) /\ at'[c] \in Beyond
<1> DEFINE Stays == /\ \A d \in Procs \ {c} : at'[d] = at[d]
                    /\ at'[c] # at[c] => Opened(c) /\ at'[c] \in Beyond
<1> USE DEF TypeOK, GoTo, Opened, Beyond, Places, Statements
<1>1. ASSUME OfPlane(c) PROVE Stays
  BY <1>1 DEF OfPlane, InsertToken, TellToken, LoadTokens, LoadBusy, Stop
<1>2. ASSUME LoginStep(c) PROVE Stays
  <2>1. ASSUME Listen(c) \/ ReceiveCode(c) \/ ReceiveErr(c) \/ Shutdown(c) \/ Exchange(c) PROVE Stays
    BY <2>1 DEF Listen, ReceiveCode, ReceiveErr, Shutdown, Returned, Exchange, Finish
  <2>2. ASSUME SendErr(c) \/ \E a \in Procs : SendCode(c, a) PROVE Stays
    <3>1. at' = at
      BY <2>2 DEF SendErr, SendCode, broker
    <3>. QED
      BY <3>1
  <2>3. ASSUME ShowURL(c) \/ DeviceAuthorize(c) \/ Sleep(c) \/ TimeOut(c) \/ PollPending(c) PROVE Stays
    BY <2>3 DEF ShowURL, DeviceAuthorize, Sleep, TimeOut, PollPending
  <2>4. ASSUME PollGranted(c) \/ PollRefused(c) \/ Put(c) PROVE Stays
    BY <2>4 DEF PollGranted, PollRefused, Put
  <2> HIDE DEF Stays
  <2>. QED
    BY <1>2, <2>1, <2>2, <2>3, <2>4 DEF LoginStep
<1>3. ASSUME LoginEvent(c) PROVE Stays
  <2>1. ASSUME NEW a \in Procs, Callback(c, a) \/ Decline(c, a) \/ Answer(c) PROVE Stays
    <3>1. at' = at
      BY <2>1 DEF Callback, Decline, Answer
    <3>. QED
      BY <3>1
  <2>2. ASSUME NEW a \in Procs, Paste(c, a) \/ PasteNothing(c) PROVE Stays
    BY <2>2 DEF Paste, PasteNothing
  <2>3. ASSUME ExchangeLost(c) PROVE Stays
    BY <2>3 DEF ExchangeLost, Finish
  <2>4. ASSUME CallLost(c) PROVE Stays
    BY <2>4 DEF CallLost
  <2> HIDE DEF Stays
  <2>. QED
    BY <1>3, <2>1, <2>2, <2>3, <2>4 DEF LoginEvent
<1> HIDE DEF Stays
<1>4. Stays
  BY <1>1, <1>2, <1>3 DEF OfLogin
<1>. QED
  BY <1>4 DEF Stays

(* Each step keeps the file in order for those who have opened it.         *)
LEMMA MigratedStep ==
  ASSUME TypeOK, Migrated, NEW c \in Procs, Start(c) \/ OfBroker(c) \/ OfPlane(c) \/ OfLogin(c)
  PROVE  Migrated'
<1>1. /\ db.gen \in Nat /\ db'.gen >= db.gen /\ db.version \in {0, 2} /\ at \in [Procs -> Places]
      /\ db.version = 2 => db'.version = 2
      /\ db.scopes => db'.scopes
      /\ with' = with
      /\ db \in [tables : BOOLEAN, scopes : BOOLEAN, gen : 0..MaxGen, version : {0, 2}]
  BY FileGrows, Bounds DEF TypeOK, BrokerTypeOK, Files
<1>2. db'.gen \in Nat
  <2>1. TypeOK' \/ db' = db
    BY StartType, BrokerType, LoginLeaves DEF OfPlane, InsertToken, TellToken, LoadTokens, LoadBusy, Stop
  <2>. QED
    BY <1>1, <2>1, Bounds DEF TypeOK, BrokerTypeOK, Files
<1> USE DEF Migrated, Opened, Places, Statements, GoTo
<1>3. CASE Start(c)
  BY <1>1, <1>2, <1>3 DEF Start, Open
<1>4. CASE OfBroker(c)
  <2>1. CASE Schema(c)
    BY <1>1, <1>2, <2>1 DEF Schema
  <2>2. CASE CountMeta(c)
    BY <1>1, <1>2, <2>2 DEF CountMeta
  <2>8. CASE InsertMeta(c)
    <3>1. db'.gen # 0 /\ db'.version = db.version /\ db'.scopes = db.scopes
      BY <1>1, <2>8 DEF InsertMeta
    <3>. QED
      BY <1>1, <3>1, <2>8 DEF InsertMeta
  <2>3. CASE ReadVersion(c)
    BY <1>1, <1>2, <2>3 DEF ReadVersion
  <2>4. CASE AlterKeys(c)
    BY <1>1, <1>2, <2>4 DEF AlterKeys
  <2>9. CASE RecordVersion(c)
    BY <1>1, <1>2, <2>9 DEF RecordVersion
  <2>5. CASE Import(c) \/ BumpGeneration(c)
    BY <1>1, <1>2, <2>5 DEF Import, BumpGeneration
  <2>6. CASE OpenBusy(c)
    BY <1>1, <1>2, <2>6 DEF OpenBusy
  <2>7. CASE WriteBusy(c) \/ Crash(c)
    BY <1>1, <1>2, <2>7 DEF WriteBusy, Writes, Crash
  <2>. QED
    BY <1>4, <2>1, <2>2, <2>3, <2>4, <2>5, <2>6, <2>7, <2>8, <2>9 DEF OfBroker, OpenStep, MigrateV2
<1>5. CASE OfPlane(c) \/ OfLogin(c)
  <2>1. db' = db
    BY <1>5, LoginLeaves DEF OfPlane, InsertToken, TellToken, LoadTokens, LoadBusy, Stop
  <2>. QED
    BY <1>1, <1>5, <2>1, StaysBeyond DEF Beyond
<1>. QED
  BY <1>3, <1>4, <1>5

-------------------------------------------------------------------------------
(* The tokens.                                                             *)

LEMMA NotToPlane ==
  ASSUME TypeOK, NEW c \in Procs, OfBroker(c) \/ OfLogin(c), NEW d \in Procs,
         at'[d] \in {"tell", "serving"}
  PROVE  at'[d] = at[d]
<1> DEFINE Aside == at'[d] \in {"tell", "serving"} => at'[d] = at[d]
<1> USE DEF TypeOK, GoTo
<1>1. ASSUME OfBroker(c) PROVE Aside
  <2>1. ASSUME OpenStep(c) PROVE Aside
    BY <2>1 DEF OpenStep, Schema, CountMeta, InsertMeta, ReadVersion, MigrateV2, AlterKeys,
                RecordVersion
  <2>2. ASSUME Import(c) \/ BumpGeneration(c) \/ OpenBusy(c) PROVE Aside
    BY <2>2 DEF Import, BumpGeneration, OpenBusy
  <2>3. ASSUME WriteBusy(c) \/ Crash(c) PROVE Aside
    BY <2>3 DEF WriteBusy, Crash
  <2> HIDE DEF Aside
  <2>. QED
    BY <1>1, <2>1, <2>2, <2>3 DEF OfBroker
<1>2. ASSUME LoginStep(c) PROVE Aside
  <2>1. ASSUME Listen(c) \/ ReceiveCode(c) \/ ReceiveErr(c) \/ Shutdown(c) \/ Exchange(c) PROVE Aside
    BY <2>1 DEF Listen, ReceiveCode, ReceiveErr, Shutdown, Returned, Exchange, Finish
  <2>2. ASSUME SendErr(c) \/ \E a \in Procs : SendCode(c, a) PROVE Aside
    BY <2>2 DEF SendErr, SendCode, broker
  <2>3. ASSUME ShowURL(c) \/ DeviceAuthorize(c) \/ Sleep(c) \/ TimeOut(c) PROVE Aside
    BY <2>3 DEF ShowURL, DeviceAuthorize, Sleep, TimeOut
  <2>4. ASSUME PollPending(c) \/ PollGranted(c) \/ PollRefused(c) \/ Put(c) PROVE Aside
    BY <2>4 DEF PollPending, PollGranted, PollRefused, Put
  <2> HIDE DEF Aside
  <2>. QED
    BY <1>2, <2>1, <2>2, <2>3, <2>4 DEF LoginStep
<1>3. ASSUME LoginEvent(c) PROVE Aside
  <2>1. ASSUME NEW a \in Procs, Callback(c, a) \/ Decline(c, a) \/ Answer(c) PROVE Aside
    BY <2>1 DEF Callback, Decline, Answer
  <2>2. ASSUME NEW a \in Procs, Paste(c, a) \/ PasteNothing(c) \/ CallLost(c) PROVE Aside
    BY <2>2 DEF Paste, PasteNothing, CallLost
  <2>3. ASSUME ExchangeLost(c) PROVE Aside
    BY <2>3 DEF ExchangeLost, Finish
  <2> HIDE DEF Aside
  <2>. QED
    BY <1>3, <2>1, <2>2, <2>3 DEF LoginEvent
<1>. QED
  BY <1>1, <1>2, <1>3 DEF OfLogin

(* Each step keeps tokens as created, told ones in the table, and serve's  *)
(* list complete.                                                          *)
LEMMA TokensStep ==
  ASSUME TypeOK, Created, \A d \in Procs : Inserted(d) /\ Listing(d),
         NEW c \in Procs, Start(c) \/ OfBroker(c) \/ OfPlane(c) \/ OfLogin(c)
  PROVE  Created' /\ \A d \in Procs : Inserted(d)' /\ Listing(d)'
<1>1. with' = with /\ \A p : Token(p)' = Token(p)
  BY FileGrows DEF Token, Role
<1>2. /\ at \in [Procs -> Places] /\ entries \in [Procs -> Seq(TokensOf(Values))]
      /\ before \in [Procs -> SUBSET told] /\ told \subseteq Range(tokens)
      /\ tokens \in Seq(TokensOf(Procs))
  BY DEF TypeOK, PlaneTypeOK
<1>3. CASE Start(c)
  <2>1. /\ at' = [at EXCEPT ![c] = "schema"] /\ tokens' = tokens
        /\ entries' = [entries EXCEPT ![c] = <<>>]
        /\ \A d \in Procs \ {c} : before'[d] = before[d]
    BY <1>2, <1>3 DEF Start, Open
  <2>2. Range(<<>>) = {}
    BY DEF Range
  <2>3. Created' /\ \A d \in Procs : Inserted(d)'
    BY <1>1, <1>2, <2>1 DEF Created, Inserted
  <2>4. \A d \in Procs : Listing(d)'
    BY <1>1, <1>2, <2>1, <2>2 DEF Listing
  <2>. QED
    BY <2>3, <2>4
<1>4. CASE OfBroker(c) \/ OfLogin(c)
  <2>1. UNCHANGED <<tokens, told, entries, before>>
    BY <1>4, LoginLeaves DEF OfBroker, plane
  <2>2. \A d \in Procs : at'[d] \in {"tell", "serving"} => at'[d] = at[d]
    BY <1>4, NotToPlane
  <2>. QED
    BY <1>1, <2>1, <2>2 DEF Created, Inserted, Listing
<1>5. CASE InsertToken(c)
  <2>1. Token(c) \in TokensOf(Procs)
    BY DEF TokensOf, Token, Role, Roles
  <2>2. /\ tokens' = Append(tokens, Token(c)) /\ at' = [at EXCEPT ![c] = "tell"]
        /\ UNCHANGED <<told, entries, before>>
    BY <1>5 DEF InsertToken, GoTo
  <2>3. Range(tokens') = Range(tokens) \cup {Token(c)}
    <3>1. /\ Append(tokens, Token(c)) \in Seq(TokensOf(Procs))
          /\ Range(Append(tokens, Token(c))) = Range(tokens) \cup {Token(c)}
      <4>1. tokens \in Seq(TokensOf(Procs))
        BY <1>2
      <4>. QED
        BY <2>1, <4>1, RangeOfAppend, Zenon
    <3>. QED
      BY <2>2, <3>1
  <2>4. Token(c).value = c
    BY DEF Token
  <2>5. Created' /\ \A d \in Procs : Inserted(d)'
    BY <1>1, <1>2, <2>2, <2>3, <2>4 DEF Created, Inserted
  <2>6. \A d \in Procs : Listing(d)'
    BY <1>1, <1>2, <2>2, <2>3 DEF Listing
  <2>. QED
    BY <2>5, <2>6
<1>6. CASE LoadTokens(c)
  <2>1. /\ UNCHANGED <<tokens, told, before>>
        /\ entries' = [entries EXCEPT ![c] = with.env \o tokens]
        /\ at' = [at EXCEPT ![c] = IF with.env \o tokens = <<>> THEN "failed" ELSE "serving"]
    BY <1>6 DEF LoadTokens, Loaded, GoTo
  <2>2. Range(with.env \o tokens) = Range(with.env) \cup Range(tokens)
    BY ListType, RangeConcatenation, Zenon
  <2>3. Created' /\ \A d \in Procs : Inserted(d)'
    BY <1>1, <1>2, <2>1 DEF Created, Inserted
  <2>4. \A d \in Procs : Listing(d)'
    BY <1>1, <1>2, <2>1, <2>2 DEF Listing
  <2>. QED
    BY <2>3, <2>4
<1>7. CASE TellToken(c) \/ LoadBusy(c) \/ Stop(c)
  <2>1. UNCHANGED <<tokens, entries, before>> /\ \E q \in {"ok", "failed"} : at' = [at EXCEPT ![c] = q]
    BY <1>7 DEF TellToken, LoadBusy, Stop, GoTo, plane
  <2>. QED
    BY <1>1, <1>2, <2>1 DEF Created, Inserted, Listing
<1>. QED
  BY <1>3, <1>4, <1>5, <1>6, <1>7 DEF OfPlane

-------------------------------------------------------------------------------
(* The grants.                                                             *)

LEMMA OursStep ==
  ASSUME TypeOK, GrantIsOurs, \A d \in Procs : OursOnly(d), NEW c \in Procs, OfLogin(c)
  PROVE  GrantIsOurs' /\ \A d \in Procs : OursOnly(d)'
<1> DEFINE Sound == /\ OursOnly(c)' /\ GrantIsOurs'
                    /\ \A d \in Procs \ {c} : work'[d] = work[d]
<1>1. with' = with /\ work \in [Procs -> Works] /\ OursOnly(c) /\ Fresh \in Works
  BY LoginLeaves, FreshType DEF TypeOK, LoginTypeOK
<1>2. ASSUME UNCHANGED <<work, grants>> PROVE Sound
  BY <1>1, <1>2 DEF OursOnly, GrantIsOurs
<1>3. ASSUME ReceiveCode(c) \/ ReceiveErr(c) PROVE Sound
  <2>1. /\ work'[c].blocked = work[c].blocked /\ work'[c].grant = work[c].grant
        /\ work'[c].codeCh \cup work'[c].code \subseteq work[c].codeCh \cup work[c].code
        /\ \A d \in Procs \ {c} : work'[d] = work[d]
        /\ grants' = grants
    <3>1. CASE ReceiveCode(c)
      <4>1. /\ work' = [work EXCEPT ![c] = [work[c] EXCEPT !.code = work[c].codeCh, !.codeCh = {}]]
            /\ grants' = grants
        BY <3>1 DEF ReceiveCode, Set
      <4>2. work[c] \in Works
        BY <1>1
      <4>. QED
        BY <1>1, <4>1, <4>2 DEF Works
    <3>2. CASE ReceiveErr(c)
      BY <1>1, <3>2 DEF Set, Works, ReceiveErr
    <3>. QED
      BY <1>3, <3>1, <3>2
  <2>. QED
    BY <1>1, <2>1 DEF OursOnly, GrantIsOurs
<1>4. ASSUME Shutdown(c) PROVE Sound
  BY <1>1, <1>4 DEF Set, OursOnly, GrantIsOurs, Works, Shutdown, Fresh
<1>5. ASSUME SendErr(c) PROVE Sound
  BY <1>1, <1>5 DEF Set, OursOnly, GrantIsOurs, Works, SendErr
<1>6. ASSUME Sleep(c) PROVE Sound
  BY <1>1, <1>6 DEF Set, OursOnly, GrantIsOurs, Works, Sleep
<1>7. ASSUME PollGranted(c) PROVE Sound
  BY <1>1, <1>7 DEF Set, OursOnly, GrantIsOurs, Works, PollGranted
<1>8. ASSUME ExchangeLost(c) PROVE Sound
  BY <1>1, <1>8 DEF Set, OursOnly, GrantIsOurs, Works, ExchangeLost
<1>9. ASSUME NEW a \in Procs, SendCode(c, a) PROVE Sound
  BY <1>1, <1>9 DEF Set, OursOnly, GrantIsOurs, Works, SendCode
<1>10. ASSUME Exchange(c) PROVE Sound
  <2>1. PICK a \in work[c].code :
          \/ Accepted(c, a) /\ Set(c, [work[c] EXCEPT !.code = {}, !.grant = {a}])
          \/ Set(c, [work[c] EXCEPT !.code = {}])
    BY <1>10 DEF Exchange
  <2>2. UNCHANGED grants
    BY <1>10 DEF Exchange
  <2>. QED
    <3>1. /\ work'[c].blocked = work[c].blocked
          /\ work'[c].codeCh = work[c].codeCh /\ work'[c].code = {}
          /\ \/ work'[c].grant = {a} /\ (with.pkce => a = c)
             \/ work'[c].grant = work[c].grant
          /\ \A d \in Procs \ {c} : work'[d] = work[d]
      <4>1. CASE Accepted(c, a) /\ Set(c, [work[c] EXCEPT !.code = {}, !.grant = {a}])
        BY <1>1, <4>1 DEF Set, Works, Accepted
      <4>2. CASE Set(c, [work[c] EXCEPT !.code = {}])
        BY <1>1, <4>2 DEF Set, Works
      <4>. QED
        BY <2>1, <4>1, <4>2
    <3>. QED
      BY <1>1, <2>2, <3>1 DEF OursOnly, GrantIsOurs
<1>11. ASSUME NEW a \in Procs, Callback(c, a) PROVE Sound
  <2>1. /\ work'[c].codeCh = work[c].codeCh /\ work'[c].code = work[c].code
        /\ work'[c].grant = work[c].grant
        /\ \A d \in Procs : d # c => work'[c].blocked[d] = work[c].blocked[d]
        /\ \A d \in Procs \ {c} : work'[d] = work[d]
        /\ grants' = grants
    <3>1. CASE a = c
      <4>1. /\ work' = [work EXCEPT ![c] = [work[c] EXCEPT !.left = @ - 1, !.blocked[c] = @ + 1]]
            /\ grants' = grants
        BY <1>11, <3>1 DEF Callback, Handle, Set
      <4>. QED
        BY <1>1, <4>1 DEF Works
    <3>2. CASE a # c
      <4>1. /\ work' = [work EXCEPT ![c] = [work[c] EXCEPT !.left = @ - 1, !.errs = @ + 1]]
            /\ grants' = grants
        BY <1>11, <3>2 DEF Callback, Handle, Set
      <4>. QED
        BY <1>1, <4>1 DEF Works
    <3>. QED
      BY <3>1, <3>2
  <2>. QED
    BY <1>1, <2>1 DEF OursOnly, GrantIsOurs
<1>12. ASSUME NEW a \in Procs, Decline(c, a) PROVE Sound
  BY <1>1, <1>12 DEF Set, OursOnly, GrantIsOurs, Works, Decline
<1>13. ASSUME NEW a \in Procs, Paste(c, a) PROVE Sound
  BY <1>1, <1>13 DEF Set, OursOnly, GrantIsOurs, Works, Paste, Flow
<1>14. ASSUME Put(c) PROVE Sound
  <2>1. /\ work'[c] = Fresh /\ \A d \in Procs \ {c} : work'[d] = work[d]
        /\ grants' = grants \cup {[by |-> c, of |-> a] : a \in work[c].grant}
    BY <1>1, <1>14 DEF Set, Put
  <2>2. GrantIsOurs'
    BY <1>1, <2>1 DEF OursOnly, GrantIsOurs
  <2>3. OursOnly(c)'
    BY <1>1, <2>1 DEF OursOnly, Fresh
  <2>. QED
    BY <2>1, <2>2, <2>3
<1>15. Sound
  <2>1. ASSUME \/ Listen(c) \/ ShowURL(c) \/ DeviceAuthorize(c) \/ TimeOut(c) \/ PollPending(c)
               \/ PollRefused(c) \/ PasteNothing(c) \/ Answer(c) \/ CallLost(c)
        PROVE  UNCHANGED <<work, grants>>
    BY <2>1 DEF Listen, ShowURL, DeviceAuthorize, TimeOut, PollPending, PollRefused,
                PasteNothing, Answer, CallLost, login
  <2> HIDE DEF Sound
  <2>2. CASE LoginStep(c)
    BY <2>1, <2>2, <1>2, <1>3, <1>4, <1>5, <1>6, <1>7, <1>9, <1>10, <1>14 DEF LoginStep
  <2>3. CASE LoginEvent(c)
    BY <2>1, <2>3, <1>2, <1>8, <1>11, <1>12, <1>13 DEF LoginEvent
  <2>. QED
    BY <2>2, <2>3 DEF OfLogin
<1>. QED
  BY <1>1, <1>15 DEF OursOnly

-------------------------------------------------------------------------------
(* The theorems that need no account of what went wrong.                   *)

LEMMA InitInv == Init => IInv
<1> SUFFICES ASSUME Init PROVE IInv
  OBVIOUS
<1>1. TypeOK
  BY InitType
<1>2. db.version = 2 => db.scopes
  <2>1. db \in {NewFile, OldFile, UpToDate}
    BY BrokerAssumption DEF Init, BrokerInit
  <2>. QED
    BY <2>1 DEF NewFile, OldFile, UpToDate
<1>3. /\ at = [c \in Procs |-> "off"] /\ tokens = <<>> /\ grants = {}
      /\ work = [c \in Procs |-> Fresh] /\ entries = [c \in Procs |-> <<>>]
  BY DEF Init, BrokerInit, PlaneInit, LoginInit
<1>4. Range(<<>>) = {}
  BY DEF Range
<1>5. Migrated
  BY <1>2, <1>3 DEF Migrated, Opened
<1>6. Created /\ GrantIsOurs /\ \A c \in Procs : Inserted(c) /\ Listing(c)
  BY <1>3, <1>4 DEF Created, GrantIsOurs, Inserted, Listing
<1>7. \A c \in Procs : OursOnly(c)
  BY <1>3 DEF OursOnly, Fresh
<1>. QED
  BY <1>1, <1>5, <1>6, <1>7 DEF IInv

(* The invariant is inductive.                                             *)
LEMMA NextInv == IInv /\ [Next]_vars => IInv'
<1> SUFFICES ASSUME IInv, [Next]_vars PROVE IInv'
  OBVIOUS
<1>1. CASE Next
  <2>1. PICK c \in Procs : Start(c) \/ OfBroker(c) \/ OfPlane(c) \/ OfLogin(c)
    BY <1>1, StepKinds DEF Next
  <2>2. TypeOK'
    BY <2>1, StartType, BrokerType, PlaneType, LoginType DEF IInv
  <2>3. Migrated'
    BY <2>1, MigratedStep DEF IInv
  <2>4. Created' /\ \A d \in Procs : Inserted(d)' /\ Listing(d)'
    BY <2>1, TokensStep DEF IInv
  <2>5. GrantIsOurs' /\ \A d \in Procs : OursOnly(d)'
    <3>1. CASE OfLogin(c)
      BY <3>1, OursStep DEF IInv
    <3>2. CASE Start(c) \/ OfBroker(c) \/ OfPlane(c)
      <4>1. UNCHANGED login /\ with' = with
        BY <2>1, <3>2, FileGrows DEF IInv, Start, OfBroker, OfPlane
      <4>. QED
        BY <4>1 DEF login, IInv, GrantIsOurs, OursOnly
    <3>. QED
      BY <2>1, <3>1, <3>2
  <2>. QED
    BY <2>2, <2>3, <2>4, <2>5 DEF IInv
<1>2. CASE UNCHANGED vars
  <2>1. UNCHANGED <<with, db, at, amiss, tokens, told, entries, before, asked, work, grants>>
    BY <1>2 DEF vars, broker, plane, login
  <2>2. TypeOK' /\ Migrated' /\ Created' /\ GrantIsOurs'
    BY <2>1 DEF IInv, TypeOK, BrokerTypeOK, PlaneTypeOK, LoginTypeOK, Migrated, Opened, Created,
                Token, Role, GrantIsOurs
  <2>3. \A c \in Procs : Inserted(c)' /\ Listing(c)' /\ OursOnly(c)'
    BY <2>1 DEF IInv, Inserted, Token, Role, Listing, OursOnly
  <2>. QED
    BY <2>2, <2>3 DEF IInv
<1>. QED
  BY <1>1, <1>2

(* The types, the file's order, the tokens and the grants in every         *)
(* reachable state.                                                        *)
THEOREM Invariance == Spec => []IInv
  BY InitInv, NextInv, PTL DEF Spec

(* Each variable keeps its type; what an operator has been told is in the  *)
(* table.                                                                  *)
THEOREM TypeCorrect == Spec => []TypeOK
<1>1. IInv => TypeOK
  BY DEF IInv
<1>. QED
  BY <1>1, Invariance, PTL

(* Whoever got past OpenSQLite finds the file in order.                    *)
THEOREM OpenAlwaysMigrated == Spec => []OpenIsMigrated
<1>1. IInv => OpenIsMigrated
  BY DEF IInv, Migrated, OpenIsMigrated
<1>. QED
  BY <1>1, Invariance, PTL

(* The generation is never set back.                                       *)
THEOREM GenerationAlwaysKept == Spec => GenerationKept
<1>1. IInv /\ [Next]_vars => [db'.gen >= db.gen]_vars
  <2> SUFFICES ASSUME IInv, Next PROVE db'.gen >= db.gen
    OBVIOUS
  <2>1. PICK c \in Procs : Start(c) \/ OfBroker(c) \/ OfPlane(c) \/ OfLogin(c)
    BY StepKinds DEF Next
  <2>. QED
    BY <2>1, FileGrows DEF IInv
<1>. QED
  BY <1>1, Invariance, PTL DEF Spec, GenerationKept

(* Whoever logged in stored the grant of what they logged in to.           *)
THEOREM GrantAlwaysOurs == Spec => []GrantIsOurs
<1>1. IInv => GrantIsOurs
  BY DEF IInv
<1>. QED
  BY <1>1, Invariance, PTL

-------------------------------------------------------------------------------
(* Tokens are served as they were issued.                                  *)

(* There is a first entry that matches: a set of numbers has a smallest.   *)
LEMMA SmallestIn ==
  ASSUME NEW T, T \subseteq Nat, T # {}
  PROVE  \E n \in T : \A m \in T : n <= m
<1> DEFINE R == {ss \in Nat \X Nat : ss[1] < ss[2]}
<1>1. IsWellFoundedOn(R, Nat)
  BY NatLessThanWellFounded, Zenon DEF OpToRel
<1> HIDE DEF R
<1>2. PICK n \in T : \A m \in T : <<m, n>> \notin R
  BY <1>1, WFMin
<1>3. ASSUME NEW m \in T, m < n PROVE FALSE
  <2>1. <<m, n>> \in Nat \X Nat
    BY <1>2
  <2>2. <<m, n>> \in R
    BY <1>3, <2>1 DEF R
  <2>. QED
    BY <1>2, <2>2
<1>. QED
  BY <1>2, <1>3

(* What serve has in its list was issued, and is as it was created if it   *)
(* is of the table.                                                        *)
LEMMA ListedAsIssued ==
  ASSUME IInv, NEW c \in Procs, NEW i \in DOMAIN entries[c]
  PROVE  /\ entries[c][i] \in Issued /\ entries[c][i] \in TokensOf(Values)
         /\ entries[c][i].value \in Procs => entries[c][i] = Token(entries[c][i].value)
<1>1. entries[c] \in Seq(TokensOf(Values)) /\ entries[c][i] \in TokensOf(Values)
  BY DEF IInv, TypeOK, PlaneTypeOK
<1>2. entries[c][i] \in Range(entries[c])
  BY DEF Range
<1>3. entries[c][i] \in Range(with.env) \cup Range(tokens)
  BY <1>2 DEF IInv, Listing
<1>4. Range(with.env) \subseteq TokensOf(Values \ Procs)
  <2>1. with.env \in Seq(TokensOf(Values \ Procs))
    BY PlaneAssumption DEF IInv, TypeOK, BrokerTypeOK
  <2>. QED
    BY <2>1, RangeOfSeq
<1>5. entries[c][i] \in Range(with.env) => entries[c][i].value \notin Procs
  BY <1>4 DEF TokensOf
<1>. QED
  BY <1>1, <1>3, <1>5 DEF IInv, Created, Issued

(* The first match of a token that was told before serve started is that   *)
(* token.                                                                  *)
LEMMA RoleAsTold ==
  ASSUME IInv, NEW c \in Procs, at[c] = "serving", NEW t \in before[c]
  PROVE  RoleFor(entries[c], t.value) = {t.role}
<1> DEFINE list == entries[c]
           K    == {i \in DOMAIN list : list[i].value = t.value}
           F    == {i \in DOMAIN list :
                       list[i].value = t.value /\ \A j \in 1..(i - 1) : list[j].value # t.value}
<1>1. list \in Seq(TokensOf(Values)) /\ t \in Range(list) /\ t \in Range(tokens)
  BY DEF IInv, TypeOK, PlaneTypeOK, Listing
<1>2. t \in TokensOf(Procs) /\ t = Token(t.value)
  <2>1. tokens \in Seq(TokensOf(Procs))
    BY DEF IInv, TypeOK, PlaneTypeOK
  <2>2. Range(tokens) \subseteq TokensOf(Procs)
    BY <2>1, RangeOfSeq
  <2>. QED
    BY <1>1, <2>2 DEF IInv, Created
<1>3. t.value \in Procs
  BY <1>2 DEF TokensOf
<1>4. DOMAIN list = 1..Len(list) /\ Len(list) \in Nat
  BY <1>1
<1>5. K \subseteq Nat /\ K # {}
  BY <1>1, <1>4 DEF Range
<1> HIDE DEF list
<1>6. PICK n \in K : \A m \in K : n <= m
  BY <1>5, SmallestIn
<1>7. n \in F
  BY <1>4, <1>6
<1>8. \A i \in F : list[i].role = t.role
  BY <1>2, <1>3, ListedAsIssued DEF list
<1>9. RoleFor(list, t.value) = {list[i].role : i \in F}
  BY DEF RoleFor
<1>. QED
  BY <1>7, <1>8, <1>9 DEF list

(* Every route of the vault is below a path that provision is denied.      *)
LEMMA VaultIsDenied ==
  ASSUME NEW method, NEW path \in Paths, Route(method, path) \in OfTheVault
  PROVE  ProvisionDenied(path)
<1> USE DEF Paths, Credentials, Snapshot, Keys, Under
<1> DEFINE Pieces == {"/v1/credentials", "/v1/snapshot", "/v1/keys", "/v1/healthz", "/v1/other",
                      "/", "1", "s", "/stream"}
<1>1. path \in Seq(Pieces)
  <2>1. /\ Credentials \in Seq(Pieces) /\ Snapshot \in Seq(Pieces) /\ Keys \in Seq(Pieces)
        /\ <<"/">> \in Seq(Pieces) /\ <<"1">> \in Seq(Pieces) /\ <<"s">> \in Seq(Pieces)
        /\ <<"/stream">> \in Seq(Pieces) /\ <<"/v1/healthz">> \in Seq(Pieces)
        /\ <<"/v1/other">> \in Seq(Pieces)
    OBVIOUS
  <2>2. \A p, q \in Seq(Pieces) : p \o q \in Seq(Pieces)
    BY ConcatProperties
  <2> HIDE DEF Credentials, Snapshot, Keys, Pieces
  <2>3. Under(Credentials) \in Seq(Pieces) /\ Under(Keys) \in Seq(Pieces)
    BY <2>1, <2>2
  <2>. QED
    BY <2>1, <2>2, <2>3
<1>2. \/ path = Credentials \/ IsPrefix(Under(Credentials), path)
      \/ path = Snapshot \/ path = Snapshot \o <<"/stream">>
  BY DEF Route, OfTheVault
<1>3. path[1] = "/v1/credentials" \/ path[1] = "/v1/snapshot"
  BY <1>1, <1>2 DEF IsPrefix
<1>4. Len(path) >= 1
  BY <1>1
<1>5. IsPrefix(Credentials, path) \/ IsPrefix(Snapshot, path)
  BY <1>1, <1>3, <1>4 DEF IsPrefix
<1>. QED
  BY <1>5 DEF ProvisionDenied

(* What an operator was told is what serve answers, and only an admin's    *)
(* token reaches the vault.                                                *)
THEOREM AlwaysServedAsIssued == Spec => []ServedAsIssued
<1>1. IInv => ServedAsIssued
  <2> SUFFICES ASSUME IInv, NEW c \in Procs, at[c] = "serving",
                      NEW v \in Values, NEW method, NEW path \in Paths,
                      Answerer(entries[c], v, method, path) \in OfTheVault
               PROVE  [value |-> v, role |-> "admin"] \in Issued
    BY RoleAsTold DEF ServedAsIssued
  <2>1. /\ RoleFor(entries[c], v) # {}
        /\ ~(RoleFor(entries[c], v) = {"provision"} /\ ProvisionDenied(path))
        /\ Route(method, path) \in OfTheVault
    BY DEF Answerer, OfTheVault
  <2>2. PICK r \in RoleFor(entries[c], v) : r # "provision"
    BY <2>1, VaultIsDenied
  <2>3. PICK i \in DOMAIN entries[c] : entries[c][i].value = v /\ entries[c][i].role = r
    BY <2>2 DEF RoleFor
  <2>4. entries[c][i] \in Issued /\ entries[c][i] \in TokensOf(Values)
    BY <2>3, ListedAsIssued
  <2>. QED
    BY <2>2, <2>3, <2>4 DEF TokensOf, Roles
<1>. QED
  BY <1>1, Invariance, PTL

-------------------------------------------------------------------------------
(* Why commands fail.                                                      *)

LEMMA BlameGrows ==
  ASSUME TypeOK, NEW c \in Procs, OfBroker(c) \/ OfPlane(c) \/ OfLogin(c)
  PROVE  \A d \in Procs : amiss[d] \subseteq amiss'[d]
<1> DEFINE Grows == \A d \in Procs : amiss[d] \subseteq amiss'[d]
<1>1. amiss \in [Procs -> SUBSET Causes]
  BY DEF TypeOK, BrokerTypeOK
<1>2. ASSUME UNCHANGED amiss PROVE Grows
  BY <1>2
<1>3. ASSUME NEW y, Blame(c, y) PROVE Grows
  BY <1>1, <1>3 DEF Blame
<1>4. ASSUME NEW late, Watch(c, late) PROVE Grows
  BY <1>1, <1>4 DEF Watch
<1>5. ASSUME NEW a \in Procs, Paste(c, a) PROVE Grows
  BY <1>1, <1>5 DEF Paste
<1> HIDE DEF Grows
<1>6. ASSUME OfBroker(c) PROVE Grows
  <2>1. UNCHANGED amiss \/ Blame(c, "busy")
    <3>1. CASE OpenStep(c)
      BY <3>1 DEF OpenStep, Schema, CountMeta, InsertMeta, ReadVersion, MigrateV2, AlterKeys,
                  RecordVersion
    <3>2. CASE Import(c) \/ BumpGeneration(c) \/ OpenBusy(c) \/ WriteBusy(c) \/ Crash(c)
      BY <3>2 DEF Import, BumpGeneration, OpenBusy, WriteBusy, Crash
    <3>. QED
      BY <1>6, <3>1, <3>2 DEF OfBroker
  <2>. QED
    BY <1>2, <1>3, <2>1
<1>7. ASSUME OfPlane(c) PROVE Grows
  BY <1>2, <1>3, <1>7 DEF OfPlane, InsertToken, TellToken, LoadTokens, LoadBusy, Stop
<1>8. ASSUME LoginStep(c) PROVE Grows
  <2>1. ASSUME Listen(c) \/ DeviceAuthorize(c) \/ Sleep(c) PROVE Grows
    BY <1>2, <1>3, <1>4, <2>1 DEF Listen, DeviceAuthorize, Sleep
  <2>2. ASSUME \/ ReceiveCode(c) \/ ReceiveErr(c) \/ Shutdown(c) \/ Exchange(c) \/ ShowURL(c)
               \/ TimeOut(c) \/ PollPending(c) \/ PollGranted(c) \/ PollRefused(c) \/ Put(c)
        PROVE  Grows
    BY <1>2, <2>2 DEF ReceiveCode, ReceiveErr, Shutdown, Exchange, ShowURL, TimeOut, PollPending,
                      PollGranted, PollRefused, Put
  <2>3. ASSUME SendErr(c) \/ \E a \in Procs : SendCode(c, a) PROVE Grows
    BY <1>2, <2>3 DEF SendErr, SendCode, broker
  <2>. QED
    BY <1>8, <2>1, <2>2, <2>3 DEF LoginStep
<1>9. ASSUME LoginEvent(c) PROVE Grows
  <2>1. ASSUME NEW a \in Procs, Callback(c, a) \/ Decline(c, a) PROVE Grows
    BY <1>2, <1>3, <2>1 DEF Callback, Decline
  <2>2. ASSUME ExchangeLost(c) \/ PasteNothing(c) \/ Answer(c) \/ CallLost(c) PROVE Grows
    BY <1>2, <1>3, <2>2 DEF ExchangeLost, PasteNothing, Answer, CallLost
  <2>. QED
    BY <1>5, <1>9, <2>1, <2>2 DEF LoginEvent
<1>10. Grows
  BY <1>6, <1>7, <1>8, <1>9 DEF OfLogin
<1>. QED
  BY <1>10 DEF Grows

(* A process that is not opening the file is no rival.                     *)
LEMMA RivalryAside ==
  ASSUME Rivalry, UNCHANGED db,
         \A d \in Procs : at'[d] \in Statements => at'[d] = at[d],
         \A d \in Procs : amiss[d] \subseteq amiss'[d]
  PROVE  Rivalry'
<1> USE DEF Rivalry, Opening, Statements
<1>1. \A c \in Procs : \A d \in Procs \ {c} : Opening(c)' /\ Opening(d)' => amiss'[c] # {}
  OBVIOUS
<1>. QED
  BY <1>1

(* How a step of another process may change what d has asked for: it is    *)
(* answered, or in the browser declined, or its code is used, which in     *)
(* these flows cannot go wrong unseen.                                     *)
Touched(d) ==
    \/ asked'[d] = asked[d]
    \/ asked[d] = "asked" /\ asked'[d] = "issued"
    \/ asked[d] \in {"asked", "refused"} /\ asked'[d] = "refused" /\ with.flow = "browser"
    \/ asked[d] \in {"issued", "used"} /\ asked'[d] = "used" /\ with.flow # "browser" /\ amiss[d] # {}

(* A process that a step only touches is explained as before.              *)
LEMMA ExplainedAside ==
  ASSUME NEW d \in Procs, Explained(d), Touched(d),
         with' = with, at'[d] = at[d], work'[d] = work[d], amiss[d] \subseteq amiss'[d],
         work[d].code \subseteq Procs,
         \A a \in Procs : asked[a] \in {"issued", "used"} =>
             asked'[a] \in {"issued", "used"} /\ amiss[a] \subseteq amiss'[a]
  PROVE  Explained(d)'
<1>1. Placed(d)'
  BY DEF Explained, Placed, Flow
<1>2. Untouched(d)'
  BY DEF Explained, Untouched, Touched, Fresh
<1>3. BrowserExplained(d)'
  BY DEF Explained, BrowserExplained, Touched
<1>4. ManualExplained(d)'
  BY DEF Explained, ManualExplained, Touched
<1>5. DeviceExplained(d)'
  BY DEF Explained, DeviceExplained, Late, Touched
<1>. QED
  BY <1>1, <1>2, <1>3, <1>4, <1>5 DEF Explained

(* The code a process works on, and whose it may be.                       *)
LEMMA CodeExplained ==
  ASSUME TypeOK, NEW c \in Procs, OursOnly(c), Explained(c), at[c] = "exchange", NEW a \in work[c].code
  PROVE  /\ a \in Procs /\ asked[a] \in {"issued", "used"}
         /\ with.flow \in {"browser", "manual"} /\ with.job[c] = "login"
         /\ with.flow = "browser" => a = c /\ asked[c] = "issued"
         /\ a # c => with.flow = "manual" /\ amiss[a] # {} /\ amiss[c] # {}
         /\ asked[c] = "used" => amiss[c] # {}
<1>1. a \in Procs
  BY DEF TypeOK, LoginTypeOK, Works
<1>2. with.flow \in {"browser", "manual"} /\ with.job[c] = "login"
  BY DEF Explained, Placed, Flow
<1>3. CASE with.flow = "browser"
  <2>1. a = c
    BY <1>3 DEF OursOnly
  <2>2. asked[c] = "issued"
    BY <1>3, <2>1 DEF Explained, BrowserExplained
  <2>. QED
    BY <1>1, <1>2, <1>3, <2>1, <2>2
<1>4. CASE with.flow = "manual"
  BY <1>1, <1>4, <1>2 DEF Explained, ManualExplained
<1>. QED
  BY <1>1, <1>2, <1>3, <1>4

(* A login touches other processes' authorizations only to blame them.     *)
LEMMA LoginTouches ==
  ASSUME TypeOK, \A d \in Procs : OursOnly(d) /\ Explained(d), NEW c \in Procs, OfLogin(c)
  PROVE  /\ \A d \in Procs \ {c} : Touched(d) /\ work'[d] = work[d]
         /\ \A a \in Procs : asked[a] \in {"issued", "used"} => asked'[a] \in {"issued", "used"}
<1> DEFINE Touches == /\ \A d \in Procs \ {c} : Touched(d) /\ work'[d] = work[d]
                      /\ \A a \in Procs : asked[a] \in {"issued", "used"} =>
                             asked'[a] \in {"issued", "used"}
<1>1. /\ asked \in [Procs -> States] /\ work \in [Procs -> Works] /\ with' = with
      /\ OursOnly(c) /\ Explained(c)
  BY LoginLeaves DEF TypeOK, LoginTypeOK
<1>2. ASSUME UNCHANGED <<asked, work>> PROVE Touches
  BY <1>2 DEF Touched
<1>3. ASSUME UNCHANGED asked, NEW j, Set(c, j) PROVE Touches
  BY <1>1, <1>3 DEF Touched, Set
<1>4. ASSUME Listen(c) \/ ShowURL(c) \/ DeviceAuthorize(c) PROVE Touches
  <2>1. asked[c] = "none" /\ UNCHANGED work /\ (Ask(c, "asked") \/ UNCHANGED asked)
    BY <1>1, <1>4 DEF Listen, ShowURL, DeviceAuthorize, GoTo, Explained, Untouched
  <2>. QED
    BY <1>1, <2>1 DEF Touched, Ask
<1>5. ASSUME Answer(c) PROVE Touches
  BY <1>1, <1>5 DEF Touched, Answer, Ask
<1>6. ASSUME PollGranted(c) PROVE Touches
  BY <1>1, <1>6 DEF Touched, PollGranted, Ask, Set
<1>7. ASSUME NEW a \in Procs, Callback(c, a) PROVE Touches
  <2>1. \E j : Set(c, j)
    BY <1>7 DEF Callback, Handle
  <2>2. \A d \in Procs : asked'[d] # asked[d] => asked[d] = "asked" /\ asked'[d] = "issued"
    BY <1>1, <1>7 DEF Callback
  <2>. QED
    BY <1>1, <2>1, <2>2 DEF Touched, Set
<1>8. ASSUME NEW a \in Procs, Decline(c, a) PROVE Touches
  BY <1>1, <1>8 DEF Touched, Decline, Ask, Set, Listening, Flow
<1>9. ASSUME NEW a \in Procs, Paste(c, a) PROVE Touches
  <2>1. \A d \in Procs : asked'[d] # asked[d] => asked[d] = "asked" /\ asked'[d] = "issued"
    BY <1>1, <1>9 DEF Paste
  <2>. QED
    BY <1>1, <1>9, <2>1 DEF Touched, Paste, Set
<1>10. ASSUME at[c] = "exchange", NEW a \in work[c].code, NEW j, Set(c, j),
              asked' \in {asked, [asked EXCEPT ![a] = "used"]}
       PROVE  Touches
  <2>1. /\ a \in Procs /\ asked[a] \in {"issued", "used"}
        /\ a # c => with.flow = "manual" /\ amiss[a] # {}
    BY <1>1, <1>10, CodeExplained
  <2>. QED
    BY <1>1, <1>10, <2>1 DEF Touched, Set
<1>11. ASSUME Exchange(c) PROVE Touches
  <2>1. PICK a \in work[c].code : /\ \E j : Set(c, j)
                                  /\ asked' \in {asked, [asked EXCEPT ![a] = "used"]}
    BY <1>11 DEF Exchange, Ask
  <2>2. at[c] = "exchange"
    BY <1>11 DEF Exchange, Finish, GoTo
  <2>. QED
    BY <1>10, <2>1, <2>2
<1>12. ASSUME ExchangeLost(c) PROVE Touches
  <2>1. PICK a \in work[c].code : /\ \E j : Set(c, j)
                                  /\ asked' \in {asked, [asked EXCEPT ![a] = "used"]}
    BY <1>12 DEF ExchangeLost
  <2>2. at[c] = "exchange"
    BY <1>12 DEF ExchangeLost, Finish, GoTo
  <2>. QED
    BY <1>10, <2>1, <2>2
<1>13. Touches
  <2>1. ASSUME \/ TimeOut(c) \/ PollPending(c) \/ PollRefused(c) \/ PasteNothing(c) \/ CallLost(c)
        PROVE  UNCHANGED <<asked, work>>
    BY <2>1 DEF TimeOut, PollPending, PollRefused, PasteNothing, CallLost, login
  <2>2. ASSUME \/ ReceiveCode(c) \/ ReceiveErr(c) \/ Shutdown(c) \/ SendErr(c) \/ Sleep(c) \/ Put(c)
               \/ \E a \in Procs : SendCode(c, a)
        PROVE  UNCHANGED asked /\ \E j : Set(c, j)
    BY <2>2 DEF ReceiveCode, ReceiveErr, Shutdown, SendErr, Sleep, Put, SendCode
  <2> HIDE DEF Touches
  <2>3. CASE LoginStep(c)
    BY <1>2, <1>3, <1>4, <1>6, <1>11, <2>1, <2>2, <2>3 DEF LoginStep
  <2>4. CASE LoginEvent(c)
    BY <1>2, <1>5, <1>7, <1>8, <1>9, <1>12, <2>1, <2>4 DEF LoginEvent
  <2>. QED
    BY <2>3, <2>4 DEF OfLogin
<1>. QED
  BY <1>13

(* A login's own steps keep it explained, and fail for a cause.            *)
LEMMA OwnExplained ==
  ASSUME TypeOK, \A d \in Procs : OursOnly(d) /\ Explained(d), NEW c \in Procs, OfLogin(c)
  PROVE  /\ Explained(c)'
         /\ at'[c] = "failed" /\ at[c] # "failed" => amiss'[c] # {}
<1> DEFINE Own == /\ Explained(c)'
                  /\ at'[c] = "failed" /\ at[c] # "failed" => amiss'[c] # {}
<1>1. /\ asked \in [Procs -> States] /\ work \in [Procs -> Works] /\ with' = with
      /\ at \in [Procs -> Places] /\ amiss \in [Procs -> SUBSET Causes]
      /\ work[c] \in Works
  BY LoginLeaves DEF TypeOK, LoginTypeOK, BrokerTypeOK
<1>2. /\ Placed(c) /\ Untouched(c) /\ BrowserExplained(c) /\ ManualExplained(c)
      /\ DeviceExplained(c) /\ OursOnly(c)
  BY DEF Explained
<1>3. with.lifetime \in Nat /\ with.flow \in {"browser", "manual", "device"}
  BY BrokerAssumption DEF TypeOK, BrokerTypeOK
<1>4. amiss[c] \subseteq amiss'[c]
  BY BlameGrows
<1> USE DEF Explained, Placed, Untouched, BrowserExplained, ManualExplained, DeviceExplained, Flow,
            Statements
<1>5. ASSUME Listen(c) PROVE Own
  <2>1. /\ with.flow = "browser" /\ with.job[c] = "login" /\ work' = work /\ work[c] = Fresh
        /\ \/ at'[c] = "wait" /\ asked'[c] = "asked"
           \/ at'[c] = "failed" /\ amiss'[c] # {}
    <3>1. at[c] = "run" /\ with.flow = "browser" /\ with.job[c] = "login" /\ work' = work
      BY <1>5 DEF Listen, GoTo
    <3>2. work[c] = Fresh
      BY <1>2, <3>1
    <3>3. CASE GoTo(c, "run", "wait") /\ Ask(c, "asked")
      BY <1>1, <3>1, <3>2, <3>3 DEF GoTo, Ask
    <3>4. CASE GoTo(c, "run", "failed") /\ Blame(c, "taken")
      BY <1>1, <3>1, <3>2, <3>4 DEF GoTo, Blame
    <3>. QED
      BY <1>5, <3>3, <3>4 DEF Listen
  <2>. QED
    BY <1>1, <2>1 DEF Fresh
<1>6. ASSUME ReceiveCode(c) PROVE Own
  <2>1. /\ at[c] = "wait" /\ at'[c] = "exchange" /\ UNCHANGED asked
        /\ work'[c] = [work[c] EXCEPT !.code = work[c].codeCh, !.codeCh = {}]
    BY <1>1, <1>6 DEF ReceiveCode, GoTo, Set
  <2>2. /\ work'[c].code = work[c].codeCh /\ work'[c].codeCh = {}
        /\ work'[c].errs = work[c].errs /\ work'[c].errCh = work[c].errCh
        /\ work'[c].blocked = work[c].blocked
    BY <1>1, <2>1 DEF Works
  <2>. QED
    BY <1>1, <1>2, <1>4, <2>1, <2>2
<1>7. ASSUME ReceiveErr(c) PROVE Own
  <2>1. /\ at[c] = "wait" /\ at'[c] = "close" /\ UNCHANGED asked /\ work[c].errCh
        /\ work'[c] = [work[c] EXCEPT !.errCh = FALSE]
    BY <1>1, <1>7 DEF ReceiveErr, GoTo, Set
  <2>2. /\ work'[c].code = work[c].code /\ work'[c].codeCh = work[c].codeCh
        /\ work'[c].errs = work[c].errs /\ work'[c].errCh = FALSE
        /\ work'[c].blocked = work[c].blocked
    BY <1>1, <2>1 DEF Works
  <2>. QED
    BY <1>1, <1>2, <1>4, <2>1, <2>2
<1>8. ASSUME Shutdown(c) PROVE Own
  <2>1. /\ at[c] = "close" /\ at'[c] = Returned(c) /\ UNCHANGED asked
        /\ work'[c] = [Fresh EXCEPT !.grant = work[c].grant]
    BY <1>1, <1>8 DEF Shutdown, Returned, GoTo, Set
  <2>2. /\ work'[c].code = {} /\ work'[c].codeCh = {}
        /\ work'[c].errs = 0 /\ work'[c].errCh = FALSE /\ work'[c].blocked[c] = 0
    BY <2>1 DEF Fresh
  <2>. QED
    BY <1>1, <1>2, <1>4, <2>1, <2>2 DEF Returned
<1>9. ASSUME Exchange(c) PROVE Own
  <2>1. at[c] = "exchange"
    BY <1>9 DEF Exchange, Finish, GoTo
  <2>2. PICK a \in work[c].code :
          \/ /\ Accepted(c, a) /\ Finish(c, TRUE) /\ Ask(a, "used")
             /\ Set(c, [work[c] EXCEPT !.code = {}, !.grant = {a}])
          \/ /\ ~Accepted(c, a) /\ Finish(c, FALSE)
             /\ Set(c, [work[c] EXCEPT !.code = {}]) /\ UNCHANGED asked
    BY <1>9 DEF Exchange
  <2>3. /\ a \in Procs /\ asked[a] \in {"issued", "used"}
        /\ with.flow \in {"browser", "manual"} /\ with.job[c] = "login"
        /\ with.flow = "browser" => a = c /\ asked[c] = "issued"
        /\ a # c => with.flow = "manual" /\ amiss[a] # {} /\ amiss[c] # {}
        /\ asked[c] = "used" => amiss[c] # {}
    BY <2>1, CodeExplained
  <2>4. /\ work'[c].code = {} /\ work'[c].codeCh = work[c].codeCh
        /\ work'[c].errs = work[c].errs /\ work'[c].errCh = work[c].errCh
        /\ work'[c].blocked = work[c].blocked
        /\ Accepted(c, a) => work'[c].grant = {a}
    <3>1. CASE Set(c, [work[c] EXCEPT !.code = {}, !.grant = {a}])
      BY <1>1, <3>1 DEF Set, Works
    <3>2. CASE ~Accepted(c, a) /\ Set(c, [work[c] EXCEPT !.code = {}])
      BY <1>1, <3>2 DEF Set, Works
    <3>. QED
      BY <2>2, <3>1, <3>2
  <2>5. asked'[c] \in {asked[c], "used"} /\ (asked'[c] # asked[c] => asked[c] = "issued")
    BY <1>1, <2>2, <2>3 DEF Ask, Accepted
  <2>6. CASE with.flow = "browser"
    <3>1. Accepted(c, a) /\ at'[c] = "close"
      BY <1>1, <2>2, <2>3, <2>6 DEF Accepted, Finish, GoTo
    <3>2. asked'[c] = "used" /\ work'[c].grant # {}
      BY <1>1, <2>2, <2>3, <2>4, <2>6, <3>1 DEF Ask
    <3>. QED
      BY <1>1, <1>2, <1>4, <2>1, <2>3, <2>4, <2>6, <3>1, <3>2
  <2>7. CASE with.flow = "manual"
    <3>1. at'[c] = IF Accepted(c, a) THEN "put" ELSE "failed"
      BY <1>1, <2>2, <2>7 DEF Finish, GoTo
    <3>2. ~Accepted(c, a) => amiss[c] # {}
      BY <2>3 DEF Accepted
    <3>. QED
      BY <1>1, <1>4, <2>3, <2>4, <2>7, <3>1, <3>2
  <2>. QED
    BY <2>3, <2>6, <2>7
<1>10. ASSUME SendErr(c) PROVE Own
  <2>1. /\ UNCHANGED <<with, at, amiss, asked>>
        /\ work[c].errs > 0 /\ work'[c] = [work[c] EXCEPT !.errs = @ - 1, !.errCh = TRUE]
        /\ at[c] \in {"wait", "exchange", "close"}
    BY <1>1, <1>10 DEF SendErr, Set, broker, Serving, Listening
  <2>2. /\ work'[c].code = work[c].code /\ work'[c].codeCh = work[c].codeCh
        /\ work'[c].blocked = work[c].blocked /\ work'[c].grant = work[c].grant
    BY <1>1, <2>1 DEF Works
  <2>3. with.flow = "browser" /\ with.job[c] = "login"
    BY <1>2, <1>10 DEF SendErr, Serving, Listening
  <2>. QED
    BY <1>1, <1>2, <2>1, <2>2, <2>3
<1>11. ASSUME NEW a \in Procs, SendCode(c, a) PROVE Own
  <2>1. with.flow = "browser" /\ with.job[c] = "login"
    BY <1>2, <1>11 DEF SendCode, Serving, Listening
  <2>2. /\ UNCHANGED <<with, at, amiss, asked>> /\ a = c /\ work[c].blocked[c] > 0
        /\ work'[c] = [work[c] EXCEPT !.blocked[c] = @ - 1, !.codeCh = {c}]
        /\ at[c] \in {"wait", "exchange", "close"}
    <3>1. /\ work' = [work EXCEPT ![c] = [work[c] EXCEPT !.blocked[a] = @ - 1, !.codeCh = {a}]]
          /\ work[c].blocked[a] > 0 /\ UNCHANGED <<with, at, amiss, asked>>
          /\ at[c] \in {"wait", "exchange", "close"}
      BY <1>11 DEF SendCode, Set, broker, Serving, Listening
    <3>2. a = c
      BY <1>2, <2>1, <3>1 DEF OursOnly
    <3>. QED
      BY <1>1, <3>1, <3>2
  <2>3. /\ work'[c].code = work[c].code /\ work'[c].errs = work[c].errs
        /\ work'[c].errCh = work[c].errCh /\ work'[c].grant = work[c].grant
    BY <1>1, <2>2 DEF Works
  <2>. QED
    BY <1>1, <1>2, <2>1, <2>2, <2>3
<1>12. ASSUME ShowURL(c) PROVE Own
  <2>1. /\ with.flow = "manual" /\ with.job[c] = "login" /\ work' = work /\ work[c] = Fresh
        /\ at'[c] = "paste" /\ asked'[c] = "asked"
    BY <1>1, <1>2, <1>12 DEF ShowURL, GoTo, Ask
  <2>. QED
    BY <1>1, <2>1 DEF Fresh
<1>13. ASSUME DeviceAuthorize(c) PROVE Own
  <2>1. /\ with.flow = "device" /\ with.job[c] = "login" /\ work' = work /\ work[c] = Fresh
        /\ at'[c] = "sleep" /\ asked'[c] = "asked" /\ asked[c] = "none"
        /\ Watch(c, Late(c, 0))
    BY <1>1, <1>2, <1>13 DEF DeviceAuthorize, GoTo, Ask
  <2>2. 0 + 1 >= with.lifetime => amiss'[c] # {}
    BY <1>1, <2>1 DEF Watch, Late
  <2>3. work'[c].spent = 0
    BY <2>1 DEF Fresh
  <2>. QED
    BY <1>1, <1>3, <2>1, <2>2, <2>3
<1>14. ASSUME Sleep(c) PROVE Own
  <2>1. /\ at[c] = "sleep" /\ at'[c] = "poll" /\ UNCHANGED asked /\ work[c].spent < with.lifetime
        /\ work'[c] = [work[c] EXCEPT !.spent = @ + 1]
        /\ Watch(c, Late(c, work[c].spent + 1))
    BY <1>1, <1>14 DEF Sleep, GoTo, Set
  <2>2. work'[c].spent = work[c].spent + 1 /\ work[c].spent \in Nat
    BY <1>1, <2>1, Bounds DEF Works
  <2>3. Late(c, work[c].spent + 1) => amiss'[c] # {}
    BY <1>1, <2>1 DEF Watch
  <2>4. with.flow = "device" /\ with.job[c] = "login"
    BY <1>2, <2>1
  <2>. QED
    BY <1>1, <1>2, <1>3, <1>4, <2>1, <2>2, <2>3, <2>4 DEF Late
<1>15. ASSUME TimeOut(c) PROVE Own
  <2>1. at[c] = "sleep" /\ at'[c] = "failed" /\ UNCHANGED <<asked, work>> /\ work[c].spent >= with.lifetime
    BY <1>1, <1>15 DEF TimeOut, GoTo, login
  <2>2. with.flow = "device" /\ with.job[c] = "login" /\ work[c].spent \in Nat
    BY <1>1, <1>2, <2>1, Bounds DEF Works
  <2>3. amiss[c] # {}
    BY <1>2, <1>3, <2>1, <2>2
  <2>. QED
    BY <1>1, <1>2, <1>4, <2>1, <2>2, <2>3
<1>16. ASSUME PollPending(c) PROVE Own
  <2>1. at[c] = "poll" /\ at'[c] = "sleep" /\ UNCHANGED <<asked, work, amiss>> /\ asked[c] = "asked"
    BY <1>1, <1>16 DEF PollPending, GoTo, login
  <2>2. with.flow = "device" /\ with.job[c] = "login"
    BY <1>2, <2>1
  <2>. QED
    BY <1>1, <1>2, <2>1, <2>2 DEF Late
<1>17. ASSUME PollGranted(c) PROVE Own
  <2>1. at[c] = "poll" /\ at'[c] = "put" /\ asked'[c] = "used"
    BY <1>1, <1>17 DEF PollGranted, GoTo, Ask
  <2>2. with.flow = "device" /\ with.job[c] = "login"
    BY <1>2, <2>1
  <2>. QED
    BY <1>1, <2>1, <2>2
<1>18. ASSUME PollRefused(c) PROVE Own
  <2>1. /\ at[c] = "poll" /\ at'[c] = "failed" /\ UNCHANGED <<asked, work, amiss>>
        /\ asked[c] = "refused" \/ work[c].spent >= with.lifetime
    BY <1>1, <1>18 DEF PollRefused, GoTo, login
  <2>2. with.flow = "device" /\ with.job[c] = "login"
    BY <1>2, <2>1
  <2>. QED
    BY <1>1, <1>2, <2>1, <2>2
<1>19. ASSUME Put(c) PROVE Own
  <2>1. at[c] = "put" /\ at'[c] = "bump" /\ UNCHANGED asked /\ work'[c] = Fresh
    BY <1>1, <1>19 DEF Put, GoTo, Set
  <2>2. with.job[c] = "login"
    BY <1>2, <2>1
  <2>. QED
    BY <1>1, <1>2, <1>4, <2>1, <2>2 DEF Fresh
<1>20. ASSUME NEW a \in Procs, Callback(c, a) PROVE Own
  <2>1. /\ with.flow = "browser" /\ with.job[c] = "login" /\ at' = at
        /\ at[c] \in {"wait", "exchange"} /\ asked[a] \in {"asked", "issued", "used"}
        /\ asked'[c] \in {asked[c], "issued"} /\ (asked[c] = "used" => asked'[c] = "used")
    BY <1>1, <1>20 DEF Callback, Listening
  <2>2. CASE a = c
    <3>1. /\ asked'[c] \in {"issued", "used"}
          /\ work'[c] = [work[c] EXCEPT !.left = @ - 1, !.blocked[c] = @ + 1]
      BY <1>1, <1>20, <2>2 DEF Callback, Handle, Set
    <3>2. /\ work'[c].code = work[c].code /\ work'[c].codeCh = work[c].codeCh
          /\ work'[c].errs = work[c].errs /\ work'[c].errCh = work[c].errCh
          /\ work'[c].grant = work[c].grant
      BY <1>1, <3>1 DEF Works
    <3>. QED
      BY <1>1, <1>2, <1>4, <2>1, <3>1, <3>2
  <2>3. CASE a # c
    <3>1. /\ asked'[c] = asked[c] /\ amiss'[c] # {}
          /\ work'[c] = [work[c] EXCEPT !.left = @ - 1, !.errs = @ + 1]
      <4>1. /\ asked' = [asked EXCEPT ![a] = IF @ = "asked" THEN "issued" ELSE @]
            /\ Handle(c, a) /\ Blame(c, "stray")
        BY <1>20, <2>3 DEF Callback
      <4>2. work' = [work EXCEPT ![c] = [work[c] EXCEPT !.left = @ - 1, !.errs = @ + 1]]
        BY <2>3, <4>1 DEF Handle, Set
      <4>3. amiss'[c] # {}
        BY <1>1, <4>1 DEF Blame
      <4>. QED
        BY <1>1, <2>3, <4>1, <4>2, <4>3
    <3>2. /\ work'[c].code = work[c].code /\ work'[c].codeCh = work[c].codeCh
          /\ work'[c].blocked = work[c].blocked /\ work'[c].grant = work[c].grant
      BY <1>1, <3>1 DEF Works
    <3>. QED
      BY <1>1, <1>2, <2>1, <3>1, <3>2
  <2>. QED
    BY <2>2, <2>3
<1>21. ASSUME NEW a \in Procs, Decline(c, a) PROVE Own
  <2>1. /\ with.flow = "browser" /\ with.job[c] = "login" /\ at' = at
        /\ at[c] \in {"wait", "exchange"} /\ amiss'[c] # {}
        /\ \/ asked'[c] = asked[c]
           \/ asked[c] \in {"asked", "refused"} /\ asked'[c] = "refused"
        /\ work'[c] = [work[c] EXCEPT !.left = @ - 1, !.errs = @ + 1]
    BY <1>1, <1>21 DEF Decline, Listening, Ask, Set, Blame
  <2>2. /\ work'[c].code = work[c].code /\ work'[c].codeCh = work[c].codeCh
        /\ work'[c].blocked = work[c].blocked /\ work'[c].grant = work[c].grant
    BY <1>1, <2>1 DEF Works
  <2>. QED
    BY <1>1, <1>2, <2>1, <2>2
<1>22. ASSUME NEW a \in Procs, Paste(c, a) PROVE Own
  <2>1. /\ with.flow = "manual" /\ with.job[c] = "login"
        /\ at[c] = "paste" /\ at'[c] = "exchange"
        /\ asked'[a] \in {"issued", "used"}
        /\ asked'[c] = "used" => asked[c] = "used"
        /\ work'[c] = [work[c] EXCEPT !.code = {a}]
        /\ a # c => amiss'[a] # {} /\ amiss'[c] # {}
    <3>1. /\ with.flow = "manual" /\ with.job[c] = "login"
          /\ at[c] = "paste" /\ at'[c] = "exchange"
          /\ work'[c] = [work[c] EXCEPT !.code = {a}]
      BY <1>1, <1>22 DEF Paste, GoTo, Set
    <3>2. asked'[a] \in {"issued", "used"} /\ (asked'[c] = "used" => asked[c] = "used")
      BY <1>1, <1>22 DEF Paste
    <3>3. a # c => amiss'[a] # {} /\ amiss'[c] # {}
      BY <1>1, <1>22 DEF Paste
    <3>. QED
      BY <3>1, <3>2, <3>3
  <2>2. work'[c].code = {a}
    BY <1>1, <2>1 DEF Works
  <2>. QED
    BY <1>1, <1>2, <1>4, <2>1, <2>2
<1>23. ASSUME ExchangeLost(c) PROVE Own
  <2>1. at[c] = "exchange" /\ amiss'[c] # {}
    BY <1>1, <1>23 DEF ExchangeLost, Finish, GoTo, Blame
  <2>2. PICK a \in work[c].code : /\ asked' \in {asked, [asked EXCEPT ![a] = "used"]}
                                  /\ Set(c, [work[c] EXCEPT !.code = {}])
    BY <1>23 DEF ExchangeLost
  <2>3. /\ a \in Procs /\ asked[a] \in {"issued", "used"}
        /\ with.flow \in {"browser", "manual"} /\ with.job[c] = "login"
    BY <2>1, CodeExplained
  <2>4. /\ work'[c].code = {} /\ work'[c].codeCh = work[c].codeCh
        /\ work'[c].errs = work[c].errs /\ work'[c].errCh = work[c].errCh
        /\ work'[c].blocked = work[c].blocked
    BY <1>1, <2>2 DEF Set, Works
  <2>5. at'[c] = (IF with.flow = "browser" THEN "close" ELSE "failed")
    BY <1>1, <1>23 DEF ExchangeLost, Finish, GoTo
  <2>6. asked[c] \in {"issued", "used"} => asked'[c] \in {"issued", "used"}
    BY <1>1, <2>2
  <2>. QED
    BY <1>1, <1>2, <2>1, <2>3, <2>4, <2>5, <2>6
<1>24. ASSUME PasteNothing(c) \/ CallLost(c) PROVE Own
  <2>1. /\ with.flow \in {"manual", "device"} /\ with.job[c] = "login" /\ at'[c] = "failed"
        /\ UNCHANGED <<asked, work>> /\ amiss'[c] # {}
    <3>1. CASE PasteNothing(c)
      BY <1>1, <3>1 DEF PasteNothing, GoTo, Blame, login
    <3>2. CASE CallLost(c)
      <4>1. GoTo(c, "run", "failed") \/ GoTo(c, "poll", "failed")
        BY <3>2 DEF CallLost
      <4>2. at'[c] = "failed"
        BY <1>1, <4>1 DEF GoTo
      <4>. QED
        BY <1>1, <3>2, <4>2 DEF CallLost, Blame, login
    <3>. QED
      BY <1>24, <3>1, <3>2
  <2>2. \A a \in Procs : amiss[a] \subseteq amiss'[a]
    BY BlameGrows
  <2>3. work[c].code \subseteq Procs
    BY <1>1 DEF Works
  <2>. QED
    BY <1>1, <1>2, <2>1, <2>2, <2>3
<1>25. ASSUME Answer(c) PROVE Own
  <2>1. /\ with.flow = "device" /\ with.job[c] = "login" /\ at' = at /\ work' = work
        /\ asked[c] = "asked"
        /\ \/ asked'[c] = "issued"
           \/ asked'[c] = "refused" /\ amiss'[c] # {}
    BY <1>1, <1>25 DEF Answer, Ask, Blame
  <2>. QED
    BY <1>1, <1>2, <1>4, <2>1 DEF Late
<1> HIDE DEF Own
<1>26. CASE LoginStep(c)
  BY <1>5, <1>6, <1>7, <1>8, <1>9, <1>10, <1>11, <1>12, <1>13, <1>14, <1>15, <1>16, <1>17, <1>18,
     <1>19, <1>26 DEF LoginStep, Own
<1>27. CASE LoginEvent(c)
  BY <1>20, <1>21, <1>22, <1>23, <1>24, <1>25, <1>27 DEF LoginEvent, Own
<1>. QED
  BY <1>26, <1>27 DEF OfLogin

(* A step of a login keeps every failure explained.                        *)
LEMMA CauseLogin ==
  ASSUME CauseInv, NEW c \in Procs, OfLogin(c)
  PROVE  Rivalry' /\ FailsForCause' /\ \A d \in Procs : Explained(d)'
<1>1. /\ TypeOK /\ Rivalry /\ FailsForCause /\ UNCHANGED <<with, db, before>>
      /\ \A d \in Procs : OursOnly(d) /\ Explained(d)
      /\ \A d \in Procs : amiss[d] \subseteq amiss'[d]
      /\ \A d \in Procs \ {c} : at'[d] = at[d] /\ Touched(d) /\ work'[d] = work[d]
      /\ \A a \in Procs : asked[a] \in {"issued", "used"} => asked'[a] \in {"issued", "used"}
  BY LoginLeaves, BlameGrows, StaysBeyond, LoginTouches DEF CauseInv, IInv
<1>2. Explained(c)' /\ (at'[c] = "failed" /\ at[c] # "failed" => amiss'[c] # {})
  BY <1>1, OwnExplained
<1>3. \A d \in Procs : at'[d] \in Statements => at'[d] = at[d]
  BY <1>1, StaysBeyond DEF Beyond
<1>4. Rivalry'
  BY <1>1, <1>3, RivalryAside
<1>5. FailsForCause'
  BY <1>1, <1>2 DEF FailsForCause
<1>6. ASSUME NEW d \in Procs \ {c} PROVE Explained(d)'
  <2>1. work[d].code \subseteq Procs
    BY <1>1 DEF TypeOK, LoginTypeOK, Works
  <2>. QED
    BY <1>1, <2>1, ExplainedAside
<1>. QED
  BY <1>2, <1>4, <1>5, <1>6

(* A step that is not a login's leaves the login where it may be.          *)
LEMMA ExplainedElsewhere ==
  ASSUME NEW c \in Procs, Explained(c), UNCHANGED <<with, login>>, work[c].code \subseteq Procs,
         \A a \in Procs : amiss[a] \subseteq amiss'[a],
         at'[c] \in Statements \cup {"off", "run", "tell", "ok", "serving", "failed", "bump", "dead"},
         \/ with.job[c] # "login"
         \/ at[c] \in Statements \cup {"off", "run"}
         \/ at'[c] \notin Statements \cup {"off", "run"}
  PROVE  Explained(c)'
<1> USE DEF Statements, login
<1>1. Placed(c)'
  BY DEF Explained, Placed, Flow
<1>2. Untouched(c)'
  BY DEF Explained, Untouched, Fresh
<1>3. BrowserExplained(c)'
  BY DEF Explained, BrowserExplained
<1>4. ManualExplained(c)'
  BY DEF Explained, ManualExplained
<1>5. DeviceExplained(c)'
  BY DEF Explained, DeviceExplained, Late
<1>. QED
  BY <1>1, <1>2, <1>3, <1>4, <1>5 DEF Explained

(* So does whatever a process does outside of logins, for the others.      *)
LEMMA OthersExplained ==
  ASSUME TypeOK, NEW c \in Procs, \A d \in Procs : Explained(d), UNCHANGED <<with, login>>,
         \A a \in Procs : amiss[a] \subseteq amiss'[a],
         NEW d \in Procs \ {c}, at'[d] = at[d]
  PROVE  Explained(d)'
<1>1. Touched(d) /\ work'[d] = work[d]
  BY DEF Touched, login
<1>2. work[d].code \subseteq Procs
  BY DEF TypeOK, LoginTypeOK, Works
<1>3. \A a \in Procs : asked[a] \in {"issued", "used"} =>
          asked'[a] \in {"issued", "used"} /\ amiss[a] \subseteq amiss'[a]
  BY DEF login
<1>. QED
  BY <1>1, <1>2, <1>3, ExplainedAside

(* A step of the admin plane keeps every failure explained.                *)
LEMMA CausePlane ==
  ASSUME CauseInv, NEW c \in Procs, OfPlane(c)
  PROVE  Rivalry' /\ FailsForCause' /\ \A d \in Procs : Explained(d)'
<1>1. /\ TypeOK /\ Rivalry /\ FailsForCause /\ UNCHANGED <<with, db, before, login>>
      /\ \A d \in Procs : Explained(d)
      /\ \A d \in Procs : amiss[d] \subseteq amiss'[d]
      /\ \A d \in Procs \ {c} : at'[d] = at[d]
  BY BlameGrows, StaysBeyond
     DEF CauseInv, IInv, OfPlane, InsertToken, TellToken, LoadTokens, LoadBusy, Stop, plane
<1>2. at'[c] \in {"tell", "ok", "serving", "failed"}
  BY <1>1 DEF OfPlane, InsertToken, TellToken, LoadTokens, LoadBusy, Stop, GoTo, TypeOK
<1>3. Rivalry'
  <2>1. \A d \in Procs : at'[d] \in Statements => at'[d] = at[d]
    BY <1>1, <1>2 DEF Statements
  <2>. QED
    BY <1>1, <2>1, RivalryAside
<1>4. ASSUME at'[c] = "failed"
      PROVE  \/ amiss'[c] # {}
             \/ with.job[c] = "serve" /\ with.env = <<>> /\ before[c] = {}
  <2>1. CASE LoadTokens(c)
    <3>1. with.job[c] = "serve" /\ with.env \o tokens = <<>>
      BY <1>1, <1>4, <2>1 DEF LoadTokens, Loaded, GoTo, TypeOK
    <3>2. /\ with.env \in Seq(TokensOf(Values)) /\ tokens \in Seq(TokensOf(Values))
      BY <1>1, ListType
    <3>3. with.env = <<>> /\ tokens = <<>>
      <4>1. \A p, q \in Seq(TokensOf(Values)) : p \o q = <<>> => p = <<>> /\ q = <<>>
        BY ConcatEmptySeq
      <4>. QED
        BY <3>1, <3>2, <4>1
    <3>4. before[c] \subseteq Range(tokens)
      BY <1>1 DEF TypeOK, PlaneTypeOK
    <3>5. Range(<<>>) = {}
      BY DEF Range
    <3>. QED
      BY <3>1, <3>3, <3>4, <3>5
  <2>2. CASE LoadBusy(c)
    BY <1>1, <2>2 DEF LoadBusy, Blame, TypeOK, BrokerTypeOK
  <2>3. CASE InsertToken(c) \/ TellToken(c) \/ Stop(c)
    BY <1>1, <1>4, <2>3 DEF InsertToken, TellToken, Stop, GoTo, TypeOK
  <2>. QED
    BY <2>1, <2>2, <2>3 DEF OfPlane
<1>5. FailsForCause'
  BY <1>1, <1>4 DEF FailsForCause
<1>6. Explained(c)'
  <2>1. work[c].code \subseteq Procs
    BY <1>1 DEF TypeOK, LoginTypeOK, Works
  <2>. QED
    BY <1>1, <1>2, <2>1, ExplainedElsewhere DEF Statements
<1>7. \A d \in Procs \ {c} : Explained(d)'
  BY <1>1, OthersExplained
<1>. QED
  BY <1>3, <1>5, <1>6, <1>7

(* So does opening the file, which makes rivals of those who are opening   *)
(* it.                                                                     *)
LEMMA CauseStart ==
  ASSUME CauseInv, NEW c \in Procs, Start(c)
  PROVE  Rivalry' /\ FailsForCause' /\ \A d \in Procs : Explained(d)'
<1>1. /\ TypeOK /\ Rivalry /\ FailsForCause /\ UNCHANGED <<with, db, asked, work>>
      /\ \A d \in Procs : Explained(d)
      /\ at \in [Procs -> Places] /\ before \in [Procs -> SUBSET told]
  BY DEF CauseInv, IInv, Start, Open, TypeOK, PlaneTypeOK, login
<1>2. /\ at'[c] = "schema" /\ \A d \in Procs \ {c} : at'[d] = at[d] /\ before'[d] = before[d]
      /\ with.job[c] # "login" \/ at[c] = "off"
      /\ ~Opening(c)
  BY <1>1 DEF Start, Open, Repeats, Opening, Statements
<1>3. /\ amiss'[c] = {x \in {"rival"} : \E e \in Procs \ {c} : Opening(e)}
      /\ \A d \in Procs \ {c} :
            amiss'[d] = IF Opening(d) THEN amiss[d] \cup {"rival"} ELSE amiss[d]
  BY DEF Start, Open
<1>4. asked[c] = "none" /\ work[c] = Fresh
  BY <1>1, <1>2 DEF Explained, Untouched
<1>5. Rivalry'
  <2>1. ASSUME NEW d \in Procs, NEW e \in Procs \ {d}, Opening(d)', Opening(e)' PROVE amiss'[d] # {}
    <3>1. CASE d = c
      BY <1>2, <1>3, <2>1, <3>1 DEF Opening
    <3>2. CASE d # c
      BY <1>2, <1>3, <2>1, <3>2 DEF Opening
    <3>. QED
      BY <3>1, <3>2
  <2>2. ASSUME NEW d \in Procs
        PROVE  /\ at'[d] = "meta" /\ db'.gen # 0 => amiss'[d] # {}
               /\ at'[d] \in {"alter", "record"} /\ db'.version = 2 => amiss'[d] # {}
    <3>1. CASE d = c
      BY <1>2, <3>1
    <3>2. CASE d # c
      BY <1>1, <1>2, <1>3, <3>2 DEF Rivalry
    <3>. QED
      BY <3>1, <3>2
  <2>. QED
    BY <2>1, <2>2 DEF Rivalry
<1>6. FailsForCause'
  BY <1>1, <1>2, <1>3 DEF FailsForCause
<1>7. Explained(c)'
  <2>1. asked'[c] = "none" /\ work'[c] = Fresh /\ at'[c] = "schema"
    BY <1>1, <1>2, <1>4
  <2>. QED
    BY <2>1 DEF Explained, Placed, Untouched, BrowserExplained, ManualExplained, DeviceExplained,
                Fresh, Late
<1>8. ASSUME NEW d \in Procs \ {c} PROVE Explained(d)'
  <2>1. work[d].code \subseteq Procs
    BY <1>1 DEF TypeOK, LoginTypeOK, Works
  <2>2. \A a \in Procs : asked[a] \in {"issued", "used"} =>
            asked'[a] \in {"issued", "used"} /\ amiss[a] \subseteq amiss'[a]
    BY <1>1, <1>3, <1>4
  <2>3. Touched(d) /\ work'[d] = work[d] /\ amiss[d] \subseteq amiss'[d]
    BY <1>1, <1>3 DEF Touched
  <2>. QED
    BY <1>1, <1>2, <2>1, <2>2, <2>3, ExplainedAside
<1>. QED
  BY <1>5, <1>6, <1>7, <1>8

(* So does a statement on the file: only a rival or a busy database fails  *)
(* it.                                                                     *)
LEMMA CauseBroker ==
  ASSUME CauseInv, NEW c \in Procs, OfBroker(c)
  PROVE  Rivalry' /\ FailsForCause' /\ \A d \in Procs : Explained(d)'
<1>1. /\ TypeOK /\ Rivalry /\ FailsForCause /\ UNCHANGED <<before, login>> /\ with' = with
      /\ \A d \in Procs : Explained(d)
      /\ \A d \in Procs : amiss[d] \subseteq amiss'[d]
      /\ at \in [Procs -> Places] /\ db \in Files /\ amiss \in [Procs -> SUBSET Causes]
  BY BlameGrows, FileGrows DEF CauseInv, IInv, TypeOK, BrokerTypeOK, OfBroker, plane
<1> DEFINE Goes == /\ \A d \in Procs \ {c} : at'[d] = at[d]
                   /\ at'[c] \in Statements \cup {"off", "run", "ok", "failed", "bump", "dead", "tell"}
                   /\ \/ with.job[c] # "login"
                      \/ at[c] \in Statements \cup {"off", "run"}
                      \/ at'[c] \notin Statements \cup {"off", "run"}
                   /\ at'[c] \in Statements => at[c] \in Statements
                   /\ at'[c] = "failed" => amiss'[c] # {}
           (* What makes a statement fail is in sight of all that opened.  *)
           Sees == \A d \in Procs :
                      /\ at'[d] = "meta" /\ db'.gen # 0 => amiss'[d] # {}
                      /\ at'[d] \in {"alter", "record"} /\ db'.version = 2 => amiss'[d] # {}
<1>2. \A d \in Procs \ {c} : Opening(c) /\ Opening(d) => amiss[c] # {} /\ amiss[d] # {}
  BY <1>1 DEF Rivalry
<1>3. \A d \in Procs :
        /\ at[d] = "meta" /\ db.gen # 0 => amiss[d] # {}
        /\ at[d] \in {"alter", "record"} /\ db.version = 2 => amiss[d] # {}
  BY <1>1 DEF Rivalry
<1> USE DEF Statements, GoTo, Opening
<1>4. ASSUME Schema(c) PROVE Goes /\ Sees
  <2>1. db'.gen = db.gen /\ db'.version = db.version /\ at[c] = "schema" /\ at' = [at EXCEPT ![c] = "count"]
    BY <1>1, <1>4 DEF Schema, Files
  <2>. QED
    BY <1>1, <1>3, <2>1
<1>5. ASSUME CountMeta(c) PROVE Goes /\ Sees
  <2>1. /\ db' = db /\ at[c] = "count"
        /\ at' = [at EXCEPT ![c] = IF db.gen = 0 THEN "meta" ELSE "version"]
    BY <1>5 DEF CountMeta
  <2>. QED
    BY <1>1, <1>3, <2>1
<1>6. ASSUME InsertMeta(c) PROVE Goes /\ Sees
  <2>1. CASE db.gen = 0
    <3>1. /\ at[c] = "meta" /\ at' = [at EXCEPT ![c] = "version"] /\ db'.version = db.version
      BY <1>1, <1>6, <2>1 DEF InsertMeta, Files
    <3>. QED
      BY <1>1, <1>2, <1>3, <3>1
  <2>2. CASE db.gen # 0
    <3>1. at[c] = "meta" /\ at' = [at EXCEPT ![c] = "failed"] /\ db' = db
      BY <1>6, <2>2 DEF InsertMeta
    <3>. QED
      BY <1>1, <1>3, <2>2, <3>1
  <2>. QED
    BY <2>1, <2>2
<1>7. ASSUME ReadVersion(c) PROVE Goes /\ Sees
  <2>1. /\ db' = db /\ at[c] = "version"
        /\ at' = [at EXCEPT ![c] = IF db.version = 2 THEN "run" ELSE "alter"]
    <3>1. db.version >= 2 <=> db.version = 2
      BY <1>1 DEF Files
    <3>. QED
      BY <1>7, <3>1 DEF ReadVersion
  <2>. QED
    BY <1>1, <1>3, <2>1
<1>8. ASSUME AlterKeys(c) PROVE Goes /\ Sees
  <2>1. db'.gen = db.gen /\ db'.version = db.version /\ at[c] = "alter" /\ at' = [at EXCEPT ![c] = "record"]
    BY <1>1, <1>8 DEF AlterKeys, Files
  <2>. QED
    BY <1>1, <1>3, <2>1
<1>9. ASSUME RecordVersion(c) PROVE Goes /\ Sees
  <2>1. CASE db.version # 2
    <3>1. /\ at[c] = "record" /\ at' = [at EXCEPT ![c] = "run"] /\ db'.gen = db.gen
      BY <1>1, <1>9, <2>1 DEF RecordVersion, Files
    <3>. QED
      BY <1>1, <1>2, <1>3, <3>1
  <2>2. CASE db.version = 2
    <3>1. at[c] = "record" /\ at' = [at EXCEPT ![c] = "failed"] /\ db' = db
      BY <1>9, <2>2 DEF RecordVersion
    <3>. QED
      BY <1>1, <1>3, <2>2, <3>1
  <2>. QED
    BY <2>1, <2>2
<1>10. ASSUME Import(c) PROVE Goes /\ Sees
  BY <1>1, <1>3, <1>10 DEF Import
<1>11. ASSUME BumpGeneration(c) PROVE Goes /\ Sees
  <2>1. /\ db'.version = db.version /\ (db.gen = 0 => db'.gen = 0)
        /\ at[c] = "bump" /\ at' = [at EXCEPT ![c] = "ok"]
    BY <1>1, <1>11 DEF BumpGeneration, Files
  <2>. QED
    BY <1>1, <1>3, <2>1
<1>12. ASSUME OpenBusy(c) PROVE Goes /\ Sees
  <2>1. /\ db' = db /\ amiss'[c] # {} /\ at[c] \in Statements
        /\ \E q \in {"failed", "alter", "record"} : at' = [at EXCEPT ![c] = q]
    BY <1>1, <1>12 DEF OpenBusy, Blame
  <2>. QED
    BY <1>1, <1>3, <2>1
<1>13. ASSUME WriteBusy(c) PROVE Goes /\ Sees
  <2>1. /\ db' = db /\ amiss'[c] # {} /\ at[c] \in {"run", "put", "bump"}
        /\ \E q \in {"failed", "ok"} : at' = [at EXCEPT ![c] = q]
    BY <1>1, <1>13 DEF WriteBusy, Writes, Blame
  <2>. QED
    BY <1>1, <1>3, <2>1
<1>14. ASSUME Crash(c) PROVE Goes /\ Sees
  <2>1. db' = db /\ at' = [at EXCEPT ![c] = IF Repeats(c) THEN "off" ELSE "dead"]
    BY <1>14 DEF Crash
  <2>2. Repeats(c) => with.job[c] # "login"
    BY DEF Repeats
  <2>. QED
    BY <1>1, <1>3, <2>1, <2>2
<1> HIDE DEF Goes, Sees
<1>15. Goes /\ Sees
  BY <1>4, <1>5, <1>6, <1>7, <1>8, <1>9, <1>10, <1>11, <1>12, <1>13, <1>14
     DEF OfBroker, OpenStep, MigrateV2
<1>16. Rivalry'
  <2>1. \A d \in Procs : Opening(d)' => Opening(d)
    BY <1>15 DEF Goes
  <2>2. \A d \in Procs : \A e \in Procs \ {d} : Opening(d)' /\ Opening(e)' => amiss'[d] # {}
    BY <1>1, <2>1 DEF Rivalry
  <2>. QED
    BY <1>15, <2>2 DEF Rivalry, Sees
<1>17. FailsForCause'
  BY <1>1, <1>15 DEF FailsForCause, Goes
<1>18. Explained(c)'
  <2>1. work[c].code \subseteq Procs
    BY <1>1 DEF TypeOK, LoginTypeOK, Works
  <2>. QED
    BY <1>1, <1>15, <2>1, ExplainedElsewhere DEF Goes
<1>19. \A d \in Procs \ {c} : Explained(d)'
  BY <1>1, <1>15, OthersExplained DEF Goes
<1>. QED
  BY <1>16, <1>17, <1>18, <1>19

(* Why a command would fail is known in every reachable state.             *)
LEMMA CauseInvariance == Spec => []CauseInv
<1>1. Init => CauseInv
  <2> SUFFICES ASSUME Init PROVE CauseInv
    OBVIOUS
  <2>1. /\ IInv /\ \A c \in Procs : at[c] = "off" /\ asked[c] = "none" /\ work[c] = Fresh
    BY InitInv DEF Init, BrokerInit, LoginInit
  <2>2. Rivalry /\ FailsForCause
    BY <2>1 DEF Rivalry, FailsForCause, Opening, Statements
  <2>3. ASSUME NEW c \in Procs PROVE Explained(c)
    <3>1. at[c] = "off" /\ asked[c] = "none" /\ work[c] = Fresh
      BY <2>1
    <3>2. /\ work[c].errs = 0 /\ work[c].errCh = FALSE /\ work[c].blocked[c] = 0
          /\ work[c].codeCh = {} /\ work[c].code = {}
      BY <3>1 DEF Fresh
    <3>. QED
      BY <3>1, <3>2 DEF Explained, Placed, Untouched, BrowserExplained, ManualExplained,
                        DeviceExplained
  <2>. QED
    BY <2>1, <2>2, <2>3 DEF CauseInv
<1>2. CauseInv /\ [Next]_vars => CauseInv'
  <2> SUFFICES ASSUME CauseInv, [Next]_vars PROVE CauseInv'
    OBVIOUS
  <2>1. IInv'
    BY NextInv DEF CauseInv
  <2>2. CASE Next
    <3>1. PICK c \in Procs : Start(c) \/ OfBroker(c) \/ OfPlane(c) \/ OfLogin(c)
      BY <2>2, StepKinds DEF Next
    <3>2. Rivalry' /\ FailsForCause' /\ \A d \in Procs : Explained(d)'
      BY <3>1, CauseStart, CauseBroker, CausePlane, CauseLogin
    <3>. QED
      BY <2>1, <3>2 DEF CauseInv
  <2>3. CASE UNCHANGED vars
    <3>1. UNCHANGED <<with, db, at, amiss, before, asked, work>>
      BY <2>3 DEF vars, broker, plane, login
    <3>2. Rivalry' /\ FailsForCause'
      BY <3>1 DEF CauseInv, Rivalry, FailsForCause, Opening
    <3>3. \A d \in Procs : Explained(d)'
      BY <3>1 DEF CauseInv, Explained, Placed, Untouched, BrowserExplained, ManualExplained,
                  DeviceExplained, Flow, Late
    <3>. QED
      BY <2>1, <3>2, <3>3 DEF CauseInv
  <2>. QED
    BY <2>2, <2>3
<1>. QED
  BY <1>1, <1>2, PTL DEF Spec

(* A command fails only if something went wrong around it.                 *)
THEOREM AlwaysFailsForCause == Spec => []FailsForCause
<1>1. CauseInv => FailsForCause
  BY DEF CauseInv
<1>. QED
  BY <1>1, CauseInvariance, PTL

-------------------------------------------------------------------------------
(* The termination argument under LoginEnds, for all the commands.         *)

(* How far a command is from its end.  A command's stages are passed in    *)
(* this order, whichever it passes.                                        *)
Stage(c) ==
    CASE at[c] = "schema"  -> 13 [] at[c] = "count"   -> 12 [] at[c] = "meta"  -> 11
      [] at[c] = "version" -> 10 [] at[c] = "alter"   -> 9  [] at[c] = "record" -> 8
      [] at[c] = "run"     -> 7
      [] at[c] \in {"wait", "paste", "sleep", "poll"} -> 6
      [] at[c] = "exchange" -> 5 [] at[c] = "close" -> 4 [] at[c] = "put" -> 3
      [] at[c] = "bump" -> 2 [] at[c] \in {"tell", "serving"} -> 1
      [] OTHER -> 0

(* What a login does within a stage: a callback is worth two steps, being  *)
(* taken and being sent, and an interval before the deadline is, too.      *)
Intervals(c) == IF work[c].spent < with.lifetime THEN with.lifetime - work[c].spent ELSE 0
Within(c) ==
    CASE at[c] \in {"wait", "exchange", "close"} ->
             2 * work[c].left + work[c].blocked[c] + work[c].errs
      [] at[c] = "sleep" -> 2 * Intervals(c) + 1
      [] at[c] = "poll"  -> 2 * Intervals(c) + 2
      [] OTHER -> 0

Closer(c) == \/ Stage(c)' < Stage(c)
             \/ Stage(c)' = Stage(c) /\ Within(c)' < Within(c)

(* Every step that a command takes by itself brings it closer to its end,  *)
(* and nothing but another start sets it back: not a callback that comes   *)
(* again, of which a listener gets MaxCalls, nor a user who keeps a device *)
(* waiting.                                                                *)
CloserToItsEnd ==
    \A c \in Procs : /\ Proceed(c) => Closer(c)
                     /\ Start(c) \/ Closer(c) \/ UNCHANGED <<Stage(c), Within(c)>>
StepsBounded == \A c \in Procs : Within(c) \in Nat

(* The measure of a process is of its place and its work.                  *)
LEMMA SameDistance ==
  ASSUME NEW c \in Procs, with' = with, at'[c] = at[c], work'[c] = work[c]
  PROVE  UNCHANGED <<Stage(c), Within(c)>>
<1>1. Stage(c)' = Stage(c)
  BY DEF Stage
<1>2. Intervals(c)' = Intervals(c)
  BY DEF Intervals
<1>3. Within(c)' = Within(c)
  BY <1>2 DEF Within
<1>. QED BY <1>1, <1>3

(* The measure is a pair of natural numbers.                               *)
LEMMA Distance ==
  ASSUME TypeOK, NEW c \in Procs
  PROVE  Within(c) \in Nat /\ Intervals(c) \in Nat /\ Stage(c) \in Nat
<1>1. /\ work[c].left \in Nat /\ work[c].blocked[c] \in Nat /\ work[c].errs \in Nat
      /\ work[c].spent \in Nat /\ with.lifetime \in Nat
  BY Bounds, BrokerAssumption DEF TypeOK, BrokerTypeOK, LoginTypeOK, Works
<1>2. Intervals(c) \in Nat
  BY <1>1 DEF Intervals
<1>. QED BY <1>1, <1>2 DEF Within, Stage

(* Opening the file, its writes and its end.                               *)
LEMMA BrokerCloser ==
  ASSUME TypeOK, NEW c \in Procs, OfBroker(c) \/ OfPlane(c)
  PROVE  Stage(c)' < Stage(c)
<1> USE DEF TypeOK, GoTo, Stage, Places, Statements
<1>1. ASSUME OfPlane(c) PROVE Stage(c)' < Stage(c)
  BY <1>1 DEF OfPlane, InsertToken, TellToken, LoadTokens, LoadBusy, Stop
<1>2. ASSUME OpenStep(c) PROVE Stage(c)' < Stage(c)
  BY <1>2 DEF OpenStep, Schema, CountMeta, InsertMeta, ReadVersion, MigrateV2, AlterKeys,
              RecordVersion
<1>3. ASSUME Import(c) \/ BumpGeneration(c) \/ OpenBusy(c) PROVE Stage(c)' < Stage(c)
  BY <1>3 DEF Import, BumpGeneration, OpenBusy
<1>4. ASSUME WriteBusy(c) PROVE Stage(c)' < Stage(c)
  BY <1>4 DEF WriteBusy, Writes
<1>5. ASSUME Crash(c) PROVE Stage(c)' < Stage(c)
  BY <1>5 DEF Crash
<1>. QED BY <1>1, <1>2, <1>3, <1>4, <1>5 DEF OfBroker

(* What the callback's handlers do, which leaves the login where it is.    *)
Handlers(c) ==
    SendErr(c) \/ \E a \in Procs : SendCode(c, a) \/ Callback(c, a) \/ Decline(c, a)

(* The steps of a login that end a stage, and those of the device's loop.  *)
LEMMA LoginCloser ==
  ASSUME TypeOK, NEW c \in Procs, LoginStep(c) \/ (LoginEvent(c) /\ ~Answer(c)), ~Handlers(c)
  PROVE  Closer(c)
<1> DEFINE Goal == Closer(c)
<1>0. at \in [Procs -> Places]
  BY DEF TypeOK
<1>1. ASSUME Stage(c)' < Stage(c) PROVE Goal
  BY <1>1 DEF Closer
<1>2. ASSUME NEW from, NEW to, GoTo(c, from, to) PROVE at[c] = from /\ at'[c] = to
  BY <1>0, <1>2 DEF GoTo
<1>3. ASSUME Listen(c) \/ ReceiveCode(c) \/ ReceiveErr(c) \/ Shutdown(c) PROVE Goal
  <2>1. \/ at[c] = "run" /\ at'[c] \in {"wait", "failed"}
        \/ at[c] = "wait" /\ at'[c] \in {"exchange", "close"}
        \/ at[c] = "close" /\ at'[c] \in {"put", "failed"}
    BY <1>2, <1>3 DEF Listen, ReceiveCode, ReceiveErr, Shutdown, Returned
  <2>. QED BY <1>1, <2>1 DEF Stage
<1>4. ASSUME Exchange(c) \/ ExchangeLost(c) PROVE Goal
  <2>1. at[c] = "exchange" /\ at'[c] \in {"close", "put", "failed"}
    BY <1>2, <1>4 DEF Exchange, ExchangeLost, Finish
  <2>. QED BY <1>1, <2>1 DEF Stage
<1>5. ASSUME ShowURL(c) \/ DeviceAuthorize(c) \/ Put(c) \/ PasteNothing(c) \/ CallLost(c)
      PROVE  Goal
  <2>1. \/ at[c] = "run" /\ at'[c] \in {"paste", "sleep", "failed"}
        \/ at[c] = "paste" /\ at'[c] = "failed"
        \/ at[c] = "poll" /\ at'[c] = "failed"
        \/ at[c] = "put" /\ at'[c] = "bump"
    BY <1>2, <1>5 DEF ShowURL, DeviceAuthorize, Put, PasteNothing, CallLost
  <2>. QED BY <1>1, <2>1 DEF Stage
<1>6. ASSUME TimeOut(c) \/ PollGranted(c) \/ PollRefused(c) \/ \E a \in Procs : Paste(c, a)
      PROVE  Goal
  <2>1. \/ at[c] = "sleep" /\ at'[c] = "failed"
        \/ at[c] = "poll" /\ at'[c] \in {"put", "failed"}
        \/ at[c] = "paste" /\ at'[c] = "exchange"
    BY <1>2, <1>6 DEF TimeOut, PollGranted, PollRefused, Paste
  <2>. QED BY <1>1, <2>1 DEF Stage
<1>7. ASSUME Sleep(c) PROVE Goal
  <2>1. /\ at[c] = "sleep" /\ at'[c] = "poll" /\ work[c].spent < with.lifetime
        /\ Set(c, [work[c] EXCEPT !.spent = @ + 1]) /\ with' = with
    BY <1>2, <1>7 DEF Sleep
  <2>2. work'[c].spent = work[c].spent + 1 /\ work[c].spent \in Nat /\ with.lifetime \in Nat
    BY <2>1, BrokerAssumption, Bounds DEF Set, TypeOK, BrokerTypeOK, LoginTypeOK, Works
  <2>3. Intervals(c)' = Intervals(c) - 1 /\ Intervals(c) \in Nat
    BY <2>1, <2>2 DEF Intervals
  <2>4. Within(c)' = 2 * Intervals(c)' + 2 /\ Within(c) = 2 * Intervals(c) + 1
    BY <2>1 DEF Within
  <2>5. Stage(c)' = Stage(c)
    BY <2>1 DEF Stage
  <2>. QED BY <2>3, <2>4, <2>5 DEF Closer
<1>8. ASSUME PollPending(c) PROVE Goal
  <2>1. at[c] = "poll" /\ at'[c] = "sleep" /\ UNCHANGED <<with, work>>
    BY <1>2, <1>8 DEF PollPending, login
  <2>2. Intervals(c)' = Intervals(c) /\ Intervals(c) \in Nat
    BY <2>1, Distance DEF Intervals
  <2>3. Within(c)' = 2 * Intervals(c)' + 1 /\ Within(c) = 2 * Intervals(c) + 2
    BY <2>1 DEF Within
  <2>4. Stage(c)' = Stage(c)
    BY <2>1 DEF Stage
  <2>. QED BY <2>2, <2>3, <2>4 DEF Closer
<1> HIDE DEF Goal
<1>9. Goal
  BY <1>3, <1>4, <1>5, <1>6, <1>7, <1>8 DEF LoginStep, LoginEvent, Handlers
<1>. QED BY <1>9 DEF Goal

(* A callback and its handler's send, of which a browser login has as many *)
(* as its listener takes.                                                  *)
LEMMA HandlersCloser ==
  ASSUME TypeOK, NEW c \in Procs, OursOnly(c), Placed(c), Handlers(c)
  PROVE  Closer(c)
<1>1. /\ work[c].left \in Nat /\ work[c].errs \in Nat /\ work[c] \in Works
      /\ work[c].blocked \in [Procs -> Nat] /\ work \in [Procs -> Works] /\ at' = at
  <2>1. at' = at
    BY DEF Handlers, SendErr, SendCode, Callback, Decline, broker
  <2>. QED BY <2>1, Bounds DEF TypeOK, LoginTypeOK, Works
<1>2. at[c] \in {"wait", "exchange", "close"} /\ Flow(c, "browser")
  BY DEF Handlers, SendErr, SendCode, Callback, Decline, Serving, Listening, Placed
<1>3. Within(c) = 2 * work[c].left + work[c].blocked[c] + work[c].errs
  BY <1>2 DEF Within
<1>4. Within(c)' = 2 * work'[c].left + work'[c].blocked[c] + work'[c].errs
  BY <1>1, <1>2 DEF Within
<1>5. Stage(c)' = Stage(c)
  BY <1>1 DEF Stage
<1>6. ASSUME work'[c].left = work[c].left - 1,
             \/ work'[c].blocked[c] = work[c].blocked[c] + 1 /\ work'[c].errs = work[c].errs
             \/ work'[c].blocked[c] = work[c].blocked[c] /\ work'[c].errs = work[c].errs + 1
      PROVE  Closer(c)
  <2>1. Within(c)' < Within(c)
    BY <1>1, <1>3, <1>4, <1>6
  <2>. QED BY <1>5, <2>1 DEF Closer
<1>7. CASE SendErr(c)
  <2>1. /\ work'[c].left = work[c].left /\ work'[c].blocked = work[c].blocked
        /\ work'[c].errs = work[c].errs - 1
    BY <1>1, <1>7 DEF SendErr, Set, Works
  <2>2. Within(c)' < Within(c)
    BY <1>1, <1>3, <1>4, <2>1
  <2>. QED BY <1>5, <2>2 DEF Closer
<1>8. ASSUME NEW a \in Procs, SendCode(c, a) PROVE Closer(c)
  <2>1. a = c
    BY <1>2, <1>8 DEF SendCode, OursOnly, Flow
  <2>2. /\ work'[c].left = work[c].left /\ work'[c].errs = work[c].errs
        /\ work'[c].blocked[c] = work[c].blocked[c] - 1
    BY <1>1, <1>8, <2>1 DEF SendCode, Set, Works
  <2>3. Within(c)' < Within(c)
    BY <1>1, <1>3, <1>4, <2>2
  <2>. QED BY <1>5, <2>3 DEF Closer
<1>9. ASSUME NEW a \in Procs, Callback(c, a) PROVE Closer(c)
  <2>1. CASE a = c
    <3>1. Set(c, [work[c] EXCEPT !.left = @ - 1, !.blocked[c] = @ + 1])
      BY <1>9, <2>1 DEF Callback, Handle
    <3>2. /\ work'[c].left = work[c].left - 1 /\ work'[c].errs = work[c].errs
          /\ work'[c].blocked[c] = work[c].blocked[c] + 1
      BY <1>1, <3>1 DEF Set, Works
    <3>. QED BY <1>6, <3>2
  <2>2. CASE a # c
    <3>1. Set(c, [work[c] EXCEPT !.left = @ - 1, !.errs = @ + 1])
      BY <1>9, <2>2 DEF Callback, Handle
    <3>2. /\ work'[c].left = work[c].left - 1 /\ work'[c].errs = work[c].errs + 1
          /\ work'[c].blocked[c] = work[c].blocked[c]
      BY <1>1, <3>1 DEF Set, Works
    <3>. QED BY <1>6, <3>2
  <2>. QED BY <2>1, <2>2
<1>10. ASSUME NEW a \in Procs, Decline(c, a) PROVE Closer(c)
  BY <1>1, <1>6, <1>10 DEF Decline, Set, Works
<1>. QED BY <1>7, <1>8, <1>9, <1>10 DEF Handlers

(* A step of one process leaves the others' measures alone, and only a     *)
(* start sets its own back.                                                *)
LEMMA ClosestStep ==
  ASSUME CauseInv, NEW c \in Procs, Start(c) \/ OfBroker(c) \/ OfPlane(c) \/ OfLogin(c)
  PROVE  /\ \A d \in Procs \ {c} : UNCHANGED <<Stage(d), Within(d)>>
         /\ Start(c) \/ Closer(c) \/ UNCHANGED <<Stage(c), Within(c)>>
<1>1. TypeOK /\ OursOnly(c) /\ Placed(c) /\ (\A d \in Procs : OursOnly(d) /\ Explained(d))
  BY DEF CauseInv, IInv, Explained
<1>2. with' = with
  BY <1>1, FileGrows
<1>3. \A d \in Procs \ {c} : at'[d] = at[d] /\ work'[d] = work[d]
  <2>1. CASE Start(c)
    BY <1>1, <2>1 DEF Start, Open, login, TypeOK
  <2>2. CASE OfBroker(c)
    BY <1>1, <2>2 DEF OfBroker, login, TypeOK, GoTo, OpenStep, Schema, CountMeta, InsertMeta,
                      ReadVersion, MigrateV2, AlterKeys, RecordVersion, Import, BumpGeneration,
                      OpenBusy, WriteBusy, Crash
  <2>3. CASE OfPlane(c)
    BY <1>1, <2>3, StaysBeyond DEF OfPlane, login
  <2>4. CASE OfLogin(c)
    BY <1>1, <2>4, StaysBeyond, LoginTouches
  <2>. QED BY <2>1, <2>2, <2>3, <2>4
<1>4. \A d \in Procs \ {c} : UNCHANGED <<Stage(d), Within(d)>>
  BY <1>2, <1>3, SameDistance
<1>5. ASSUME OfLogin(c) PROVE Closer(c) \/ UNCHANGED <<Stage(c), Within(c)>>
  <2>1. CASE Answer(c)
    <3>1. at'[c] = at[c] /\ work'[c] = work[c]
      BY <2>1 DEF Answer
    <3>. QED BY <1>2, <3>1, SameDistance
  <2>2. CASE ~Answer(c)
    BY <1>1, <1>5, <2>2, LoginCloser, HandlersCloser DEF OfLogin
  <2>. QED BY <2>1, <2>2
<1>6. ASSUME OfBroker(c) \/ OfPlane(c) PROVE Closer(c)
  BY <1>1, <1>6, BrokerCloser DEF Closer
<1>. QED BY <1>4, <1>5, <1>6

(* What a process does by itself brings it closer.                         *)
LEMMA ProceedCloser ==
  ASSUME CauseInv, NEW c \in Procs, Proceed(c)
  PROVE  Closer(c)
<1>1. TypeOK /\ OursOnly(c) /\ Placed(c)
  BY DEF CauseInv, IInv, Explained
<1>2. OfBroker(c) \/ OfPlane(c) \/ LoginStep(c)
  BY DEF Proceed, OfBroker, OfPlane
<1>3. CASE OfBroker(c) \/ OfPlane(c)
  BY <1>1, <1>3, BrokerCloser DEF Closer
<1>4. CASE LoginStep(c)
  BY <1>1, <1>4, LoginCloser, HandlersCloser
<1>. QED BY <1>2, <1>3, <1>4

(* Every command ends, once started, in a bounded number of its own steps, *)
(* wherever the others are with theirs: the opening of the file is not     *)
(* begun again, a browser login waits for no more callbacks than come, its *)
(* blocked handlers are no obstacle, and a device is polled at most once   *)
(* in each interval of its code's lifetime (generic/oauth.go loginBrowser, *)
(* loginDevice; store/sqlite.go OpenSQLite).                               *)
THEOREM CommandsTerminate == Spec => [][CloserToItsEnd]_vars /\ []StepsBounded
<1>1. CauseInv /\ [Next]_vars => [CloserToItsEnd]_vars
  <2> SUFFICES ASSUME CauseInv, Next, NEW d \in Procs
               PROVE  /\ Proceed(d) => Closer(d)
                      /\ Start(d) \/ Closer(d) \/ UNCHANGED <<Stage(d), Within(d)>>
    BY DEF CloserToItsEnd
  <2>1. PICK c \in Procs : Start(c) \/ OfBroker(c) \/ OfPlane(c) \/ OfLogin(c)
    BY StepKinds DEF Next
  <2>2. Start(d) \/ Closer(d) \/ UNCHANGED <<Stage(d), Within(d)>>
    BY <2>1, ClosestStep
  <2>. QED BY <2>2, ProceedCloser
<1>2. CauseInv => StepsBounded
  BY Distance DEF CauseInv, IInv, StepsBounded
<1>. QED BY <1>1, <1>2, CauseInvariance, PTL DEF Spec

===============================================================================
