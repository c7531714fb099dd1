------------------------------ MODULE VaultProofs ------------------------------
(***************************************************************************)
(* Proofs about Vault, for any number of processes, profiles, rows and     *)
(* tries: a refresh revives only what was disabled under its hands; where  *)
(* nothing fails, a watcher that has followed the generation has the       *)
(* current list, and the newest grant of every profile stays usable.       *)
(***************************************************************************)
EXTENDS Vault, TLAPS, FiniteSetTheorems

(* The newest oauth row of the profile that a refresh is for was active    *)
(* when the refresh read it, and so was the row that it is about to write, *)
(* unless disabled since.                                                  *)
Excused(w, id) == rows[id].active \/ id \in job[w].raced
Race ==
    \A w \in Procs : job[w].op = "refresh" =>
        /\ \A id \in NewestOf(OAuthOf(job[w].profile)) : Excused(w, id)
        /\ pc[w] = "update" => Excused(w, job[w].id)

(* What holds a refresh token.                                             *)
Holds(w) == pc[w] \in {"exchange", "select", "update"}
Refreshers ==
    \A w \in Procs : /\ Holds(w) => job[w].op = "refresh"
                     /\ job[w].op = "refresh" => w \in with.refreshers

(* A change that the generation seen does not tell has its Bump to come.   *)
Announced ==
    /\ seen <= gen
    /\ with.faults = {} /\ seen = gen /\ ~due /\ view # Summaries
          => \E w \in Procs : pc[w] = "bump"

(* A refresh token is of a login to the profile of the row or the refresh  *)
(* that has it; the endpoint accepts one of each login, the latest.        *)
Of(s, p) == s.grant \in DOMAIN rows /\ rows[s.grant].profile = p
Known ==
    /\ \A id \in DOMAIN rows : Of(rows[id].secret, rows[id].profile)
    /\ \A w \in Procs : job[w].op = "refresh" => Of(job[w].secret, job[w].profile)
    /\ \A g \in good : g.grant \in DOMAIN rows
OnePerGrant == \A g, h \in good : g.grant = h.grant => g = h
Bounded(s) == \A g \in good : g.grant = s.grant => s.serial <= g.serial
Latest ==
    /\ \A id \in DOMAIN rows : Bounded(rows[id].secret)
    /\ \A w \in Procs : job[w].op = "refresh" => Bounded(job[w].secret)

(* Where nothing fails, and nobody but a single process refreshes at an    *)
(* endpoint that revokes ...                                               *)
Tame == with.faults = {} /\ (with.revokes => Cardinality(with.refreshers) = 1)

(* ... a refresh that has its answer is the only one to know it, and can   *)
(* use it;                                                                 *)
Carries(w) == pc[w] \in {"select", "update"}
Sole(w) ==
    with.rotates => /\ \A id \in DOMAIN rows : rows[id].secret # job[w].secret
                    /\ \A v \in Procs \ {w} : Holds(v) => job[v].secret # job[w].secret
Carried == \A w \in Procs : Carries(w) => job[w].secret \in good /\ Sole(w)

(* ... a strict endpoint is asked with what it accepts;                    *)
Strict == with.revokes => \A w \in Procs : pc[w] = "exchange" => job[w].secret \in good

(* ... and the newest grant of a profile is accepted, or is about to be    *)
(* replaced in its own row by one that is.                                 *)
Covers(w, p, id) == \/ pc[w] = "select" /\ job[w].profile = p
                    \/ pc[w] = "update" /\ job[w].id = id
Usable ==
    \A p \in Profiles : \A id \in NewestOf(RowsOf(p)) : rows[id].kind = "oauth" =>
        rows[id].secret \in good \/ \E w \in Procs : Covers(w, p, id)

IInv ==
    /\ TypeOK /\ Race /\ Refreshers /\ Announced
    /\ Known /\ OnePerGrant /\ Latest
    /\ Tame => Carried /\ Strict /\ Usable

-------------------------------------------------------------------------------
(* The parts of the state, one at a time.                                  *)

LEMMA Constants ==
  ASSUME with \in Settings
  PROVE  /\ with.tries \in Nat /\ with.tries >= 1
         /\ with.refreshers \subseteq Procs /\ with.faults \subseteq {"busy", "crash", "net"}
         /\ with.rotates \in BOOLEAN /\ with.revokes \in BOOLEAN
<1>1. with \in [refreshers : SUBSET Procs, tries : 1..MaxTries,
                faults : SUBSET {"busy", "crash", "net"},
                rotates : BOOLEAN, revokes : BOOLEAN]
  BY VaultAssumption
<1>. QED BY <1>1, VaultAssumption

(* A process that does nothing has a job all the same.                     *)
LEMMA NoJobType == ASSUME NEW n \in Nat PROVE NoJob \in Job(n)
<1>1. (CHOOSE p \in Profiles : TRUE) \in Profiles
  BY VaultAssumption
<1>. QED BY <1>1 DEF NoJob, Job, Secret

(* Rows of the table are of their type.                                    *)
LEMMA RowTypes ==
  ASSUME rows \in Seq(Row)
  PROVE  /\ Len(rows) \in Nat /\ DOMAIN rows = 1..Len(rows)
         /\ \A id \in DOMAIN rows : rows[id] \in Row
  OBVIOUS

(* A process alone moves.                                                  *)
LEMMA Moved ==
  ASSUME pc \in [Procs -> Steps], job \in [Procs -> Job(with.tries)], with' = with,
         NEW w \in Procs, NEW step \in Steps, NEW j \in Job(with.tries),
         pc' = [pc EXCEPT ![w] = step], job' = [job EXCEPT ![w] = j]
  PROVE  /\ pc' \in [Procs -> Steps] /\ job' \in [Procs -> Job(with.tries)]'
         /\ pc'[w] = step /\ job'[w] = j
         /\ \A v \in Procs \ {w} : pc'[v] = pc[v] /\ job'[v] = job[v]
<1>1. pc' \in [Procs -> Steps] /\ pc'[w] = step /\ \A v \in Procs \ {w} : pc'[v] = pc[v]
  OBVIOUS
<1> DEFINE J == Job(with.tries)
<1>2. job \in [Procs -> J] /\ j \in J
  OBVIOUS
<1>3. Job(with.tries)' = J
  BY DEF Job
<1> HIDE DEF J
<1>4. job' \in [Procs -> J] /\ job'[w] = j /\ \A v \in Procs \ {w} : job'[v] = job[v]
  BY <1>2
<1>. QED BY <1>1, <1>3, <1>4

-------------------------------------------------------------------------------
(* What each action does to the rows and the processes.                    *)

PutEffect(w, p, kind, n) ==
    /\ n = Len(rows) + 1 /\ n \in Nat
    /\ n \notin DOMAIN rows /\ DOMAIN rows' = DOMAIN rows \cup {n}
    /\ \A id \in DOMAIN rows : id < n /\ rows'[id] = rows[id]
    /\ rows'[n].profile = p /\ rows'[n].kind = kind /\ rows'[n].active = TRUE
    /\ rows'[n].secret = [grant |-> n, serial |-> 0]
    /\ rows' \in Seq(Row)
    /\ pc' \in [Procs -> Steps] /\ job' \in [Procs -> Job(with.tries)]'
    /\ pc'[w] = "bump" /\ job'[w].op = "put" /\ pc[w] = "idle"
    /\ \A v \in Procs \ {w} : pc'[v] = pc[v] /\ job'[v] = job[v]

(* What PutAPIKey and PutOAuth insert.                                     *)
LEMMA Putting ==
  ASSUME TypeOK, NEW w \in Procs, NEW p \in Profiles, NEW kind \in {"api_key", "oauth"},
         Put(w, p, kind)
  PROVE  PutEffect(w, p, kind, Len(rows) + 1)
<1>0. PICK n : n = Len(rows) + 1
  OBVIOUS
<1> DEFINE r == [profile |-> p, kind |-> kind, secret |-> [grant |-> n, serial |-> 0],
                 active |-> TRUE, rev |-> 0]
<1>1. rows \in Seq(Row) /\ Len(rows) \in Nat /\ DOMAIN rows = 1..Len(rows) /\ n \in Nat
  BY <1>0, RowTypes DEF TypeOK
<1>2. r \in Row
  BY <1>1 DEF Row, Secret
<1>3. rows' = Append(rows, r)
  BY <1>0 DEF Put
<1>r. /\ r.profile = p /\ r.kind = kind /\ r.active = TRUE
      /\ r.secret = [grant |-> n, serial |-> 0]
  OBVIOUS
<1> HIDE DEF r
<1>4. /\ rows' \in Seq(Row) /\ DOMAIN rows' = 1..n /\ rows'[n] = r
      /\ \A id \in DOMAIN rows : rows'[id] = rows[id]
  BY <1>0, <1>1, <1>2, <1>3
<1>5. n \notin DOMAIN rows /\ 1..n = DOMAIN rows \cup {n} /\ \A id \in DOMAIN rows : id < n
  BY <1>0, <1>1
<1>6. [NoJob EXCEPT !.op = "put"] \in Job(with.tries) /\ [NoJob EXCEPT !.op = "put"].op = "put"
  BY NoJobType, Constants DEF TypeOK, Job, NoJob
<1>7. /\ pc' \in [Procs -> Steps] /\ job' \in [Procs -> Job(with.tries)]'
      /\ pc'[w] = "bump" /\ job'[w] = [NoJob EXCEPT !.op = "put"]
      /\ \A v \in Procs \ {w} : pc'[v] = pc[v] /\ job'[v] = job[v]
  BY <1>6, Moved, "bump" \in Steps DEF TypeOK, Put, GoTo, Set, Steps
<1>8. rows'[n].profile = p /\ rows'[n].kind = kind /\ rows'[n].active = TRUE
      /\ rows'[n].secret = [grant |-> n, serial |-> 0]
  BY <1>4, <1>r
<1>9. pc[w] = "idle"
  BY DEF Put, GoTo
<1>. QED BY <1>0, <1>1, <1>4, <1>5, <1>6, <1>7, <1>8, <1>9 DEF PutEffect

(* A row is changed where it is.                                           *)
LEMMA Changing ==
  ASSUME rows \in Seq(Row), NEW k \in DOMAIN rows, NEW s \in Secret, NEW a \in BOOLEAN,
         rows' = [rows EXCEPT ![k].secret = s, ![k].active = a, ![k].rev = @ + 1]
  PROVE  /\ rows' \in Seq(Row) /\ DOMAIN rows' = DOMAIN rows /\ Len(rows') = Len(rows)
         /\ rows'[k].secret = s /\ rows'[k].active = a
         /\ rows'[k].profile = rows[k].profile /\ rows'[k].kind = rows[k].kind
         /\ \A id \in DOMAIN rows \ {k} : rows'[id] = rows[id]
<1> DEFINE r == [rows[k] EXCEPT !.secret = s, !.active = a, !.rev = @ + 1]
<1>1. rows[k] \in Row
  BY RowTypes
<1>2. /\ r \in Row /\ r.secret = s /\ r.active = a
      /\ r.profile = rows[k].profile /\ r.kind = rows[k].kind
  BY <1>1 DEF Row
<1>3. rows' = [rows EXCEPT ![k] = r]
  OBVIOUS
<1> HIDE DEF r
<1>. QED BY <1>2, <1>3

(* What Disable changes.                                                   *)
LEMMA Disabling ==
  ASSUME TypeOK, NEW w \in Procs, NEW k \in DOMAIN rows, Disable(w, k)
  PROVE  /\ rows' \in Seq(Row) /\ DOMAIN rows' = DOMAIN rows
         /\ \A id \in DOMAIN rows :
               /\ rows'[id].secret = rows[id].secret /\ rows'[id].profile = rows[id].profile
               /\ rows'[id].kind = rows[id].kind
               /\ id # k => rows'[id].active = rows[id].active
         /\ ~rows'[k].active
         /\ pc' \in [Procs -> Steps] /\ job' \in [Procs -> Job(with.tries)]'
         /\ pc[w] = "idle" /\ pc'[w] = "bump" /\ job'[w].op = "disable"
         /\ \A v \in Procs \ {w} :
               /\ pc'[v] = pc[v]
               /\ job'[v].op = job[v].op /\ job'[v].profile = job[v].profile
               /\ job'[v].secret = job[v].secret /\ job'[v].id = job[v].id
               /\ job'[v].raced = IF Refreshing(v) THEN job[v].raced \cup {k} ELSE job[v].raced
<1>1. rows \in Seq(Row) /\ DOMAIN rows = 1..Len(rows) /\ rows[k] \in Row /\ k \in Nat
  BY RowTypes DEF TypeOK
<1>2. rows' = [rows EXCEPT ![k].active = FALSE, ![k].rev = @ + 1]
  BY DEF Disable
<1> DEFINE r == [rows[k] EXCEPT !.active = FALSE, !.rev = @ + 1]
<1>3. /\ r \in Row /\ r.active = FALSE /\ r.secret = rows[k].secret
      /\ r.profile = rows[k].profile /\ r.kind = rows[k].kind
  <2> DEFINE q == [rows[k] EXCEPT !.active = FALSE]
  <2>1. /\ q \in Row /\ q.active = FALSE /\ q.secret = rows[k].secret
        /\ q.profile = rows[k].profile /\ q.kind = rows[k].kind
    BY <1>1 DEF Row
  <2>2. r = [q EXCEPT !.rev = @ + 1]
    OBVIOUS
  <2> HIDE DEF q, r
  <2>. QED BY <2>1, <2>2 DEF Row
<1>4. rows' = [rows EXCEPT ![k] = r]
  BY <1>2
<1> HIDE DEF r
<1>5. /\ rows' \in Seq(Row) /\ DOMAIN rows' = DOMAIN rows
      /\ \A id \in DOMAIN rows :
            /\ rows'[id].secret = rows[id].secret /\ rows'[id].profile = rows[id].profile
            /\ rows'[id].kind = rows[id].kind
            /\ id # k => rows'[id].active = rows[id].active
      /\ ~rows'[k].active
  BY <1>1, <1>3, <1>4
<1>6. pc' \in [Procs -> Steps] /\ pc[w] = "idle" /\ pc'[w] = "bump"
      /\ \A v \in Procs \ {w} : pc'[v] = pc[v]
  BY DEF TypeOK, Disable, GoTo, Steps
<1>7. job' = [v \in Procs |->
                 IF v = w THEN [NoJob EXCEPT !.op = "disable"]
                 ELSE IF Refreshing(v) THEN [job[v] EXCEPT !.raced = @ \cup {k}]
                 ELSE job[v]]
  BY DEF Disable
<1>8. [NoJob EXCEPT !.op = "disable"] \in Job(with.tries) /\ [NoJob EXCEPT !.op = "disable"].op = "disable"
  BY NoJobType, Constants DEF TypeOK, Job, NoJob
<1>9. ASSUME NEW v \in Procs
      PROVE  /\ job[v] \in Job(with.tries)
             /\ [job[v] EXCEPT !.raced = @ \cup {k}] \in Job(with.tries)
             /\ [job[v] EXCEPT !.raced = @ \cup {k}].op = job[v].op
             /\ [job[v] EXCEPT !.raced = @ \cup {k}].profile = job[v].profile
             /\ [job[v] EXCEPT !.raced = @ \cup {k}].secret = job[v].secret
             /\ [job[v] EXCEPT !.raced = @ \cup {k}].id = job[v].id
             /\ [job[v] EXCEPT !.raced = @ \cup {k}].raced = job[v].raced \cup {k}
  <2>1. job[v] \in Job(with.tries)
    BY DEF TypeOK
  <2>. QED BY <2>1, <1>1 DEF Job
<1>10. Job(with.tries)' = Job(with.tries)
  BY DEF Disable, Job
<1>11. job' \in [Procs -> Job(with.tries)]
  <2>1. \A v \in Procs : job'[v] \in Job(with.tries)
    BY <1>7, <1>8, <1>9
  <2>. QED BY <1>7, <2>1
<1>12. job'[w].op = "disable"
  BY <1>7, <1>8
<1>13. \A v \in Procs \ {w} :
          /\ job'[v].op = job[v].op /\ job'[v].profile = job[v].profile
          /\ job'[v].secret = job[v].secret /\ job'[v].id = job[v].id
          /\ job'[v].raced = IF Refreshing(v) THEN job[v].raced \cup {k} ELSE job[v].raced
  BY <1>7, <1>9
<1>. QED BY <1>5, <1>6, <1>10, <1>11, <1>12, <1>13

(* What a refresh begins with.                                             *)
LEMMA Taking ==
  ASSUME TypeOK, NEW w \in Procs, NEW p \in Profiles, NEW k \in DOMAIN rows, Take(w, p, k)
  PROVE  /\ rows[k].kind = "oauth"
         /\ pc' \in [Procs -> Steps] /\ job' \in [Procs -> Job(with.tries)]'
         /\ pc[w] = "idle" /\ pc'[w] = "exchange"
         /\ job'[w].op = "refresh" /\ job'[w].profile = p /\ job'[w].secret = rows[k].secret
         /\ \A v \in Procs \ {w} : pc'[v] = pc[v] /\ job'[v] = job[v]
<1> DEFINE j == [NoJob EXCEPT !.op = "refresh", !.profile = p, !.secret = rows[k].secret, !.try = 1]
<1>1. NoJob \in Job(with.tries) /\ with.tries >= 1 /\ with.tries \in Nat
  BY NoJobType, Constants DEF TypeOK
<1>2. rows[k].secret \in Secret
  <2>1. rows[k] \in Row
    BY RowTypes DEF TypeOK
  <2>. QED BY <2>1 DEF Row
<1>3. j \in Job(with.tries) /\ j.op = "refresh" /\ j.profile = p /\ j.secret = rows[k].secret
  <2> DEFINE m == [NoJob EXCEPT !.op = "refresh", !.profile = p, !.secret = rows[k].secret]
  <2>1. m \in Job(with.tries) /\ m.op = "refresh" /\ m.profile = p /\ m.secret = rows[k].secret
    BY <1>1, <1>2 DEF Job
  <2>2. j = [m EXCEPT !.try = 1] /\ 1 \in 0..with.tries
    BY <1>1
  <2> HIDE DEF m, j
  <2>. QED BY <2>1, <2>2 DEF Job
<1>4. job' = [job EXCEPT ![w] = j] /\ pc' = [pc EXCEPT ![w] = "exchange"] /\ pc[w] = "idle"
      /\ with' = with /\ rows[k].kind = "oauth"
  BY DEF Take, Set, GoTo
<1> HIDE DEF j
<1>5. "exchange" \in Steps
  BY DEF Steps
<1>. QED BY <1>3, <1>4, <1>5, Moved DEF TypeOK

(* What the token endpoint's answer changes.                               *)
LEMMA Exchanging ==
  ASSUME TypeOK, NEW w \in Procs, Exchange(w)
  PROVE  /\ pc' \in [Procs -> Steps] /\ job' \in [Procs -> Job(with.tries)]'
         /\ pc[w] = "exchange" /\ pc'[w] = "select"
         /\ job'[w] = [job[w] EXCEPT !.secret = Reissued(job[w].secret)]
         /\ job'[w].op = job[w].op /\ job'[w].profile = job[w].profile
         /\ job'[w].id = job[w].id /\ job'[w].raced = job[w].raced
         /\ job'[w].secret = Reissued(job[w].secret)
         /\ \A v \in Procs \ {w} : pc'[v] = pc[v] /\ job'[v] = job[v]
         /\ job[w].secret \in good
         /\ good' = (good \ {job[w].secret}) \cup {Reissued(job[w].secret)}
         /\ Reissued(job[w].secret) \in Secret
<1> DEFINE j == [job[w] EXCEPT !.secret = Reissued(job[w].secret)]
<1>1. job[w] \in Job(with.tries) /\ job[w].secret \in Secret
  BY DEF TypeOK, Job
<1>2. Reissued(job[w].secret) \in Secret
  BY <1>1 DEF Reissued, Secret
<1>3. /\ j \in Job(with.tries) /\ j.op = job[w].op /\ j.profile = job[w].profile
      /\ j.id = job[w].id /\ j.raced = job[w].raced /\ j.secret = Reissued(job[w].secret)
  BY <1>1, <1>2 DEF Job
<1>4. /\ job' = [job EXCEPT ![w] = j] /\ pc' = [pc EXCEPT ![w] = "select"] /\ pc[w] = "exchange"
      /\ with' = with /\ job[w].secret \in good
      /\ good' = (good \ {job[w].secret}) \cup {Reissued(job[w].secret)}
  BY DEF Exchange, Set, GoTo
<1>5. "select" \in Steps
  BY DEF Steps
<1>6. /\ pc' \in [Procs -> Steps] /\ job' \in [Procs -> Job(with.tries)]'
      /\ pc'[w] = "select" /\ job'[w] = j
      /\ \A v \in Procs \ {w} : pc'[v] = pc[v] /\ job'[v] = job[v]
  <2> HIDE DEF j
  <2>. QED BY <1>3, <1>4, <1>5, Moved DEF TypeOK
<1>7. job'[w].op = job[w].op /\ job'[w].profile = job[w].profile /\ job'[w].id = job[w].id
      /\ job'[w].raced = job[w].raced /\ job'[w].secret = Reissued(job[w].secret)
  <2> HIDE DEF j
  <2>. QED BY <1>3, <1>6
<1>. QED BY <1>2, <1>4, <1>6, <1>7

(* Which row UpdateOAuth takes.                                            *)
LEMMA Selecting ==
  ASSUME TypeOK, NEW w \in Procs, Select(w)
  PROVE  /\ pc' \in [Procs -> Steps] /\ job' \in [Procs -> Job(with.tries)]'
         /\ pc[w] = "select" /\ pc'[w] = "update"
         /\ job'[w].id \in NewestOf(OAuthOf(job[w].profile))
         /\ job'[w].op = job[w].op /\ job'[w].profile = job[w].profile
         /\ job'[w].secret = job[w].secret /\ job'[w].raced = job[w].raced
         /\ \A v \in Procs \ {w} : pc'[v] = pc[v] /\ job'[v] = job[v]
<1>1. PICK k \in NewestOf(OAuthOf(job[w].profile)) : job' = [job EXCEPT ![w] = [job[w] EXCEPT !.id = k]]
  BY DEF Select, Set
<1>2. k \in Nat
  BY RowTypes DEF TypeOK, NewestOf, OAuthOf, RowsOf
<1> DEFINE j == [job[w] EXCEPT !.id = k]
<1>3. job[w] \in Job(with.tries)
  BY DEF TypeOK
<1>4. /\ j \in Job(with.tries) /\ j.op = job[w].op /\ j.profile = job[w].profile
      /\ j.id = k /\ j.raced = job[w].raced /\ j.secret = job[w].secret
  BY <1>2, <1>3 DEF Job
<1>5. /\ job' = [job EXCEPT ![w] = j] /\ pc' = [pc EXCEPT ![w] = "update"]
      /\ pc[w] = "select" /\ with' = with
  BY <1>1 DEF Select, GoTo
<1> HIDE DEF j
<1>6. "update" \in Steps
  BY DEF Steps
<1>. QED BY <1>4, <1>5, <1>6, Moved DEF TypeOK

(* The steps that leave the operation, and the retry.                      *)
LEMMA Finishing ==
  ASSUME TypeOK, NEW w \in Procs, Finish(w), with' = with
  PROVE  /\ pc' \in [Procs -> Steps] /\ job' \in [Procs -> Job(with.tries)]'
         /\ pc'[w] = "idle" /\ job'[w].op = "none"
         /\ \A v \in Procs \ {w} : pc'[v] = pc[v] /\ job'[v] = job[v]
<1>1. NoJob \in Job(with.tries) /\ NoJob.op = "none"
  BY NoJobType, Constants DEF TypeOK, NoJob
<1>2. "idle" \in Steps
  BY DEF Steps
<1>. QED BY <1>1, <1>2, Moved DEF TypeOK, Finish, Set

(* A refresh that is repeated goes on with the tokens it has.              *)
LEMMA Retrying ==
  ASSUME TypeOK, NEW w \in Procs, Retry(w), with' = with, ~Finish(w)
  PROVE  /\ pc' \in [Procs -> Steps] /\ job' \in [Procs -> Job(with.tries)]'
         /\ pc'[w] = "select" /\ job[w].op = "refresh"
         /\ job'[w].op = job[w].op /\ job'[w].profile = job[w].profile
         /\ job'[w].secret = job[w].secret /\ job'[w].raced = job[w].raced
         /\ \A v \in Procs \ {w} : pc'[v] = pc[v] /\ job'[v] = job[v]
<1> DEFINE j == [job[w] EXCEPT !.try = @ + 1]
<1>1. job[w] \in Job(with.tries) /\ with.tries \in Nat
  BY Constants DEF TypeOK
<1>2. /\ job[w].op = "refresh" /\ job[w].try < with.tries
      /\ pc' = [pc EXCEPT ![w] = "select"] /\ job' = [job EXCEPT ![w] = j]
  BY DEF Retry, Set
<1>3. /\ j \in Job(with.tries) /\ j.op = job[w].op /\ j.profile = job[w].profile
      /\ j.raced = job[w].raced /\ j.secret = job[w].secret
  BY <1>1, <1>2 DEF Job
<1> HIDE DEF j
<1>4. "select" \in Steps
  BY DEF Steps
<1>. QED BY <1>2, <1>3, <1>4, Moved DEF TypeOK

-------------------------------------------------------------------------------
(* The invariant, action by action.                                        *)

Summarized == Seq([profile: Profiles, kind: {"api_key", "oauth"}, active: BOOLEAN, rev: Nat])

(* What the watcher lists is of its type.                                  *)
LEMMA SummariesType == ASSUME rows \in Seq(Row) PROVE Summaries \in Summarized
<1>1. Len(rows) \in Nat /\ DOMAIN rows = 1..Len(rows) /\ \A id \in DOMAIN rows : rows[id] \in Row
  BY RowTypes
<1>2. \A id \in DOMAIN rows :
         Summary(rows[id]) \in [profile: Profiles, kind: {"api_key", "oauth"},
                                active: BOOLEAN, rev: Nat]
  BY <1>1 DEF Summary, Row
<1>. QED BY <1>1, <1>2 DEF Summaries, Summarized

(* A new row is its profile's newest, and has a new grant.                 *)
LEMMA PutInvariant ==
  ASSUME IInv, NEW w \in Procs, NEW p \in Profiles, NEW kind \in {"api_key", "oauth"}, Put(w, p, kind)
  PROVE  IInv'
<1>0. PICK n : n = Len(rows) + 1
  OBVIOUS
<1>1. PutEffect(w, p, kind, n)
  BY <1>0, Putting DEF IInv
<1> DEFINE new == [grant |-> n, serial |-> 0]
<1>2. /\ good' = IF kind = "oauth" THEN good \cup {new} ELSE good
      /\ UNCHANGED <<with, gen, watcher>>
  BY <1>1 DEF Put, PutEffect
<1>3. new \in Secret /\ new.grant = n /\ new.serial = 0
  BY <1>1 DEF Secret, PutEffect
<1>4. rows'[n].profile = p /\ rows'[n].kind = kind /\ rows'[n].secret = new /\ rows'[n].active = TRUE
  BY <1>1 DEF PutEffect
<1>5. DOMAIN rows \subseteq Nat
  BY RowTypes DEF IInv, TypeOK
<1> HIDE DEF new
<1> USE DEF PutEffect
<1>6. TypeOK'
  <2>1. \A v \in Procs : pc'[v] = "update" => job'[v].id \in OAuthOf(job[v].profile)' /\ job'[v] = job[v]
    BY <1>1 DEF IInv, TypeOK, OAuthOf, RowsOf
  <2>2. good' \subseteq Secret
    BY <1>2, <1>3 DEF IInv, TypeOK
  <2>3. UNCHANGED <<with, gen, seen, due, view>>
    BY <1>2 DEF watcher
  <2>. QED BY <1>1, <2>1, <2>2, <2>3 DEF IInv, TypeOK
<1>7. Race'
  <2> SUFFICES ASSUME NEW v \in Procs, job'[v].op = "refresh"
               PROVE  /\ \A id \in NewestOf(OAuthOf(job[v].profile))' : Excused(v, id)'
                      /\ pc'[v] = "update" => Excused(v, job[v].id)'
    BY DEF Race
  <2>1. v # w /\ job'[v] = job[v] /\ pc'[v] = pc[v]
    BY <1>1
  <2>2. /\ \A id \in NewestOf(OAuthOf(job[v].profile)) : Excused(v, id)
        /\ pc[v] = "update" => Excused(v, job[v].id)
    BY <2>1 DEF IInv, Race
  <2>3. \A id \in DOMAIN rows : Excused(v, id) => Excused(v, id)'
    BY <1>1, <2>1 DEF Excused
  <2>4. Excused(v, n)'
    BY <1>4 DEF Excused
  <2>5. \A id \in NewestOf(OAuthOf(job[v].profile))' :
           id = n \/ (id \in DOMAIN rows /\ id \in NewestOf(OAuthOf(job[v].profile)))
    BY <1>1, <2>1 DEF NewestOf, OAuthOf, RowsOf
  <2>6. pc[v] = "update" => job[v].id \in DOMAIN rows
    BY DEF IInv, TypeOK, OAuthOf, RowsOf
  <2>. QED BY <2>1, <2>2, <2>3, <2>4, <2>5, <2>6
<1>8. Refreshers' /\ Announced'
  BY <1>1, <1>2 DEF IInv, Refreshers, Holds, Announced, watcher
<1>9. Known'
  <2>1. \A id \in DOMAIN rows' : Of(rows[id].secret, rows[id].profile)'
    BY <1>1, <1>3, <1>4 DEF IInv, Known, Of
  <2>2. \A v \in Procs : job'[v].op = "refresh" => Of(job[v].secret, job[v].profile)'
    BY <1>1 DEF IInv, Known, Of
  <2>3. \A g \in good' : g.grant \in DOMAIN rows'
    BY <1>1, <1>2, <1>3 DEF IInv, Known
  <2>. QED BY <2>1, <2>2, <2>3 DEF Known
<1>10. OnePerGrant' /\ Latest'
  BY <1>1, <1>2, <1>3, <1>4 DEF IInv, Known, Of, OnePerGrant, Latest, Bounded
<1>11. ASSUME Tame PROVE Carried'
  BY <1>1, <1>2, <1>3, <1>4, <1>11 DEF IInv, Refreshers, Known, Of, Carried, Carries, Sole, Holds
<1>12. ASSUME Tame PROVE Strict'
  BY <1>1, <1>2, <1>12 DEF IInv, Strict
<1>13. ASSUME Tame PROVE Usable'
  <2> SUFFICES ASSUME NEW q \in Profiles, NEW id \in NewestOf(RowsOf(q))', rows'[id].kind = "oauth"
               PROVE  rows'[id].secret \in good' \/ \E v \in Procs : Covers(v, q, id)'
    BY DEF Usable
  <2>1. CASE id = n
    BY <2>1, <1>2, <1>4
  <2>2. CASE id # n
    <3>1. id \in NewestOf(RowsOf(q)) /\ rows'[id] = rows[id]
      BY <2>2, <1>1 DEF NewestOf, RowsOf
    <3>2. rows[id].secret \in good \/ \E v \in Procs : Covers(v, q, id)
      BY <3>1, <1>13 DEF IInv, Usable
    <3>3. ASSUME NEW v \in Procs, Covers(v, q, id) PROVE Covers(v, q, id)'
      BY <3>3, <1>1 DEF Covers
    <3>. QED BY <3>1, <3>2, <3>3, <1>2
  <2>. QED BY <2>1, <2>2
<1>14. Tame' => Tame
  BY <1>2 DEF Tame
<1>. QED BY <1>6, <1>7, <1>8, <1>9, <1>10, <1>11, <1>12, <1>13, <1>14 DEF IInv

(* Disable announces what it does, and every refresh under way knows of    *)
(* it.                                                                     *)
LEMMA DisableInvariant ==
  ASSUME IInv, NEW w \in Procs, NEW k \in DOMAIN rows, Disable(w, k)
  PROVE  IInv'
<1>1. /\ rows' \in Seq(Row) /\ DOMAIN rows' = DOMAIN rows
      /\ \A id \in DOMAIN rows :
            /\ rows'[id].secret = rows[id].secret /\ rows'[id].profile = rows[id].profile
            /\ rows'[id].kind = rows[id].kind
            /\ id # k => rows'[id].active = rows[id].active
      /\ ~rows'[k].active
      /\ pc' \in [Procs -> Steps] /\ job' \in [Procs -> Job(with.tries)]'
      /\ pc[w] = "idle" /\ pc'[w] = "bump" /\ job'[w].op = "disable"
      /\ \A v \in Procs \ {w} :
            /\ pc'[v] = pc[v]
            /\ job'[v].op = job[v].op /\ job'[v].profile = job[v].profile
            /\ job'[v].secret = job[v].secret /\ job'[v].id = job[v].id
            /\ job'[v].raced = IF Refreshing(v) THEN job[v].raced \cup {k} ELSE job[v].raced
  BY Disabling DEF IInv
<1>2. UNCHANGED <<with, gen, good, watcher>>
  BY DEF Disable
<1>3. \A q \in Profiles : /\ (RowsOf(q))' = RowsOf(q) /\ (OAuthOf(q))' = OAuthOf(q)
                          /\ NewestOf(RowsOf(q))' = NewestOf(RowsOf(q))
                          /\ NewestOf(OAuthOf(q))' = NewestOf(OAuthOf(q))
  BY <1>1 DEF RowsOf, OAuthOf, NewestOf
<1>4. \A v \in Procs : job[v].profile \in Profiles
  BY DEF IInv, TypeOK, Job
<1>5. TypeOK'
  <2>1. \A v \in Procs : pc'[v] = "update" =>
           /\ job'[v].id = job[v].id /\ job'[v].profile = job[v].profile
           /\ job[v].id \in OAuthOf(job[v].profile)
    BY <1>1 DEF IInv, TypeOK
  <2>2. \A v \in Procs : pc'[v] = "update" => job'[v].id \in OAuthOf(job[v].profile)'
    BY <1>1, <2>1 DEF OAuthOf, RowsOf
  <2>3. UNCHANGED <<with, gen, seen, due, view>>
    BY <1>2 DEF watcher
  <2>. QED BY <1>1, <1>2, <2>2, <2>3 DEF IInv, TypeOK
<1>6. Race'
  <2> SUFFICES ASSUME NEW v \in Procs, job'[v].op = "refresh"
               PROVE  /\ \A id \in NewestOf(OAuthOf(job[v].profile))' : Excused(v, id)'
                      /\ pc'[v] = "update" => Excused(v, job[v].id)'
    BY DEF Race
  <2>1. v # w /\ Refreshing(v)
    BY <1>1 DEF Refreshing
  <2>2. \A id \in DOMAIN rows : Excused(v, id) => Excused(v, id)'
    BY <2>1, <1>1 DEF Excused
  <2>3. NewestOf(OAuthOf(job[v].profile))' = NewestOf(OAuthOf(job[v].profile))
    BY <1>1, <1>3, <1>4, <2>1
  <2>4. NewestOf(OAuthOf(job[v].profile)) \subseteq DOMAIN rows
    BY DEF NewestOf, OAuthOf, RowsOf
  <2>5. pc[v] = "update" => job[v].id \in DOMAIN rows
    BY DEF IInv, TypeOK, OAuthOf, RowsOf
  <2>. QED BY <1>1, <2>1, <2>2, <2>3, <2>4, <2>5 DEF IInv, Race
<1>7. Refreshers' /\ Announced'
  BY <1>1, <1>2 DEF IInv, Refreshers, Holds, Announced, watcher
<1>8. Known' /\ OnePerGrant' /\ Latest'
  <2>1. \A v \in Procs : job'[v].op = "refresh" =>
           /\ job[v].op = "refresh"
           /\ job'[v].profile = job[v].profile /\ job'[v].secret = job[v].secret
    BY <1>1
  <2>2. Known'
    <3>0. ASSUME NEW s, NEW q, Of(s, q)
          PROVE  s.grant \in DOMAIN rows' /\ rows'[s.grant].profile = q
      BY <3>0, <1>1 DEF Of
    <3>1. \A id \in DOMAIN rows' : Of(rows[id].secret, rows[id].profile)'
      <4> SUFFICES ASSUME NEW id \in DOMAIN rows
                   PROVE  Of(rows[id].secret, rows[id].profile)'
        BY <1>1
      <4>1. Of(rows[id].secret, rows[id].profile)
        BY DEF IInv, Known
      <4>. QED BY <4>1, <3>0, <1>1 DEF Of
    <3>2. \A v \in Procs : job'[v].op = "refresh" => Of(job[v].secret, job[v].profile)'
      <4> SUFFICES ASSUME NEW v \in Procs, job'[v].op = "refresh"
                   PROVE  Of(job[v].secret, job[v].profile)'
        OBVIOUS
      <4>1. Of(job[v].secret, job[v].profile)
        BY <2>1 DEF IInv, Known
      <4>. QED BY <4>1, <3>0, <2>1 DEF Of
    <3>3. \A g \in good' : g.grant \in DOMAIN rows'
      BY <1>1, <1>2 DEF IInv, Known
    <3>. QED BY <3>1, <3>2, <3>3 DEF Known
  <2>3. OnePerGrant'
    BY <1>2 DEF IInv, OnePerGrant
  <2>4. Latest'
    BY <1>1, <1>2, <2>1 DEF IInv, Latest, Bounded
  <2>. QED BY <2>2, <2>3, <2>4
<1>9. ASSUME Tame PROVE Carried' /\ Strict'
  <2>1. \A v \in Procs : pc'[v] \in {"exchange", "select", "update"} =>
           v # w /\ pc'[v] = pc[v] /\ job'[v].secret = job[v].secret
    BY <1>1
  <2>2. ASSUME NEW v \in Procs, Carries(v)' PROVE job'[v].secret \in good' /\ Sole(v)'
    <3>1. Carries(v) /\ job[v].secret \in good /\ Sole(v) /\ job'[v].secret = job[v].secret
      BY <2>1, <2>2, <1>9 DEF IInv, Carried, Carries
    <3>2. \A u \in Procs : Holds(u)' => Holds(u) /\ job'[u].secret = job[u].secret
      BY <2>1 DEF Holds
    <3>. QED BY <3>1, <3>2, <1>1, <1>2 DEF Sole
  <2>3. Strict'
    BY <2>1, <1>2, <1>9 DEF IInv, Strict
  <2>. QED BY <2>2, <2>3 DEF Carried
<1>10. ASSUME Tame PROVE Usable'
  <2> SUFFICES ASSUME NEW q \in Profiles, NEW id \in NewestOf(RowsOf(q)), rows'[id].kind = "oauth"
               PROVE  rows'[id].secret \in good \/ \E v \in Procs : Covers(v, q, id)'
    BY <1>2, <1>3 DEF Usable
  <2>1. id \in DOMAIN rows
    BY DEF NewestOf, RowsOf
  <2>2. rows[id].secret \in good \/ \E v \in Procs : Covers(v, q, id)
    BY <2>1, <1>1, <1>10 DEF IInv, Usable
  <2>3. ASSUME NEW v \in Procs, Covers(v, q, id) PROVE Covers(v, q, id)'
    BY <2>3, <1>1 DEF Covers
  <2>. QED BY <1>1, <2>1, <2>2, <2>3
<1>11. Tame' => Tame
  BY <1>2 DEF Tame
<1>. QED BY <1>5, <1>6, <1>7, <1>8, <1>9, <1>10, <1>11 DEF IInv

(* The token endpoint gives the next token of the same login.              *)
LEMMA Reissuing ==
  ASSUME good \subseteq Secret, OnePerGrant, with.rotates \in BOOLEAN,
         NEW s \in good, good' = (good \ {s}) \cup {Reissued(s)}
  PROVE  /\ good' \subseteq Secret /\ OnePerGrant'
         /\ Reissued(s).grant = s.grant
         /\ Reissued(s).serial >= s.serial
         /\ with.rotates => Reissued(s).serial = s.serial + 1
         /\ ~with.rotates => good' = good
         /\ \A g \in good' : g = Reissued(s) \/ (g \in good /\ g.grant # s.grant)
<1>1. /\ Reissued(s) \in Secret /\ Reissued(s).grant = s.grant /\ Reissued(s).serial >= s.serial
      /\ with.rotates => Reissued(s).serial = s.serial + 1
      /\ ~with.rotates => Reissued(s) = s
  BY DEF Reissued, Secret
<1>2. \A g \in good' : g = Reissued(s) \/ (g \in good /\ g.grant # s.grant)
  BY DEF OnePerGrant
<1>3. OnePerGrant'
  BY <1>1, <1>2 DEF OnePerGrant
<1>. QED BY <1>1, <1>2, <1>3

(* A bound on what is held stays one when a login's token is replaced.     *)
LEMMA StaysBounded ==
  ASSUME good \subseteq Secret, OnePerGrant, with.rotates \in BOOLEAN,
         NEW s \in good, good' = (good \ {s}) \cup {Reissued(s)},
         NEW x \in Secret, Bounded(x)
  PROVE  Bounded(x)'
<1>1. /\ good' \subseteq Secret /\ Reissued(s).grant = s.grant /\ Reissued(s).serial >= s.serial
      /\ \A g \in good' : g = Reissued(s) \/ (g \in good /\ g.grant # s.grant)
  BY Reissuing
<1>2. SUFFICES ASSUME NEW g \in good', g.grant = x.grant PROVE x.serial <= g.serial
  BY DEF Bounded
<1>3. CASE g \in good
  BY <1>2, <1>3 DEF Bounded
<1>4. CASE g = Reissued(s)
  <2>1. x.serial <= s.serial
    BY <1>1, <1>2, <1>4 DEF Bounded
  <2>. QED BY <2>1, <1>1, <1>4 DEF Secret
<1>. QED BY <1>1, <1>3, <1>4

(* An operation ends, done or given up.                                    *)
LEMMA LeaveInvariant ==
  ASSUME IInv, NEW w \in Procs, Finish(w), UNCHANGED <<with, rows, watcher>>,
         gen' = gen + 1 \/ (gen' = gen /\ (with.faults # {} \/ pc[w] = "exchange")),
         good' \subseteq Secret, OnePerGrant',
         \A g \in good' : g.grant \in DOMAIN rows,
         \A x \in Secret : Bounded(x) => Bounded(x)',
         Tame => pc[w] \in {"bump", "exchange"} /\ good' = good
  PROVE  IInv'
<1>1. /\ pc' \in [Procs -> Steps] /\ job' \in [Procs -> Job(with.tries)]'
      /\ pc'[w] = "idle" /\ job'[w].op = "none"
      /\ \A v \in Procs \ {w} : pc'[v] = pc[v] /\ job'[v] = job[v]
  BY Finishing DEF IInv
<1>2. UNCHANGED <<with, rows, seen, due, view>>
  BY DEF watcher
<1>3. gen \in Nat /\ seen \in Nat /\ gen' \in Nat
  BY DEF IInv, TypeOK
<1>4. \A v \in Procs : job[v].secret \in Secret
  BY DEF IInv, TypeOK, Job
<1>5. \A id \in DOMAIN rows : rows[id].secret \in Secret
  <2>1. \A id \in DOMAIN rows : rows[id] \in Row
    BY RowTypes DEF IInv, TypeOK
  <2>. QED BY <2>1 DEF Row
<1>6. TypeOK'
  <2>1. \A v \in Procs : pc'[v] = "update" => job'[v].id \in OAuthOf(job[v].profile)'
    BY <1>1, <1>2 DEF IInv, TypeOK, OAuthOf, RowsOf
  <2>2. \A v \in Procs : pc'[v] = "update" => job'[v] = job[v]
    BY <1>1
  <2>. QED BY <1>1, <1>2, <1>3, <2>1, <2>2 DEF IInv, TypeOK
<1>7. Race'
  BY <1>1, <1>2 DEF IInv, Race, Excused, NewestOf, OAuthOf, RowsOf
<1>8. Refreshers'
  BY <1>1, <1>2 DEF IInv, Refreshers, Holds
<1>9. Announced'
  <2>1. CASE gen' = gen + 1
    BY <2>1, <1>2, <1>3 DEF IInv, Announced
  <2>2. CASE gen' = gen /\ with.faults # {}
    BY <2>2, <1>2 DEF IInv, Announced
  <2>3. CASE gen' = gen /\ pc[w] = "exchange"
    <3>1. \A v \in Procs : pc[v] = "bump" => pc'[v] = "bump"
      BY <2>3, <1>1
    <3>2. Summaries' = Summaries
      BY <1>2 DEF Summaries, Summary
    <3>. QED BY <3>1, <3>2, <2>3, <1>2 DEF IInv, Announced
  <2>. QED BY <2>1, <2>2, <2>3
<1>10. Known'
  BY <1>1, <1>2 DEF IInv, Known, Of
<1>11. Latest'
  <2>1. \A id \in DOMAIN rows : Bounded(rows[id].secret)'
    <3>1. ASSUME NEW id \in DOMAIN rows PROVE Bounded(rows[id].secret)'
      <4>1. PICK x \in Secret : x = rows[id].secret
        BY <1>5
      <4>2. Bounded(x)'
        BY <4>1 DEF IInv, Latest
      <4>. QED BY <4>1, <4>2, <1>2 DEF Bounded
    <3>. QED BY <3>1
  <2>2. ASSUME NEW v \in Procs, job'[v].op = "refresh" PROVE Bounded(job[v].secret)'
    <3>1. job'[v] = job[v]
      BY <2>2, <1>1
    <3>2. PICK x \in Secret : x = job[v].secret
      BY <1>4
    <3>3. Bounded(x)'
      BY <3>1, <3>2, <2>2 DEF IInv, Latest
    <3>. QED BY <3>1, <3>2, <3>3 DEF Bounded
  <2>. QED BY <2>1, <2>2, <1>2 DEF Latest
<1>12. ASSUME Tame PROVE Carried'
  BY <1>1, <1>2, <1>12 DEF IInv, Carried, Carries, Sole, Holds
<1>13. ASSUME Tame PROVE Strict'
  BY <1>1, <1>2, <1>13 DEF IInv, Strict
<1>14. ASSUME Tame PROVE Usable'
  <2>1. \A v \in Procs : \A q, id : Covers(v, q, id) => v # w
    BY <1>14 DEF Covers
  <2>2. \A v \in Procs : \A q, id : Covers(v, q, id) => Covers(v, q, id)'
    BY <2>1, <1>1 DEF Covers
  <2>3. \A q \in Profiles : NewestOf(RowsOf(q))' = NewestOf(RowsOf(q))
    BY <1>2 DEF NewestOf, RowsOf
  <2>. QED BY <2>2, <2>3, <1>2, <1>14 DEF IInv, Usable
<1>15. Tame' => Tame
  BY <1>2 DEF Tame
<1>. QED BY <1>6, <1>7, <1>8, <1>9, <1>10, <1>11, <1>12, <1>13, <1>14, <1>15 DEF IInv

(* The generation covers the change before it.                             *)
LEMMA BumpInvariant == ASSUME IInv, NEW w \in Procs, Bump(w) PROVE IInv'
<1>1. /\ pc[w] = "bump" /\ Finish(w) /\ gen' = gen + 1
      /\ UNCHANGED <<with, rows, good, watcher>>
  BY DEF Bump
<1>2. good' \subseteq Secret /\ OnePerGrant' /\ \A g \in good' : g.grant \in DOMAIN rows
  BY <1>1 DEF IInv, TypeOK, OnePerGrant, Known
<1>3. \A x \in Secret : Bounded(x) => Bounded(x)'
  BY <1>1 DEF Bounded
<1>. QED BY <1>1, <1>2, <1>3, LeaveInvariant

(* A process that ends leaves no promise, and faults promise nothing.      *)
LEMMA CrashInvariant == ASSUME IInv, NEW w \in Procs, Crash(w) PROVE IInv'
<1>1. /\ with.faults # {} /\ Finish(w) /\ gen' = gen
      /\ UNCHANGED <<with, rows, good, watcher>>
  BY DEF Crash, vault
<1>2. good' \subseteq Secret /\ OnePerGrant' /\ \A g \in good' : g.grant \in DOMAIN rows
  BY <1>1 DEF IInv, TypeOK, OnePerGrant, Known
<1>3. \A x \in Secret : Bounded(x) => Bounded(x)'
  BY <1>1 DEF Bounded
<1>4. ~Tame
  BY <1>1 DEF Tame
<1>. QED BY <1>1, <1>2, <1>3, <1>4, LeaveInvariant

(* A call that fails, or whose answer is lost, ends its refresh.           *)
LEMMA ExchangeFailsInvariant == ASSUME IInv, NEW w \in Procs, ExchangeFails(w) PROVE IInv'
<1> DEFINE s == job[w].secret
<1>1. /\ pc[w] = "exchange" /\ Finish(w) /\ gen' = gen
      /\ UNCHANGED <<with, rows, watcher>>
  BY DEF ExchangeFails, GoTo, Finish, vault
<1>2. \/ good' = good
      \/ with.revokes /\ s \notin good /\ good' \subseteq good
      \/ "net" \in with.faults /\ s \in good /\ good' = (good \ {s}) \cup {Reissued(s)}
  BY DEF ExchangeFails
<1>3. with.rotates \in BOOLEAN /\ with.revokes \in BOOLEAN
  BY Constants DEF IInv, TypeOK
<1>4. /\ good' \subseteq Secret /\ OnePerGrant' /\ \A g \in good' : g.grant \in DOMAIN rows
      /\ \A x \in Secret : Bounded(x) => Bounded(x)'
  <2>1. CASE good' \subseteq good
    BY <2>1 DEF IInv, TypeOK, OnePerGrant, Known, Bounded
  <2>2. CASE s \in good /\ good' = (good \ {s}) \cup {Reissued(s)}
    <3>1. good \subseteq Secret /\ OnePerGrant /\ \A g \in good : g.grant \in DOMAIN rows
      BY DEF IInv, TypeOK, Known
    <3>2. \A x \in Secret : Bounded(x) => Bounded(x)'
      BY <2>2, <3>1, <1>3, StaysBounded
    <3>3. /\ good' \subseteq Secret /\ OnePerGrant' /\ Reissued(s).grant = s.grant
          /\ \A g \in good' : g = Reissued(s) \/ (g \in good /\ g.grant # s.grant)
      BY <2>2, <3>1, <1>3, Reissuing
    <3>4. \A g \in good' : g.grant \in DOMAIN rows
      BY <2>2, <3>1, <3>3
    <3>. QED BY <3>2, <3>3, <3>4
  <2>. QED BY <2>1, <2>2, <1>2
<1>5. ASSUME Tame PROVE good' = good
  <2>1. with.faults = {} /\ (with.revokes => s \in good)
    BY <1>1, <1>5 DEF IInv, Strict, Tame
  <2>. QED BY <2>1, <1>2
<1>. QED BY <1>1, <1>4, <1>5, LeaveInvariant

(* A refresh begins, with the newest row of the profile, active and oauth. *)
LEMMA TakeInvariant ==
  ASSUME IInv, NEW w \in Procs, NEW p \in Profiles, ReadForRefresh(w, p)
  PROVE  IInv'
<1>1. PICK k \in NewestOf(RowsOf(p)) : w \in with.refreshers /\ rows[k].active /\ Take(w, p, k)
  BY DEF ReadForRefresh
<1>2. k \in DOMAIN rows /\ rows[k].profile = p
  BY DEF NewestOf, RowsOf
<1>3. /\ rows[k].kind = "oauth"
      /\ pc' \in [Procs -> Steps] /\ job' \in [Procs -> Job(with.tries)]'
      /\ pc[w] = "idle" /\ pc'[w] = "exchange"
      /\ job'[w].op = "refresh" /\ job'[w].profile = p /\ job'[w].secret = rows[k].secret
      /\ \A v \in Procs \ {w} : pc'[v] = pc[v] /\ job'[v] = job[v]
  BY <1>1, <1>2, Taking DEF IInv
<1>4. UNCHANGED <<with, rows, gen, good, seen, due, view>>
  BY <1>1 DEF Take, vault, watcher
<1>5. TypeOK'
  <2>1. \A v \in Procs : pc'[v] = "update" => job'[v].id \in OAuthOf(job[v].profile)'
    BY <1>3, <1>4 DEF IInv, TypeOK, OAuthOf, RowsOf
  <2>2. \A v \in Procs : pc'[v] = "update" => job'[v] = job[v]
    BY <1>3
  <2>. QED BY <1>3, <1>4, <2>1, <2>2 DEF IInv, TypeOK
<1>6. NewestOf(OAuthOf(p)) = {k}
  <2>1. DOMAIN rows \subseteq Nat
    BY RowTypes DEF IInv, TypeOK
  <2>. QED BY <1>1, <1>2, <1>3, <2>1 DEF NewestOf, OAuthOf, RowsOf
<1>7. Race'
  <2> SUFFICES ASSUME NEW v \in Procs, job'[v].op = "refresh"
               PROVE  /\ \A id \in NewestOf(OAuthOf(job[v].profile))' : Excused(v, id)'
                      /\ pc'[v] = "update" => Excused(v, job[v].id)'
    BY DEF Race
  <2>1. NewestOf(OAuthOf(job[v].profile))' = NewestOf(OAuthOf(job'[v].profile))
    BY <1>4 DEF NewestOf, OAuthOf, RowsOf
  <2>2. CASE v = w
    BY <2>1, <2>2, <1>1, <1>3, <1>4, <1>6 DEF Excused
  <2>3. CASE v # w
    BY <2>1, <2>3, <1>3, <1>4 DEF IInv, Race, Excused
  <2>. QED BY <2>2, <2>3
<1>8. Refreshers'
  BY <1>1, <1>3, <1>4 DEF IInv, Refreshers, Holds
<1>9. Announced'
  <2>1. \A v \in Procs : pc[v] = "bump" => pc'[v] = "bump"
    BY <1>3
  <2>2. Summaries' = Summaries
    BY <1>4 DEF Summaries, Summary
  <2>. QED BY <2>1, <2>2, <1>4 DEF IInv, Announced
<1>10. Known' /\ OnePerGrant' /\ Latest'
  <2>1. /\ \A id \in DOMAIN rows : Of(rows[id].secret, rows[id].profile)' /\ Bounded(rows[id].secret)'
        /\ \A g \in good' : g.grant \in DOMAIN rows'
        /\ OnePerGrant'
    BY <1>4 DEF IInv, Known, Latest, Of, Bounded, OnePerGrant
  <2>2. ASSUME NEW v \in Procs, job'[v].op = "refresh"
        PROVE  Of(job[v].secret, job[v].profile)' /\ Bounded(job[v].secret)'
    <3>1. CASE v = w
      BY <3>1, <1>2, <1>3, <1>4 DEF IInv, Known, Latest, Of, Bounded
    <3>2. CASE v # w
      BY <3>2, <2>2, <1>3, <1>4 DEF IInv, Known, Latest, Of, Bounded
    <3>. QED BY <3>1, <3>2
  <2>. QED BY <2>1, <2>2, <1>4 DEF Known, Latest
<1>11. ASSUME Tame PROVE Carried'
  <2> SUFFICES ASSUME NEW v \in Procs, Carries(v)' PROVE job'[v].secret \in good' /\ Sole(v)'
    BY DEF Carried
  <2>1. v # w /\ pc'[v] = pc[v] /\ job'[v] = job[v] /\ Carries(v)
    BY <1>3 DEF Carries
  <2>2. job[v].secret \in good /\ Sole(v)
    BY <2>1, <1>11 DEF IInv, Carried
  <2>3. ASSUME with.rotates, NEW u \in Procs \ {v}, Holds(u)' PROVE job'[u].secret # job'[v].secret
    <3>1. CASE u = w
      BY <3>1, <2>1, <2>2, <2>3, <1>2, <1>3 DEF Sole
    <3>2. CASE u # w
      BY <3>2, <2>1, <2>2, <2>3, <1>3 DEF Sole, Holds
    <3>. QED BY <3>1, <3>2
  <2>. QED BY <2>1, <2>2, <2>3, <1>4 DEF Sole
<1>12. ASSUME Tame PROVE Strict'
  <2> SUFFICES ASSUME with.revokes, NEW v \in Procs, pc'[v] = "exchange" PROVE job'[v].secret \in good
    BY <1>4 DEF Strict
  <2>1. CASE v # w
    BY <2>1, <1>3, <1>12 DEF IInv, Strict
  <2>2. CASE v = w
    <3>1. \A u \in Procs : ~Carries(u)
      <4>1. with.refreshers \subseteq Procs /\ IsFiniteSet(with.refreshers)
        BY Constants, VaultAssumption, FS_Subset DEF IInv, TypeOK
      <4>2. \E x : with.refreshers = {x}
        BY <4>1, <1>12, FS_Singleton DEF Tame
      <4>3. ASSUME NEW u \in Procs, Carries(u) PROVE u = w
        BY <4>2, <4>3, <1>1 DEF IInv, Refreshers, Holds, Carries
      <4>. QED BY <4>3, <1>3 DEF Carries
    <3>2. rows[k].secret \in good
      BY <3>1, <1>1, <1>3, <1>12 DEF IInv, Usable, Covers, Carries
    <3>. QED BY <3>2, <2>2, <1>3
  <2>. QED BY <2>1, <2>2
<1>13. ASSUME Tame PROVE Usable'
  <2>1. \A v \in Procs : \A q, id : Covers(v, q, id) => Covers(v, q, id)'
    BY <1>3 DEF Covers
  <2>2. \A q \in Profiles : NewestOf(RowsOf(q))' = NewestOf(RowsOf(q))
    BY <1>4 DEF NewestOf, RowsOf
  <2>. QED BY <2>1, <2>2, <1>4, <1>13 DEF IInv, Usable
<1>14. Tame' => Tame
  BY <1>4 DEF Tame
<1>. QED BY <1>5, <1>7, <1>8, <1>9, <1>10, <1>11, <1>12, <1>13, <1>14 DEF IInv

(* At an endpoint that revokes there is one refresh at a time.             *)
LEMMA OneRefresher ==
  ASSUME IInv, Tame, with.revokes, NEW u \in Procs, NEW v \in Procs, Holds(u), Holds(v)
  PROVE  u = v
<1>1. with.refreshers \subseteq Procs /\ IsFiniteSet(with.refreshers)
  BY Constants, VaultAssumption, FS_Subset DEF IInv, TypeOK
<1>2. \E x : with.refreshers = {x}
  BY <1>1, FS_Singleton DEF Tame
<1>. QED BY <1>2 DEF IInv, Refreshers

(* A refresh token that was exchanged is carried by its refresh alone.     *)
LEMMA ExchangeInvariant == ASSUME IInv, NEW w \in Procs, Exchange(w) PROVE IInv'
<1>0. PICK s : s = job[w].secret
  OBVIOUS
<1>1. /\ pc' \in [Procs -> Steps] /\ job' \in [Procs -> Job(with.tries)]'
      /\ pc[w] = "exchange" /\ pc'[w] = "select"
      /\ job'[w].op = job[w].op /\ job'[w].profile = job[w].profile
      /\ job'[w].id = job[w].id /\ job'[w].raced = job[w].raced
      /\ job'[w].secret = Reissued(s)
      /\ \A v \in Procs \ {w} : pc'[v] = pc[v] /\ job'[v] = job[v]
      /\ s \in good
      /\ good' = (good \ {s}) \cup {Reissued(s)}
      /\ Reissued(s) \in Secret
  BY <1>0, Exchanging DEF IInv
<1>2. UNCHANGED <<with, rows, gen, seen, due, view>>
  BY DEF Exchange, vault, watcher
<1>3. good \subseteq Secret /\ OnePerGrant /\ with.rotates \in BOOLEAN
  BY Constants DEF IInv, TypeOK
<1>4. /\ good' \subseteq Secret /\ OnePerGrant'
      /\ Reissued(s).grant = s.grant
      /\ with.rotates => Reissued(s).serial = s.serial + 1
      /\ ~with.rotates => good' = good
      /\ \A g \in good' : g = Reissued(s) \/ (g \in good /\ g.grant # s.grant)
  BY <1>1, <1>3, Reissuing
<1>5. \A x \in Secret : Bounded(x) => Bounded(x)'
  BY <1>1, <1>3, StaysBounded
<1>6. Holds(w) /\ job[w].op = "refresh"
  BY <1>1 DEF IInv, Refreshers, Holds
<1>7. \A id \in DOMAIN rows : rows[id].secret \in Secret /\ Bounded(rows[id].secret)
  <2>1. \A id \in DOMAIN rows : rows[id] \in Row
    BY RowTypes DEF IInv, TypeOK
  <2>. QED BY <2>1 DEF Row, IInv, Latest
<1>8. \A v \in Procs : /\ job[v].secret \in Secret
                       /\ job[v].op = "refresh" => Bounded(job[v].secret)
                       /\ Holds(v) => job[v].op = "refresh"
  BY DEF IInv, TypeOK, Job, Latest, Refreshers
<1>9. \A x \in Secret : with.rotates /\ Bounded(x) => x # Reissued(s)
  BY <1>1, <1>3, <1>4 DEF Bounded, Secret
<1>10. TypeOK'
  <2>1. \A v \in Procs : pc'[v] = "update" => job'[v].id \in OAuthOf(job[v].profile)'
    BY <1>1, <1>2 DEF IInv, TypeOK, OAuthOf, RowsOf
  <2>2. \A v \in Procs : pc'[v] = "update" => job'[v] = job[v]
    BY <1>1
  <2>. QED BY <1>1, <1>2, <1>4, <2>1, <2>2 DEF IInv, TypeOK
<1>11. Race'
  <2> SUFFICES ASSUME NEW v \in Procs, job'[v].op = "refresh"
               PROVE  /\ \A id \in NewestOf(OAuthOf(job[v].profile))' : Excused(v, id)'
                      /\ pc'[v] = "update" => Excused(v, job[v].id)'
    BY DEF Race
  <2>1. job'[v].profile = job[v].profile /\ job'[v].op = job[v].op
        /\ job'[v].raced = job[v].raced /\ job'[v].id = job[v].id
    BY <1>1
  <2>2. NewestOf(OAuthOf(job[v].profile))' = NewestOf(OAuthOf(job[v].profile))
    BY <1>2, <2>1 DEF NewestOf, OAuthOf, RowsOf
  <2>3. pc'[v] = "update" => pc[v] = "update"
    BY <1>1
  <2>. QED BY <2>1, <2>2, <2>3, <1>2 DEF IInv, Race, Excused
<1>12. Refreshers'
  BY <1>1, <1>2, <1>6 DEF IInv, Refreshers, Holds
<1>13. Announced'
  <2>1. \A v \in Procs : pc[v] = "bump" => pc'[v] = "bump"
    BY <1>1
  <2>2. Summaries' = Summaries
    BY <1>2 DEF Summaries, Summary
  <2>. QED BY <2>1, <2>2, <1>2 DEF IInv, Announced
<1>14. Known'
  <2>1. \A id \in DOMAIN rows : Of(rows[id].secret, rows[id].profile)'
    BY <1>2 DEF IInv, Known, Of
  <2>2. \A v \in Procs : job'[v].op = "refresh" => Of(job[v].secret, job[v].profile)'
    BY <1>0, <1>1, <1>2, <1>4 DEF IInv, Known, Of
  <2>3. \A g \in good' : g.grant \in DOMAIN rows
    BY <1>1, <1>4 DEF IInv, Known
  <2>. QED BY <2>1, <2>2, <2>3, <1>2 DEF Known
<1>15. Latest'
  <2>1. Bounded(Reissued(s))'
    <3>1. PICK t : t = Reissued(s)
      OBVIOUS
    <3>2. \A g \in good' : g.grant = t.grant => g = t
      BY <3>1, <1>4
    <3>3. t.serial \in Nat
      BY <3>1, <1>1 DEF Secret
    <3>4. Bounded(t)'
      BY <3>2, <3>3 DEF Bounded
    <3>5. Reissued(s)' = Reissued(s)
      BY <1>2 DEF Reissued
    <3>. QED BY <3>1, <3>4, <3>5 DEF Bounded
  <2>2. ASSUME NEW id \in DOMAIN rows PROVE Bounded(rows[id].secret)'
    <3>1. PICK x \in Secret : x = rows[id].secret
      BY <1>7
    <3>. QED BY <3>1, <1>2, <1>5, <1>7 DEF Bounded
  <2>3. ASSUME NEW v \in Procs, job'[v].op = "refresh" PROVE Bounded(job[v].secret)'
    <3>1. CASE v = w
      BY <3>1, <2>1, <1>1, <1>2 DEF Bounded, Reissued
    <3>2. CASE v # w
      <4>1. PICK x \in Secret : x = job[v].secret
        BY <1>8
      <4>2. job'[v] = job[v] /\ Bounded(x)'
        BY <3>2, <2>3, <4>1, <1>1, <1>5, <1>8
      <4>. QED BY <4>1, <4>2 DEF Bounded
    <3>. QED BY <3>1, <3>2
  <2>. QED BY <2>2, <2>3, <1>2 DEF Latest
<1>16. ASSUME Tame PROVE Carried'
  <2> SUFFICES ASSUME NEW v \in Procs, Carries(v)' PROVE job'[v].secret \in good' /\ Sole(v)'
    BY DEF Carried
  <2>1. \A u \in Procs : Holds(u)' => Holds(u)
    BY <1>1, <1>6 DEF Holds
  <2>2. CASE v = w
    <3>1. ASSUME with.rotates, NEW u \in Procs \ {w}, Holds(u)' PROVE job'[u].secret # job'[w].secret
      BY <3>1, <2>1, <1>1, <1>8, <1>9
    <3>2. ASSUME with.rotates, NEW id \in DOMAIN rows PROVE rows[id].secret # job'[w].secret
      BY <3>2, <1>1, <1>7, <1>9
    <3>3. Sole(w)'
      BY <3>1, <3>2, <1>2 DEF Sole
    <3>. QED BY <2>2, <3>3, <1>1
  <2>3. CASE v # w
    <3>1. Carries(v) /\ Holds(v) /\ job'[v] = job[v]
      BY <2>3, <1>1 DEF Carries, Holds
    <3>2. job[v].secret \in good /\ Sole(v)
      BY <3>1, <1>16 DEF IInv, Carried
    <3>3. job'[v].secret \in good'
      <4>1. with.rotates => s # job[v].secret
        BY <2>3, <3>2, <1>0, <1>6 DEF Sole
      <4>. QED BY <4>1, <3>1, <3>2, <1>1, <1>3, <1>4
    <3>4. ASSUME with.rotates, NEW u \in Procs \ {v}, Holds(u)' PROVE job'[u].secret # job'[v].secret
      <4>1. CASE u = w
        BY <4>1, <3>1, <3>4, <1>1, <1>8, <1>9
      <4>2. CASE u # w
        BY <4>2, <3>1, <3>2, <3>4, <2>1, <1>1 DEF Sole
      <4>. QED BY <4>1, <4>2
    <3>. QED BY <3>1, <3>2, <3>3, <3>4, <1>2 DEF Sole
  <2>. QED BY <2>2, <2>3
<1>17. ASSUME Tame PROVE Strict'
  <2> SUFFICES ASSUME with.revokes, NEW v \in Procs, pc'[v] = "exchange" PROVE FALSE
    BY <1>2 DEF Strict
  <2>1. v # w /\ Holds(v)
    BY <1>1 DEF Holds
  <2>. QED BY <2>1, <1>6, <1>17, OneRefresher
<1>18. ASSUME Tame PROVE Usable'
  <2> SUFFICES ASSUME NEW q \in Profiles, NEW id \in NewestOf(RowsOf(q)), rows[id].kind = "oauth"
               PROVE  rows[id].secret \in good' \/ \E v \in Procs : Covers(v, q, id)'
    BY <1>2 DEF Usable, NewestOf, RowsOf
  <2>1. id \in DOMAIN rows /\ rows[id].profile = q
    BY DEF NewestOf, RowsOf
  <2>2. CASE rows[id].secret \in good /\ rows[id].secret # s
    BY <2>2, <1>1
  <2>3. CASE rows[id].secret = s
    <3>1. job[w].profile = q
      BY <2>1, <2>3, <1>0, <1>6 DEF IInv, Known, Of
    <3>. QED BY <3>1, <1>1 DEF Covers
  <2>4. CASE \E v \in Procs : Covers(v, q, id)
    BY <2>4, <1>1 DEF Covers
  <2>. QED BY <2>2, <2>3, <2>4, <1>18 DEF IInv, Usable
<1>19. Tame' => Tame
  BY <1>2 DEF Tame
<1>. QED BY <1>4, <1>10, <1>11, <1>12, <1>13, <1>14, <1>15, <1>16, <1>17, <1>18, <1>19 DEF IInv

(* The row that a refresh takes has the grant it carries, where nothing    *)
(* else writes.                                                            *)
LEMMA SelectInvariant == ASSUME IInv, NEW w \in Procs, Select(w) PROVE IInv'
<1>1. /\ pc' \in [Procs -> Steps] /\ job' \in [Procs -> Job(with.tries)]'
      /\ pc[w] = "select" /\ pc'[w] = "update"
      /\ job'[w].id \in NewestOf(OAuthOf(job[w].profile))
      /\ job'[w].op = job[w].op /\ job'[w].profile = job[w].profile
      /\ job'[w].secret = job[w].secret /\ job'[w].raced = job[w].raced
      /\ \A v \in Procs \ {w} : pc'[v] = pc[v] /\ job'[v] = job[v]
  BY Selecting DEF IInv
<1>2. UNCHANGED <<with, rows, gen, good, seen, due, view>>
  BY DEF Select, vault, watcher
<1>3. \A v \in Procs : /\ job'[v].op = job[v].op /\ job'[v].profile = job[v].profile
                       /\ job'[v].secret = job[v].secret /\ job'[v].raced = job[v].raced
                       /\ Holds(v)' <=> Holds(v)
                       /\ Carries(v)' <=> Carries(v)
  BY <1>1 DEF Holds, Carries
<1>4. TypeOK'
  <2>1. job'[w].id \in OAuthOf(job[w].profile)'
    BY <1>1, <1>2 DEF NewestOf, OAuthOf, RowsOf
  <2>2. \A v \in Procs \ {w} : pc'[v] = "update" => job'[v].id \in OAuthOf(job[v].profile)'
    BY <1>1, <1>2 DEF IInv, TypeOK, OAuthOf, RowsOf
  <2>. QED BY <1>1, <1>2, <2>1, <2>2 DEF IInv, TypeOK
<1>5. Race'
  <2> SUFFICES ASSUME NEW v \in Procs, job'[v].op = "refresh"
               PROVE  /\ \A id \in NewestOf(OAuthOf(job[v].profile))' : Excused(v, id)'
                      /\ pc'[v] = "update" => Excused(v, job[v].id)'
    BY DEF Race
  <2>1. NewestOf(OAuthOf(job[v].profile))' = NewestOf(OAuthOf(job[v].profile))
    BY <1>2, <1>3 DEF NewestOf, OAuthOf, RowsOf
  <2>2. \A id \in NewestOf(OAuthOf(job[v].profile)) : Excused(v, id)'
    BY <1>2, <1>3 DEF IInv, Race, Excused
  <2>3. pc'[v] = "update" => Excused(v, job[v].id)'
    <3>1. CASE v = w
      BY <3>1, <2>2, <1>1 DEF Excused
    <3>2. CASE v # w
      BY <3>2, <1>1, <1>2 DEF IInv, Race, Excused
    <3>. QED BY <3>1, <3>2
  <2>. QED BY <2>1, <2>2, <2>3
<1>6. Refreshers'
  BY <1>2, <1>3 DEF IInv, Refreshers
<1>7. Announced'
  <2>1. \A v \in Procs : pc[v] = "bump" => pc'[v] = "bump"
    BY <1>1
  <2>2. Summaries' = Summaries
    BY <1>2 DEF Summaries, Summary
  <2>. QED BY <2>1, <2>2, <1>2 DEF IInv, Announced
<1>8. Known' /\ OnePerGrant' /\ Latest'
  BY <1>2, <1>3 DEF IInv, Known, OnePerGrant, Latest, Of, Bounded
<1>9. ASSUME Tame PROVE Carried'
  BY <1>2, <1>3, <1>9 DEF IInv, Carried, Sole
<1>10. ASSUME Tame PROVE Strict'
  BY <1>1, <1>2, <1>10 DEF IInv, Strict
<1>11. ASSUME Tame PROVE Usable'
  <2> SUFFICES ASSUME NEW q \in Profiles, NEW id \in NewestOf(RowsOf(q)), rows[id].kind = "oauth"
               PROVE  rows[id].secret \in good \/ \E v \in Procs : Covers(v, q, id)'
    BY <1>2 DEF Usable, NewestOf, RowsOf
  <2>1. ASSUME NEW v \in Procs, Covers(v, q, id) PROVE Covers(v, q, id)'
    <3>1. CASE v = w
      <4>1. job[w].profile = q
        BY <2>1, <3>1, <1>1 DEF Covers
      <4>2. DOMAIN rows \subseteq Nat
        BY RowTypes DEF IInv, TypeOK
      <4>3. job'[w].id = id
        BY <4>1, <4>2, <1>1 DEF NewestOf, OAuthOf, RowsOf
      <4>. QED BY <3>1, <4>3, <1>1 DEF Covers
    <3>2. CASE v # w
      BY <2>1, <3>2, <1>1 DEF Covers
    <3>. QED BY <3>1, <3>2
  <2>. QED BY <2>1, <1>11 DEF IInv, Usable
<1>12. Tame' => Tame
  BY <1>2 DEF Tame
<1>. QED BY <1>4, <1>5, <1>6, <1>7, <1>8, <1>9, <1>10, <1>11, <1>12 DEF IInv

(* The row that a refresh writes becomes active, with the new secret.      *)
LEMMA Updating ==
  ASSUME IInv, NEW w \in Procs, Update(w)
  PROVE  LET k == job[w].id IN
         /\ k \in DOMAIN rows /\ rows[k].profile = job[w].profile
         /\ rows' \in Seq(Row) /\ DOMAIN rows' = DOMAIN rows
         /\ rows'[k].secret = job[w].secret /\ rows'[k].active
         /\ rows'[k].profile = rows[k].profile /\ rows'[k].kind = rows[k].kind
         /\ \A id \in DOMAIN rows \ {k} : rows'[id] = rows[id]
<1>1. PICK k : k = job[w].id
  OBVIOUS
<1>2. k \in DOMAIN rows /\ rows[k].profile = job[w].profile
  BY <1>1 DEF Update, GoTo, IInv, TypeOK, OAuthOf, RowsOf
<1>3. PICK s \in Secret : s = job[w].secret
  BY DEF IInv, TypeOK, Job
<1>4. PICK a \in BOOLEAN : a = TRUE
  OBVIOUS
<1>5. rows' = [rows EXCEPT ![k].secret = s, ![k].active = a, ![k].rev = @ + 1]
  BY <1>1, <1>3, <1>4 DEF Update
<1>6. rows \in Seq(Row)
  BY DEF IInv, TypeOK
<1>7. /\ rows' \in Seq(Row) /\ DOMAIN rows' = DOMAIN rows
      /\ rows'[k].secret = s /\ rows'[k].active = a
      /\ rows'[k].profile = rows[k].profile /\ rows'[k].kind = rows[k].kind
      /\ \A id \in DOMAIN rows \ {k} : rows'[id] = rows[id]
  BY <1>2, <1>5, <1>6, Changing
<1>. QED BY <1>1, <1>2, <1>3, <1>4, <1>7

(* The row of a refresh has the newest tokens of its grant again.          *)
LEMMA UpdateInvariant == ASSUME IInv, NEW w \in Procs, Update(w) PROVE IInv'
<1>0. PICK k : k = job[w].id
  OBVIOUS
<1>1. /\ k \in DOMAIN rows /\ rows[k].profile = job[w].profile
      /\ rows' \in Seq(Row) /\ DOMAIN rows' = DOMAIN rows
      /\ rows'[k].secret = job[w].secret /\ rows'[k].active
      /\ rows'[k].profile = rows[k].profile /\ rows'[k].kind = rows[k].kind
      /\ \A id \in DOMAIN rows \ {k} : rows'[id] = rows[id]
  BY <1>0, Updating
<1>2. /\ pc[w] = "update" /\ pc'[w] = "bump" /\ pc' \in [Procs -> Steps]
      /\ \A v \in Procs \ {w} : pc'[v] = pc[v]
      /\ UNCHANGED <<with, gen, job, good, seen, due, view>>
  BY DEF Update, GoTo, watcher, IInv, TypeOK, Steps
<1>3. \A id \in DOMAIN rows : rows'[id].profile = rows[id].profile /\ rows'[id].kind = rows[id].kind
  BY <1>1
<1>4. \A q \in Profiles : /\ (RowsOf(q))' = RowsOf(q) /\ (OAuthOf(q))' = OAuthOf(q)
                          /\ NewestOf(RowsOf(q))' = NewestOf(RowsOf(q))
                          /\ NewestOf(OAuthOf(q))' = NewestOf(OAuthOf(q))
  BY <1>1, <1>3 DEF RowsOf, OAuthOf, NewestOf
<1>5. Holds(w) /\ Carries(w) /\ job[w].op = "refresh"
  BY <1>2 DEF IInv, Refreshers, Holds, Carries
<1>6. \A v \in Procs : job[v].profile \in Profiles
  BY DEF IInv, TypeOK, Job
<1>7. TypeOK'
  <2>1. \A v \in Procs : pc'[v] = "update" =>
           pc[v] = "update" /\ job[v].id \in OAuthOf(job[v].profile)
    BY <1>2 DEF IInv, TypeOK
  <2>2. \A v \in Procs : pc'[v] = "update" => job'[v].id \in OAuthOf(job[v].profile)'
    BY <1>1, <1>2, <1>3, <2>1 DEF OAuthOf, RowsOf
  <2>3. job' \in [Procs -> Job(with.tries)]'
    BY <1>2 DEF IInv, TypeOK, Job
  <2>. QED BY <1>1, <1>2, <2>2, <2>3 DEF IInv, TypeOK
<1>8. Race'
  <2> SUFFICES ASSUME NEW v \in Procs, job[v].op = "refresh"
               PROVE  /\ \A id \in NewestOf(OAuthOf(job[v].profile)) : Excused(v, id)'
                      /\ pc'[v] = "update" => Excused(v, job[v].id)'
    BY <1>1, <1>2, <1>3 DEF Race, NewestOf, OAuthOf, RowsOf
  <2>1. \A id \in DOMAIN rows : Excused(v, id) => Excused(v, id)'
    BY <1>1, <1>2 DEF Excused
  <2>2. NewestOf(OAuthOf(job[v].profile)) \subseteq DOMAIN rows
    BY DEF NewestOf, OAuthOf, RowsOf
  <2>3. pc'[v] = "update" => pc[v] = "update" /\ job[v].id \in DOMAIN rows
    BY <1>2 DEF IInv, TypeOK, OAuthOf, RowsOf
  <2>4. Excused(v, job[v].id)' <=> (rows'[job[v].id].active \/ job[v].id \in job[v].raced)
    BY <1>2 DEF Excused
  <2>5. \A id \in DOMAIN rows : Excused(v, id)' <=> (rows'[id].active \/ id \in job[v].raced)
    BY <1>2 DEF Excused
  <2>. QED BY <2>1, <2>2, <2>3, <2>4, <2>5 DEF IInv, Race
<1>9. Refreshers' /\ Announced'
  BY <1>2 DEF IInv, Refreshers, Holds, Announced
<1>10. Known' /\ OnePerGrant' /\ Latest'
  <2>1. \A x, q : Of(x, q) => x.grant \in DOMAIN rows' /\ rows'[x.grant].profile = q
    BY <1>1, <1>3 DEF Of
  <2>2. Of(job[w].secret, job[w].profile) /\ Bounded(job[w].secret)
    BY <1>5 DEF IInv, Known, Latest
  <2>3. ASSUME NEW id \in DOMAIN rows
        PROVE  Of(rows[id].secret, rows[id].profile)' /\ Bounded(rows[id].secret)'
    <3>1. CASE id = k
      BY <3>1, <2>1, <2>2, <1>1, <1>2 DEF Of, Bounded
    <3>2. CASE id # k
      <4>1. rows'[id] = rows[id] /\ Of(rows[id].secret, rows[id].profile) /\ Bounded(rows[id].secret)
        BY <3>2, <1>1 DEF IInv, Known, Latest
      <4>. QED BY <4>1, <2>1, <1>2 DEF Of, Bounded
    <3>. QED BY <3>1, <3>2
  <2>4. ASSUME NEW v \in Procs, job[v].op = "refresh"
        PROVE  Of(job[v].secret, job[v].profile)' /\ Bounded(job[v].secret)'
    BY <2>1, <2>4, <1>2 DEF IInv, Known, Latest, Of, Bounded
  <2>5. (\A g \in good' : g.grant \in DOMAIN rows') /\ OnePerGrant'
    BY <1>1, <1>2 DEF IInv, Known, OnePerGrant
  <2>. QED BY <2>3, <2>4, <2>5, <1>1, <1>2 DEF Known, Latest
<1>11. ASSUME Tame PROVE Carried'
  <2> SUFFICES ASSUME NEW v \in Procs, Carries(v)' PROVE job[v].secret \in good /\ Sole(v)'
    BY <1>2 DEF Carried
  <2>1. v # w /\ Carries(v)
    BY <1>2 DEF Carries
  <2>2. job[v].secret \in good /\ Sole(v)
    BY <2>1, <1>11 DEF IInv, Carried
  <2>3. with.rotates => job[w].secret # job[v].secret
    BY <2>1, <2>2, <1>5 DEF Sole
  <2>4. \A u \in Procs : Holds(u)' => Holds(u)
    BY <1>2 DEF Holds
  <2>. QED BY <2>2, <2>3, <2>4, <1>1, <1>2 DEF Sole
<1>12. ASSUME Tame PROVE Strict'
  BY <1>2, <1>12 DEF IInv, Strict
<1>13. ASSUME Tame PROVE Usable'
  <2> SUFFICES ASSUME NEW q \in Profiles, NEW id \in NewestOf(RowsOf(q)), rows'[id].kind = "oauth"
               PROVE  rows'[id].secret \in good \/ \E v \in Procs : Covers(v, q, id)'
    BY <1>2, <1>4 DEF Usable
  <2>1. id \in DOMAIN rows
    BY DEF NewestOf, RowsOf
  <2>2. CASE id = k
    BY <2>2, <1>1, <1>5, <1>13 DEF IInv, Carried
  <2>3. CASE id # k
    <3>1. rows'[id] = rows[id] /\ (rows[id].secret \in good \/ \E v \in Procs : Covers(v, q, id))
      BY <2>1, <2>3, <1>1, <1>13 DEF IInv, Usable
    <3>2. ASSUME NEW v \in Procs, Covers(v, q, id) PROVE Covers(v, q, id)'
      BY <3>2, <2>3, <1>0, <1>2 DEF Covers
    <3>. QED BY <3>1, <3>2
  <2>. QED BY <2>2, <2>3
<1>14. Tame' => Tame
  BY <1>2 DEF Tame
<1>. QED BY <1>7, <1>8, <1>9, <1>10, <1>11, <1>12, <1>13, <1>14 DEF IInv

(* A busy statement leaves the rows alone.                                 *)
LEMMA BusyInvariant == ASSUME IInv, NEW w \in Procs, Busy(w) PROVE IInv'
<1>1. /\ with.faults # {} /\ pc[w] \in {"select", "update", "bump"} /\ Retry(w)
      /\ UNCHANGED <<with, rows, gen, good, seen, due, view>>
  BY DEF Busy, vault, watcher
<1>2. CASE Finish(w)
  <2>1. good' \subseteq Secret /\ OnePerGrant' /\ \A g \in good' : g.grant \in DOMAIN rows
    BY <1>1 DEF IInv, TypeOK, OnePerGrant, Known
  <2>2. \A x \in Secret : Bounded(x) => Bounded(x)'
    BY <1>1 DEF Bounded
  <2>3. ~Tame /\ UNCHANGED <<with, rows, watcher>>
    BY <1>1 DEF Tame, watcher
  <2>. QED BY <1>1, <1>2, <2>1, <2>2, <2>3, LeaveInvariant
<1>3. CASE ~Finish(w)
  <2>1. /\ pc' \in [Procs -> Steps] /\ job' \in [Procs -> Job(with.tries)]'
        /\ pc'[w] = "select" /\ job[w].op = "refresh"
        /\ job'[w].op = job[w].op /\ job'[w].profile = job[w].profile
        /\ job'[w].secret = job[w].secret /\ job'[w].raced = job[w].raced
        /\ \A v \in Procs \ {w} : pc'[v] = pc[v] /\ job'[v] = job[v]
    BY <1>1, <1>3, Retrying DEF IInv
  <2>2. \A v \in Procs : /\ job'[v].op = job[v].op /\ job'[v].profile = job[v].profile
                         /\ job'[v].secret = job[v].secret /\ job'[v].raced = job[v].raced
    BY <2>1
  <2>3. TypeOK'
    <3>1. \A v \in Procs : pc'[v] = "update" => job'[v].id \in OAuthOf(job[v].profile)'
      BY <1>1, <2>1 DEF IInv, TypeOK, OAuthOf, RowsOf
    <3>. QED BY <1>1, <2>1, <3>1 DEF IInv, TypeOK
  <2>4. Race'
    <3> SUFFICES ASSUME NEW v \in Procs, job'[v].op = "refresh"
                 PROVE  /\ \A id \in NewestOf(OAuthOf(job[v].profile))' : Excused(v, id)'
                        /\ pc'[v] = "update" => Excused(v, job[v].id)'
      BY DEF Race
    <3>1. NewestOf(OAuthOf(job[v].profile))' = NewestOf(OAuthOf(job[v].profile))
      BY <1>1, <2>2 DEF NewestOf, OAuthOf, RowsOf
    <3>2. \A id \in NewestOf(OAuthOf(job[v].profile)) : Excused(v, id)'
      BY <1>1, <2>2 DEF IInv, Race, Excused
    <3>3. pc'[v] = "update" => Excused(v, job[v].id)'
      BY <1>1, <2>1 DEF IInv, Race, Excused
    <3>. QED BY <3>1, <3>2, <3>3
  <2>5. Refreshers'
    BY <1>1, <2>1 DEF IInv, Refreshers, Holds
  <2>6. Announced'
    BY <1>1 DEF IInv, Announced
  <2>7. Known' /\ OnePerGrant' /\ Latest'
    BY <1>1, <2>2 DEF IInv, Known, OnePerGrant, Latest, Of, Bounded
  <2>8. ~Tame'
    BY <1>1 DEF Tame
  <2>. QED BY <2>3, <2>4, <2>5, <2>6, <2>7, <2>8 DEF IInv
<1>. QED BY <1>2, <1>3

(* The watcher, and steps that change nothing.                             *)
LEMMA WatchInvariant ==
  ASSUME IInv, UNCHANGED <<with, rows, gen, pc, job, good>>,
         \/ seen' = gen /\ due' = TRUE /\ view' = view
         \/ seen' = seen /\ due' = FALSE /\ view' = Summaries
         \/ UNCHANGED watcher
  PROVE  IInv'
<1>1. Summaries' = Summaries
  BY DEF Summaries, Summary
<1>2. TypeOK'
  <2>1. \A v \in Procs : pc'[v] = "update" => job'[v].id \in OAuthOf(job[v].profile)'
    BY DEF IInv, TypeOK, OAuthOf, RowsOf
  <2>2. seen' \in Nat /\ due' \in BOOLEAN
    BY DEF IInv, TypeOK, watcher
  <2>3. view' \in Summarized
    BY SummariesType DEF IInv, TypeOK, Summarized, watcher
  <2>4. job' \in [Procs -> Job(with.tries)]'
    BY DEF IInv, TypeOK, Job
  <2>. QED BY <2>1, <2>2, <2>3, <2>4 DEF IInv, TypeOK, Summarized
<1>3. Announced'
  <2>1. gen \in Nat
    BY DEF IInv, TypeOK
  <2>. QED BY <1>1, <2>1 DEF IInv, Announced, watcher
<1>4. Race' /\ Refreshers'
  BY DEF IInv, Race, Excused, NewestOf, OAuthOf, RowsOf, Refreshers, Holds
<1>5. Known' /\ OnePerGrant' /\ Latest'
  BY DEF IInv, Known, OnePerGrant, Latest, Of, Bounded
<1>6. ASSUME Tame PROVE Carried' /\ Strict'
  BY <1>6 DEF IInv, Carried, Carries, Sole, Holds, Strict
<1>7. ASSUME Tame PROVE Usable'
  BY <1>7 DEF IInv, Usable, Covers, NewestOf, RowsOf
<1>8. Tame' => Tame
  BY DEF Tame
<1>. QED BY <1>2, <1>3, <1>4, <1>5, <1>6, <1>7, <1>8 DEF IInv

(* An empty vault has nothing to keep.                                     *)
LEMMA InitInvariant == ASSUME Init PROVE IInv
<1>1. /\ with \in Settings /\ with.tries \in Nat
      /\ rows = <<>> /\ DOMAIN rows = {} /\ Len(rows) = 0
  BY Constants DEF Init
<1>2. NoJob \in Job(with.tries) /\ NoJob.op = "none"
  BY <1>1, NoJobType DEF NoJob
<1>3. /\ pc \in [Procs -> Steps] /\ job \in [Procs -> Job(with.tries)]
      /\ \A w \in Procs : pc[w] = "idle" /\ job[w].op = "none"
  BY <1>2 DEF Init, Steps
<1>4. view = Summaries
  BY <1>1 DEF Init, Summaries
<1>5. TypeOK
  <2>1. rows \in Seq(Row)
    BY <1>1
  <2>2. view \in Summarized
    BY <2>1, <1>4, SummariesType
  <2>3. gen \in Nat /\ seen \in Nat /\ due \in BOOLEAN /\ good \subseteq Secret
    BY DEF Init
  <2>. QED BY <1>1, <1>3, <2>1, <2>2, <2>3 DEF TypeOK, Summarized
<1>6. Race /\ Refreshers /\ Announced
  BY <1>3, <1>4 DEF Init, Race, Refreshers, Holds, Announced
<1>7. Known /\ OnePerGrant /\ Latest
  BY <1>1, <1>3 DEF Init, Known, OnePerGrant, Latest
<1>8. Carried /\ Strict /\ Usable
  BY <1>1, <1>3 DEF Carried, Carries, Strict, Usable, NewestOf, RowsOf
<1>. QED BY <1>5, <1>6, <1>7, <1>8 DEF IInv

-------------------------------------------------------------------------------
(* The strengthening is an invariant.                                      *)
THEOREM Invariance == Spec => []IInv
<1>1. IInv /\ [Next]_vars => IInv'
  <2> SUFFICES ASSUME IInv, [Next]_vars PROVE IInv'
    OBVIOUS
  <2>1. ASSUME NEW w \in Procs, Begin(w) PROVE IInv'
    <3>1. ASSUME NEW p \in Profiles, NEW kind \in {"api_key", "oauth"}, Put(w, p, kind) PROVE IInv'
      BY <3>1, PutInvariant
    <3>2. ASSUME NEW p \in Profiles, ReadForRefresh(w, p) PROVE IInv'
      BY <3>2, TakeInvariant
    <3>3. ASSUME NEW id \in DOMAIN rows, Disable(w, id) PROVE IInv'
      BY <3>3, DisableInvariant
    <3>. QED BY <2>1, <3>1, <3>2, <3>3 DEF Begin
  <2>2. ASSUME NEW w \in Procs, Proceed(w) PROVE IInv'
    BY <2>2, ExchangeInvariant, ExchangeFailsInvariant, SelectInvariant, UpdateInvariant,
       BumpInvariant DEF Proceed
  <2>3. ASSUME NEW w \in Procs, Busy(w) \/ Crash(w) PROVE IInv'
    BY <2>3, BusyInvariant, CrashInvariant
  <2>4. CASE Subscribe \/ Poll
    BY <2>4, WatchInvariant DEF Subscribe, Poll, vault, process
  <2>5. CASE List
    BY <2>5, WatchInvariant DEF List, vault, process
  <2>6. CASE UNCHANGED vars
    BY <2>6, WatchInvariant DEF vars, vault, process
  <2>. QED BY <2>1, <2>2, <2>3, <2>4, <2>5, <2>6 DEF Next
<1>. QED BY InitInvariant, <1>1, PTL DEF Spec

(* Rows, operations, grants and what the watcher has are of their types,   *)
(* and the row that a refresh writes is an oauth row of its profile.       *)
THEOREM TypeCorrect == Spec => []TypeOK
  BY Invariance, PTL DEF IInv

(* Where nothing fails, no interleaving of writers hides a change from a   *)
(* watcher that has followed the generation.                               *)
THEOREM QuietViewAlwaysCurrent == Spec => []QuietViewIsCurrent
<1>1. IInv => QuietViewIsCurrent
  BY DEF IInv, Announced, QuietViewIsCurrent, ViewIsCurrent
<1>. QED BY Invariance, <1>1, PTL

(* Where nothing fails, and one process refreshes at an endpoint that      *)
(* revokes, the newest grant of each profile can be refreshed, or will be  *)
(* once the refresh under way has stored its answer.                       *)
THEOREM GrantAlwaysUsable == Spec => []GrantUsable
<1>1. IInv => GrantUsable
  <2> SUFFICES ASSUME IInv, Tame, NEW p \in Profiles, NEW id \in NewestOf(RowsOf(p)),
                      rows[id].kind = "oauth"
               PROVE  \/ rows[id].secret \in good
                      \/ \E w \in Procs : /\ pc[w] \in {"select", "update"}
                                          /\ job[w].profile = p /\ job[w].secret \in good
    BY DEF GrantUsable, Tame
  <2>1. ASSUME NEW w \in Procs, Covers(w, p, id)
        PROVE  /\ pc[w] \in {"select", "update"}
               /\ job[w].profile = p /\ job[w].secret \in good
    <3>1. Carries(w)
      BY <2>1 DEF Covers, Carries
    <3>2. job[w].secret \in good
      BY <3>1 DEF IInv, Carried
    <3>3. job[w].profile = p
      BY <2>1 DEF Covers, IInv, TypeOK, OAuthOf, NewestOf, RowsOf
    <3>. QED BY <3>1, <3>2, <3>3 DEF Carries
  <2>. QED BY <2>1 DEF IInv, Usable
<1>. QED BY Invariance, <1>1, PTL

(* A refresh revives only what was disabled while it was under way.        *)
THEOREM RevivesOnlyByRace == Spec => ReviveOnlyByRace
<1> DEFINE A == \A id \in DOMAIN rows : Revived(id) =>
                   \E w \in Procs : pc[w] = "update" /\ job[w].id = id /\ id \in job[w].raced
<1>1. IInv /\ [Next]_vars => [A]_vars
  <2> SUFFICES ASSUME IInv, Next, NEW id \in DOMAIN rows, Revived(id)
               PROVE  \E w \in Procs : pc[w] = "update" /\ job[w].id = id /\ id \in job[w].raced
    OBVIOUS
  <2>1. ~rows[id].active /\ rows'[id].active
    BY DEF Revived
  <2>2. ASSUME NEW w \in Procs, Update(w)
        PROVE  pc[w] = "update" /\ job[w].id = id /\ id \in job[w].raced
    <3>1. pc[w] = "update"
      BY <2>2 DEF Update, GoTo
    <3>2. job[w].id = id
      BY <2>1, <2>2, Updating
    <3>3. job[w].op = "refresh"
      BY <3>1 DEF IInv, Refreshers, Holds
    <3>. QED BY <3>1, <3>2, <3>3, <2>1 DEF IInv, Race, Excused
  <2>3. CASE rows' = rows
    BY <2>1, <2>3
  <2>4. ASSUME NEW w \in Procs, NEW p \in Profiles, NEW kind \in {"api_key", "oauth"}, Put(w, p, kind)
        PROVE  FALSE
    <3>1. PutEffect(w, p, kind, Len(rows) + 1)
      BY <2>4, Putting DEF IInv
    <3>. QED BY <3>1, <2>1 DEF PutEffect
  <2>5. ASSUME NEW w \in Procs, NEW k \in DOMAIN rows, Disable(w, k) PROVE FALSE
    <3>1. ~rows'[k].active /\ (id # k => rows'[id].active = rows[id].active)
      BY <2>5, Disabling DEF IInv
    <3>. QED BY <3>1, <2>1
  <2>6. ASSUME NEW w \in Procs, Begin(w) PROVE rows' = rows
    <3>1. PICK p \in Profiles : ReadForRefresh(w, p)
      BY <2>4, <2>5, <2>6 DEF Begin
    <3>. QED BY <3>1 DEF ReadForRefresh, Take, vault
  <2>7. ASSUME NEW w \in Procs, Exchange(w) \/ ExchangeFails(w) \/ Select(w) \/ Bump(w) \/ Busy(w) \/ Crash(w)
        PROVE  rows' = rows
    BY <2>7 DEF Exchange, ExchangeFails, Select, Bump, Busy, Crash, vault
  <2>8. CASE Subscribe \/ Poll \/ List
    BY <2>3, <2>8 DEF Subscribe, Poll, List, vault
  <2>. QED BY <2>2, <2>3, <2>6, <2>7, <2>8 DEF Next, Proceed
<1>. QED BY Invariance, <1>1, PTL DEF Spec, ReviveOnlyByRace

-------------------------------------------------------------------------------
(* Where a refresh does update the row that it loaded.                     *)

(* Nobody logs in to a profile while a refresh of it is under way.         *)
LoginApart ==
    \A id \in DOMAIN rows' \ DOMAIN rows : rows'[id].kind = "oauth" =>
        \A v \in Procs : Refreshing(v) => job[v].profile # rows'[id].profile

(* Every row has the grant of its own login, and a refresh the grant of    *)
(* the newest oauth row of its profile, which is the one it will write.    *)
Owns(v) == Refreshing(v) =>
    /\ job[v].secret.grant \in NewestOf(OAuthOf(job[v].profile))
    /\ pc[v] = "update" => job[v].id = job[v].secret.grant
Owned == RefreshUpdatesItsRow /\ \A v \in Procs : Owns(v)

(* There is one newest row.                                                *)
LEMMA OneNewest ==
  ASSUME TypeOK, NEW p, NEW j \in NewestOf(OAuthOf(p)), NEW k \in NewestOf(OAuthOf(p))
  PROVE  j = k
<1>1. j \in DOMAIN rows /\ k \in DOMAIN rows /\ j <= k /\ k <= j
  BY DEF NewestOf, OAuthOf, RowsOf
<1>2. j \in Nat /\ k \in Nat
  BY <1>1, RowTypes DEF TypeOK
<1>. QED BY <1>1, <1>2

(* A step that inserts nothing, and leaves each refresh with its grant.    *)
LEMMA OwnedFrame ==
  ASSUME Owned, DOMAIN rows' = DOMAIN rows,
         \A id \in DOMAIN rows : /\ rows'[id].profile = rows[id].profile
                                 /\ rows'[id].kind = rows[id].kind
                                 /\ rows'[id].secret.grant = id,
         \A v \in Procs : job'[v].op = "refresh" =>
            /\ job'[v].secret.grant \in NewestOf(OAuthOf(job'[v].profile))
            /\ pc'[v] = "update" => job'[v].id = job'[v].secret.grant
  PROVE  Owned'
<1>1. RefreshUpdatesItsRow'
  BY DEF RefreshUpdatesItsRow
<1>2. \A p : NewestOf(OAuthOf(p))' = NewestOf(OAuthOf(p))
  BY DEF NewestOf, OAuthOf, RowsOf
<1>3. ASSUME NEW v \in Procs PROVE Owns(v)'
  <2>1. NewestOf(OAuthOf(job'[v].profile)) = NewestOf(OAuthOf(job[v].profile))'
    BY <1>2 DEF NewestOf, OAuthOf, RowsOf
  <2>. QED BY <2>1 DEF Owns, Refreshing
<1>. QED BY <1>1, <1>3 DEF Owned

(* ... and the rows as they are: w alone moves, in or out of a refresh.    *)
LEMMA OwnedMove ==
  ASSUME Owned, rows' = rows, NEW w \in Procs,
         \A v \in Procs \ {w} : pc'[v] = pc[v] /\ job'[v] = job[v],
         job'[w].op = "refresh" =>
            /\ job'[w].secret.grant \in NewestOf(OAuthOf(job'[w].profile))
            /\ pc'[w] = "update" => job'[w].id = job'[w].secret.grant
  PROVE  Owned'
<1>1. \A id \in DOMAIN rows : /\ rows'[id].profile = rows[id].profile
                              /\ rows'[id].kind = rows[id].kind
                              /\ rows'[id].secret.grant = id
  BY DEF Owned, RefreshUpdatesItsRow
<1>2. \A v \in Procs : job'[v].op = "refresh" =>
            /\ job'[v].secret.grant \in NewestOf(OAuthOf(job'[v].profile))
            /\ pc'[v] = "update" => job'[v].id = job'[v].secret.grant
  BY DEF Owned, Owns, Refreshing
<1>. QED BY <1>1, <1>2, OwnedFrame

(* A login to a profile that is not being refreshed, or an API key.        *)
LEMMA PutOwned ==
  ASSUME IInv, Owned, LoginApart, NEW w \in Procs, NEW p \in Profiles,
         NEW kind \in {"api_key", "oauth"}, Put(w, p, kind)
  PROVE  Owned'
<1>1. PICK n : PutEffect(w, p, kind, n)
  BY Putting DEF IInv
<1>2. /\ n \notin DOMAIN rows /\ DOMAIN rows' = DOMAIN rows \cup {n}
      /\ \A id \in DOMAIN rows : id < n /\ rows'[id] = rows[id]
      /\ rows'[n].profile = p /\ rows'[n].kind = kind
      /\ rows'[n].secret = [grant |-> n, serial |-> 0]
      /\ job'[w].op = "put"
      /\ \A v \in Procs \ {w} : pc'[v] = pc[v] /\ job'[v] = job[v]
  BY <1>1 DEF PutEffect
<1>3. RefreshUpdatesItsRow'
  <2> SUFFICES ASSUME NEW id \in DOMAIN rows' PROVE rows'[id].secret.grant = id
    BY DEF RefreshUpdatesItsRow
  <2>1. CASE id = n
    BY <2>1, <1>2
  <2>2. CASE id \in DOMAIN rows
    BY <2>2, <1>2 DEF Owned, RefreshUpdatesItsRow
  <2>. QED BY <2>1, <2>2, <1>2
<1>4. ASSUME NEW v \in Procs, job'[v].op = "refresh" PROVE Owns(v)'
  <2>1. v # w /\ pc'[v] = pc[v] /\ job'[v] = job[v]
    BY <1>2, <1>4
  <2>2. PICK q : q = job[v].profile
    OBVIOUS
  <2>3. kind = "oauth" => p # q
    BY <1>2, <1>4, <2>1, <2>2 DEF LoginApart, Refreshing
  <2>4. OAuthOf(q)' = OAuthOf(q)
    <3>1. RowsOf(q)' \ {n} = RowsOf(q) /\ (n \in RowsOf(q)' => p = q)
      BY <1>2 DEF RowsOf
    <3>2. \A id \in RowsOf(q) : rows'[id].kind = rows[id].kind
      BY <1>2 DEF RowsOf
    <3>3. ~(n \in RowsOf(q)' /\ rows'[n].kind = "oauth")
      BY <3>1, <1>2, <2>3
    <3>. QED BY <3>1, <3>2, <3>3 DEF OAuthOf
  <2>5. NewestOf(OAuthOf(q))' = NewestOf(OAuthOf(q))
    BY <2>4 DEF NewestOf
  <2>6. /\ job[v].secret.grant \in NewestOf(OAuthOf(q))
        /\ pc[v] = "update" => job[v].id = job[v].secret.grant
    BY <1>4, <2>1, <2>2 DEF Owned, Owns, Refreshing
  <2>7. NewestOf(OAuthOf(job[v].profile))' = NewestOf(OAuthOf(q))
    BY <2>1, <2>2, <2>5 DEF NewestOf, OAuthOf, RowsOf
  <2>. QED BY <2>1, <2>6, <2>7 DEF Owns
<1>. QED BY <1>3, <1>4 DEF Owned, Owns, Refreshing

(* Every other step.                                                       *)
LEMMA StepOwned ==
  ASSUME IInv, Owned, LoginApart, [Next]_vars
  PROVE  Owned'
<1>0. TypeOK
  BY DEF IInv
<1>1. ASSUME NEW w \in Procs, NEW p \in Profiles, NEW kind \in {"api_key", "oauth"}, Put(w, p, kind)
      PROVE  Owned'
  BY <1>1, PutOwned
<1>2. ASSUME NEW w \in Procs, NEW k \in DOMAIN rows, Disable(w, k) PROVE Owned'
  <2>1. /\ DOMAIN rows' = DOMAIN rows
        /\ \A id \in DOMAIN rows :
              /\ rows'[id].secret = rows[id].secret /\ rows'[id].profile = rows[id].profile
              /\ rows'[id].kind = rows[id].kind
        /\ job'[w].op = "disable"
        /\ \A v \in Procs \ {w} :
              /\ pc'[v] = pc[v]
              /\ job'[v].op = job[v].op /\ job'[v].profile = job[v].profile
              /\ job'[v].secret = job[v].secret /\ job'[v].id = job[v].id
    <3>1. DOMAIN rows' = DOMAIN rows /\ job'[w].op = "disable"
      BY <1>0, <1>2, Disabling, Zenon
    <3>2. ASSUME NEW id \in DOMAIN rows
          PROVE  /\ rows'[id].secret = rows[id].secret /\ rows'[id].profile = rows[id].profile
                 /\ rows'[id].kind = rows[id].kind
      BY <1>0, <1>2, Disabling, Zenon
    <3>3. ASSUME NEW v \in Procs \ {w}
          PROVE  /\ pc'[v] = pc[v]
                 /\ job'[v].op = job[v].op /\ job'[v].profile = job[v].profile
                 /\ job'[v].secret = job[v].secret /\ job'[v].id = job[v].id
      BY <1>0, <1>2, Disabling, Zenon
    <3>. QED BY <3>1, <3>2, <3>3
  <2>2. \A id \in DOMAIN rows : rows'[id].secret.grant = id
    BY <2>1 DEF Owned, RefreshUpdatesItsRow
  <2>3. ASSUME NEW v \in Procs, job'[v].op = "refresh"
        PROVE  /\ job'[v].secret.grant \in NewestOf(OAuthOf(job'[v].profile))
               /\ pc'[v] = "update" => job'[v].id = job'[v].secret.grant
    <3>1. v # w
      BY <2>1, <2>3
    <3>2. /\ pc'[v] = pc[v] /\ job[v].op = "refresh" /\ job'[v].profile = job[v].profile
          /\ job'[v].secret = job[v].secret /\ job'[v].id = job[v].id
      BY <2>1, <2>3, <3>1
    <3>. QED BY <3>2 DEF Owned, Owns, Refreshing
  <2>. QED BY <2>1, <2>2, <2>3, OwnedFrame
<1>3. ASSUME NEW w \in Procs, NEW p \in Profiles, ReadForRefresh(w, p) PROVE Owned'
  <2>1. PICK k \in NewestOf(RowsOf(p)) : Take(w, p, k)
    BY <1>3 DEF ReadForRefresh
  <2>2. k \in DOMAIN rows
    BY DEF NewestOf, RowsOf
  <2>3. /\ rows[k].kind = "oauth" /\ pc'[w] = "exchange"
        /\ job'[w].profile = p /\ job'[w].secret = rows[k].secret
        /\ \A v \in Procs \ {w} : pc'[v] = pc[v] /\ job'[v] = job[v]
    BY <1>0, <2>1, <2>2, Taking
  <2>4. k \in NewestOf(OAuthOf(p))
    BY <2>3 DEF NewestOf, OAuthOf
  <2>5. rows[k].secret.grant = k
    BY <2>2 DEF Owned, RefreshUpdatesItsRow
  <2>6. rows' = rows
    BY <2>1 DEF Take, vault
  <2>. QED BY <2>3, <2>4, <2>5, <2>6, OwnedMove
<1>4. ASSUME NEW w \in Procs, Exchange(w) PROVE Owned'
  <2>1. /\ pc[w] = "exchange" /\ pc'[w] = "select"
        /\ job'[w].op = job[w].op /\ job'[w].profile = job[w].profile
        /\ job'[w].secret = Reissued(job[w].secret)
        /\ \A v \in Procs \ {w} : pc'[v] = pc[v] /\ job'[v] = job[v]
    BY <1>0, <1>4, Exchanging
  <2>2. rows' = rows
    BY <1>4 DEF Exchange, vault
  <2>3. Reissued(job[w].secret).grant = job[w].secret.grant
    <3>1. job[w].secret \in Secret
      BY <1>0 DEF TypeOK, Job
    <3>. QED BY <3>1 DEF Reissued, Secret
  <2>4. job'[w].op = "refresh" => job'[w].secret.grant \in NewestOf(OAuthOf(job'[w].profile))
    BY <2>1, <2>3 DEF Owned, Owns, Refreshing
  <2>. QED BY <2>1, <2>2, <2>4, OwnedMove
<1>5. ASSUME NEW w \in Procs, Select(w) PROVE Owned'
  <2>1. /\ job'[w].id \in NewestOf(OAuthOf(job[w].profile))
        /\ job'[w].op = job[w].op /\ job'[w].profile = job[w].profile
        /\ job'[w].secret = job[w].secret
        /\ \A v \in Procs \ {w} : pc'[v] = pc[v] /\ job'[v] = job[v]
    BY <1>0, <1>5, Selecting
  <2>2. rows' = rows
    BY <1>5 DEF Select, vault
  <2>3. ASSUME job'[w].op = "refresh"
        PROVE  /\ job'[w].secret.grant \in NewestOf(OAuthOf(job'[w].profile))
               /\ job'[w].id = job'[w].secret.grant
    <3>1. job'[w].secret.grant \in NewestOf(OAuthOf(job[w].profile))
      BY <2>1, <2>3 DEF Owned, Owns, Refreshing
    <3>2. job'[w].id = job'[w].secret.grant
      BY <1>0, <2>1, <3>1, OneNewest
    <3>. QED BY <2>1, <3>1, <3>2
  <2>. QED BY <2>1, <2>2, <2>3, OwnedMove
<1>6. ASSUME NEW w \in Procs, Update(w) PROVE Owned'
  <2>1. PICK k : k = job[w].id
    OBVIOUS
  <2>2. /\ k \in DOMAIN rows /\ DOMAIN rows' = DOMAIN rows
        /\ rows'[k].secret = job[w].secret
        /\ rows'[k].profile = rows[k].profile /\ rows'[k].kind = rows[k].kind
        /\ \A id \in DOMAIN rows \ {k} : rows'[id] = rows[id]
    BY <1>6, <2>1, Updating
  <2>3. pc[w] = "update" /\ job' = job /\ pc'[w] = "bump"
        /\ \A v \in Procs \ {w} : pc'[v] = pc[v]
    BY <1>0, <1>6 DEF Update, GoTo, TypeOK
  <2>4. job[w].secret.grant = k
    <3>1. job[w].op = "refresh"
      BY <2>3 DEF IInv, Refreshers, Holds
    <3>. QED BY <2>1, <2>3, <3>1 DEF Owned, Owns, Refreshing
  <2>5. \A id \in DOMAIN rows : rows'[id].secret.grant = id
    BY <2>2, <2>4 DEF Owned, RefreshUpdatesItsRow
  <2>6. \A v \in Procs : job'[v].op = "refresh" =>
            /\ job'[v].secret.grant \in NewestOf(OAuthOf(job'[v].profile))
            /\ pc'[v] = "update" => job'[v].id = job'[v].secret.grant
    BY <2>3 DEF Owned, Owns, Refreshing
  <2>7. \A id \in DOMAIN rows : rows'[id].profile = rows[id].profile /\ rows'[id].kind = rows[id].kind
    BY <2>2
  <2>. QED BY <2>2, <2>5, <2>6, <2>7, OwnedFrame
<1>7. ASSUME NEW w \in Procs, Finish(w), rows' = rows, with' = with PROVE Owned'
  <2>1. job'[w].op = "none" /\ \A v \in Procs \ {w} : pc'[v] = pc[v] /\ job'[v] = job[v]
    BY <1>0, <1>7, Finishing
  <2>. QED BY <1>7, <2>1, OwnedMove
<1>8. ASSUME NEW w \in Procs, ExchangeFails(w) \/ Bump(w) \/ Crash(w) PROVE Owned'
  <2>1. Finish(w) /\ rows' = rows /\ with' = with
    BY <1>8 DEF ExchangeFails, Bump, Crash, GoTo, Finish, vault
  <2>. QED BY <2>1, <1>7
<1>9. ASSUME NEW w \in Procs, Busy(w) PROVE Owned'
  <2>1. Retry(w) /\ rows' = rows /\ with' = with
    BY <1>9 DEF Busy, vault
  <2>2. CASE ~Finish(w)
    <3>1. /\ pc'[w] = "select" /\ job[w].op = "refresh"
          /\ job'[w].profile = job[w].profile /\ job'[w].secret = job[w].secret
          /\ \A v \in Procs \ {w} : pc'[v] = pc[v] /\ job'[v] = job[v]
      BY <1>0, <2>1, <2>2, Retrying
    <3>2. job'[w].secret.grant \in NewestOf(OAuthOf(job'[w].profile))
      BY <3>1 DEF Owned, Owns, Refreshing
    <3>. QED BY <2>1, <3>1, <3>2, OwnedMove
  <2>. QED BY <2>1, <2>2, <1>7
<1>10. CASE Subscribe \/ Poll \/ List \/ UNCHANGED vars
  <2>1. rows' = rows /\ pc' = pc /\ job' = job
    BY <1>10 DEF Subscribe, Poll, List, vars, vault, process
  <2>2. \A id \in DOMAIN rows : rows'[id].secret.grant = id
    BY <2>1 DEF Owned, RefreshUpdatesItsRow
  <2>3. \A v \in Procs : job'[v].op = "refresh" =>
            /\ job'[v].secret.grant \in NewestOf(OAuthOf(job'[v].profile))
            /\ pc'[v] = "update" => job'[v].id = job'[v].secret.grant
    BY <2>1 DEF Owned, Owns, Refreshing
  <2>. QED BY <2>1, <2>2, <2>3, OwnedFrame
<1>. QED
  BY <1>1, <1>2, <1>3, <1>4, <1>5, <1>6, <1>8, <1>9, <1>10 DEF Next, Begin, Proceed

(* No rows, no refresh.                                                    *)
LEMMA InitOwned == ASSUME Init PROVE Owned
<1>1. DOMAIN rows = {} /\ \A v \in Procs : job[v].op = "none"
  BY DEF Init, NoJob
<1>. QED BY <1>1 DEF Owned, Owns, Refreshing, RefreshUpdatesItsRow

(* What the run VaultLogin violates holds whenever nobody logs in to a     *)
(* profile while a refresh of it is under way: a refresh then updates the  *)
(* row it loaded, whatever other refreshes, imports, disables, crashes,    *)
(* busy statements and lost answers there are.                             *)
THEOREM ApartUpdatesItsRow == Spec /\ [][LoginApart]_vars => []RefreshUpdatesItsRow
<1>1. IInv /\ Owned /\ [Next]_vars /\ [LoginApart]_vars => Owned'
  <2> SUFFICES ASSUME IInv, Owned, [Next]_vars, [LoginApart]_vars PROVE Owned'
    OBVIOUS
  <2>1. CASE LoginApart
    BY <2>1, StepOwned
  <2>2. CASE UNCHANGED vars
    <3>1. rows' = rows
      BY <2>2 DEF vars, vault
    <3>2. LoginApart
      BY <3>1 DEF LoginApart
    <3>. QED BY <3>2, StepOwned
  <2>. QED BY <2>1, <2>2
<1>2. Owned => RefreshUpdatesItsRow
  BY DEF Owned
<1>3. Init => Owned
  BY InitOwned
<1>. QED BY Invariance, <1>1, <1>2, <1>3, PTL DEF Spec

(* A process that is idle has no operation.                                *)
Idle == \A w \in Procs : pc[w] = "idle" => job[w].op = "none"

(* The single process of docs/auth.md never gets in its own way: with the  *)
(* vault to itself, a refresh updates the row it loaded.                   *)
THEOREM SingleProcessUpdatesItsRow ==
  ASSUME NEW w, Procs = {w}
  PROVE  Spec => []RefreshUpdatesItsRow
<1>1. Init => Idle
  <2>1. NoJob.op = "none"
    BY DEF NoJob
  <2>. QED BY <2>1 DEF Init, Idle
<1>2. IInv /\ Idle /\ [Next]_vars => Idle'
  <2> SUFFICES ASSUME IInv, Idle, [Next]_vars PROVE Idle'
    OBVIOUS
  <2>0. TypeOK /\ w \in Procs
    BY DEF IInv
  <2> SUFFICES ASSUME pc'[w] = "idle" PROVE job'[w].op = "none"
    BY DEF Idle
  <2>1. ASSUME Finish(w), with' = with PROVE job'[w].op = "none"
    BY <2>0, <2>1, Finishing
  <2>2. CASE Begin(w)
    <3>1. ASSUME NEW p \in Profiles, NEW kind \in {"api_key", "oauth"}, Put(w, p, kind) PROVE FALSE
      <4>1. PutEffect(w, p, kind, Len(rows) + 1)
        BY <2>0, <3>1, Putting
      <4>. QED BY <4>1 DEF PutEffect
    <3>2. ASSUME NEW p \in Profiles, ReadForRefresh(w, p) PROVE FALSE
      <4>1. PICK k \in NewestOf(RowsOf(p)) : Take(w, p, k)
        BY <3>2 DEF ReadForRefresh
      <4>2. k \in DOMAIN rows
        BY DEF NewestOf, RowsOf
      <4>. QED BY <2>0, <4>1, <4>2, Taking
    <3>3. ASSUME NEW id \in DOMAIN rows, Disable(w, id) PROVE FALSE
      BY <2>0, <3>3, Disabling
    <3>. QED BY <2>2, <3>1, <3>2, <3>3 DEF Begin
  <2>3. CASE Exchange(w) \/ Select(w) \/ Update(w)
    BY <2>0, <2>3 DEF Exchange, Select, Update, GoTo, TypeOK
  <2>4. CASE ExchangeFails(w) \/ Bump(w) \/ Crash(w)
    <3>1. Finish(w) /\ with' = with
      BY <2>4 DEF ExchangeFails, Bump, Crash, GoTo, Finish
    <3>. QED BY <3>1, <2>1
  <2>5. CASE Busy(w)
    <3>1. Retry(w) /\ with' = with
      BY <2>5 DEF Busy
    <3>2. CASE ~Finish(w)
      BY <2>0, <3>1, <3>2, Retrying
    <3>. QED BY <3>1, <3>2, <2>1
  <2>6. CASE Subscribe \/ Poll \/ List \/ UNCHANGED vars
    BY <2>0, <2>6 DEF Subscribe, Poll, List, vars, process, Idle
  <2>. QED BY <2>2, <2>3, <2>4, <2>5, <2>6 DEF Next, Proceed
<1>3. IInv /\ Idle /\ [Next]_vars => [LoginApart]_vars
  <2> SUFFICES ASSUME IInv, Idle, Next PROVE LoginApart
    OBVIOUS
  <2>0. TypeOK /\ w \in Procs
    BY DEF IInv
  <2>1. CASE pc[w] = "idle"
    <3>1. ~Refreshing(w)
      BY <2>0, <2>1 DEF Idle, Refreshing
    <3>. QED BY <3>1 DEF LoginApart
  <2>2. CASE pc[w] # "idle"
    <3>1. ~Begin(w)
      BY <2>2 DEF Begin, Put, ReadForRefresh, Take, Disable, GoTo
    <3>2. DOMAIN rows' = DOMAIN rows
      <4>1. CASE Update(w)
        BY <4>1, <2>0, Updating
      <4>2. CASE ~Update(w)
        BY <2>0, <3>1, <4>2 DEF Next, Proceed, Exchange, ExchangeFails, Select, Bump, Busy, Crash,
           Subscribe, Poll, List, vault
      <4>. QED BY <4>1, <4>2
    <3>. QED BY <3>2 DEF LoginApart
  <2>. QED BY <2>1, <2>2
<1>. QED BY Invariance, ApartUpdatesItsRow, <1>1, <1>2, <1>3, PTL DEF Spec

===============================================================================
