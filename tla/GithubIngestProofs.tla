------------------------ MODULE GithubIngestProofs ------------------------
(***************************************************************************)
(* Proofs about module GithubIngest, for any number of deliveries, any     *)
(* payloads and handlers, and any number of hooks, failures and restarts.  *)
(***************************************************************************)
EXTENDS GithubIngest, FiniteSetTheorems, WellFoundedInduction, TLAPS

(* Hooks. *)

\* A hook at GitHub beyond the stored one, or the one about to be stored, was
\* paid for by a failure or a restart.
HookInv ==
    /\ hooks \in Nat /\ row \in Nat /\ errs \in Nat /\ boots \in Nat \ {0}
    /\ row <= hooks
    /\ epc = "put" => hooks > 0
    /\ hooks <= errs + (boots - 1)
                + (IF epc = "put" \/ (epc = "idle" /\ row # 0) THEN 1 ELSE 0)

(* Attempts. *)

Statuses == {"none", "pending", "failed", "OK"}
Serving(d) == {h \in Handlers : hd[h] = d}

GithubTypeOK ==
    /\ sent \in 0 .. MaxDelivery
    /\ status \in [Deliveries -> Statuses]
    /\ wire \in [Deliveries -> Nat]
    /\ from \in [Deliveries -> Nat]

HandlerTypeOK ==
    /\ hpc \in [Handlers -> {"idle", "seen", "mark", "purge", "related"}]
    /\ hd \in [Handlers -> Deliveries \cup {0}]
    /\ \A h \in Handlers : hpc[h] = "idle" <=> hd[h] = 0
    /\ DOMAIN hleft = Handlers /\ DOMAIN purged = Deliveries

\* Until it is asked for again a delivery is one request: on the wire, or in
\* one handler, or answered for good.
AttemptOK ==
    \A d \in Deliveries \ tried :
        /\ wire[d] <= 1
        /\ wire[d] = 1 => Serving(d) = {} /\ status[d] # "OK"
        /\ \A h, g \in Serving(d) : h = g
        /\ Serving(d) # {} => status[d] # "OK"

\* Deliveries are numbered in the order they are created.
FutureOK ==
    /\ \A d \in Deliveries : d > sent => /\ status[d] = "none" /\ wire[d] = 0 /\ from[d] = 0
                                         /\ Serving(d) = {}
    /\ \A d \in Deliveries : d <= sent => status[d] # "none"
    /\ tried \subseteq Deliveries

AttemptInv == GithubTypeOK /\ HandlerTypeOK /\ AttemptOK /\ FutureOK

(* The sweep. *)

\* A page of the hook's deliveries lies after d, up to c.
PushedOff(d, c) == ~(Cardinality(Between(1, d, c)) < PageSize)

Newest(e) == listed[e] # "none" /\ \A f \in Deliveries : listed[f] # "none" => f <= e

\* What the sweep has listed: deliveries of a hook, gapless above the cursor
\* and within a page of the newest while there was one hook, and an "OK" among
\* them is true or a retry.
SweepInv ==
    /\ cursor \in Nat /\ cursor <= sent
    /\ listed \in [Deliveries -> Statuses]
    /\ \A d \in Deliveries : from[d] <= hooks
    /\ \A d \in Deliveries : listed[d] # "none" => cursor < d /\ d <= sent /\ from[d] # 0
    /\ \A d \in Deliveries \ tried : listed[d] = "OK" => status[d] = "OK"
    /\ hooks = 1 => \A d, e \in Deliveries :
          Newest(e) /\ d <= e /\ cursor < d /\ from[d] = 1 /\ ~PushedOff(d, e) => listed[d] # "none"
    /\ CursorTrailsAttempts

(* Purges. *)

\* Somebody is purging on behalf of d.
Purging(d) == \E h \in Handlers : hd[h] = d /\ hpc[h] \in {"purge", "related"}

\* A delivery known as seen or counted as delivered has been purged or is
\* being purged, and a handler has its related keys left.
PurgeInv ==
    /\ \A d \in Deliveries \ hurt :
          d \in seen \/ status[d] = "OK" => Touched[d] \subseteq purged[d] \/ Purging(d)
    /\ \A h \in Handlers : hpc[h] = "related" /\ hd[h] \notin hurt =>
          Touched[hd[h]] \subseteq purged[hd[h]] \cup hleft[h]

\* handleWebhook's half of PurgedUnlessFailed: what GitHub counts as delivered
\* has purged every key it touches.
AllTouchedPurged ==
    \A d \in Deliveries \ hurt :
        status[d] = "OK" => (\E h \in Handlers : hd[h] = d) \/ Touched[d] \subseteq purged[d]

----------------------------------------------------------------------------
(* ensureHook. *)

\* Every other step leaves the hooks alone and counts at most one failure.
HookNeutral ==
    /\ UNCHANGED <<hooks, row, epc, boots>>
    /\ errs' = errs \/ errs' = errs + 1

LEMMA HandlerNeutral ==
    ASSUME NEW h \in Handlers, TimeOut(h) \/ HookStep(h) \/ \E d \in Deliveries : Accept(h, d)
    PROVE  HookNeutral
  BY DEF TimeOut, HookStep, Accept, SeenBefore, NotSeen, MarkDelivery, PurgePrimary, PurgeFails,
         PurgeRelated, WebhookDone, Answer, StatementOK, StatementFails, Fail, HookNeutral, ensureVars

LEMMA OtherNeutral ==
    ASSUME \/ Deliver \/ (\E d \in Deliveries : Lose(d) \/ PruneDelivery(d))
           \/ SweepStep \/ ForwardStep \/ ChildExits \/ UNCHANGED vars
    PROVE  HookNeutral
  BY DEF Deliver, Lose, PruneDelivery, SweepStep, SweepList, SweepSkips, SweepPost, SweepSave,
         ForwardStep, StartChild, Wake, ChildExits, vars, ingestVars, Fail, HookNeutral, ensureVars

LEMMA HookNext == HookInv /\ [Next]_vars => HookInv'
  <1> SUFFICES ASSUME HookInv, [Next]_vars PROVE HookInv'
    OBVIOUS
  <1>1. CASE HookNeutral
    BY <1>1 DEF HookInv, HookNeutral
  <1>2. CASE EnsureHook
    BY <1>2 DEF EnsureHook, Fail, HookInv
  <1>3. CASE CreateHook
    BY <1>3 DEF CreateHook, Fail, HookInv
  <1>4. CASE PutHook
    BY <1>4 DEF PutHook, Fail, HookInv
  <1>5. CASE Restart
    BY <1>5 DEF Restart, HookInv
  <1> QED
    BY <1>1, <1>2, <1>3, <1>4, <1>5, HandlerNeutral, OtherNeutral DEF Next

LEMMA HookInit == Init => HookInv
  BY DEF Init, HookInv

\* ensureHook: GitHub has one hook of ours, and another only for a failed
\* request or statement or a crash, however often the reconcile pass runs;
\* the stored id is that of a hook there.
THEOREM OneHook == Spec => []OneHookPerFailure
  <1>1. HookInv => OneHookPerFailure
    BY DEF HookInv, OneHookPerFailure
  <1> QED
    BY <1>1, HookInit, HookNext, PTL DEF Spec

----------------------------------------------------------------------------
(* Types, and one request at a time. *)

LEMMA DeliveriesNat == Deliveries \subseteq Nat \ {0}
  BY IngestAssumption DEF Deliveries

LEMMA SentNat == AttemptInv => sent \in Nat
  BY IngestAssumption DEF AttemptInv, GithubTypeOK

LEMMA MaxExists ==
    ASSUME NEW N \in Nat, NEW S \in SUBSET (1 .. N), S # {}
    PROVE  \E d \in S : \A e \in S : e <= d
  <1> DEFINE T == {N - e : e \in S}
  <1>1. T \subseteq Nat
    <2>1. ASSUME NEW e \in S PROVE N - e \in Nat
      OBVIOUS
    <2> QED
      BY <2>1
  <1>2. T # {}
    OBVIOUS
  <1>3. \E x \in T : \A y \in T : ~(<<y, x>> \in OpToRel(<, Nat))
    <2> HIDE DEF T
    <2> QED
      BY <1>1, <1>2, NatLessThanWellFounded, WFMin, Zenon
  <1>4. PICK x \in T : \A y \in T : ~(y < x)
    BY <1>1, <1>3 DEF OpToRel
  <1>5. PICK d \in S : x = N - d
    BY <1>4
  <1>6. ASSUME NEW e \in S PROVE e <= d
    BY <1>4, <1>5
  <1> QED
    BY <1>6

\* A step that moves no request.
LEMMA AttemptKept ==
    ASSUME AttemptInv, UNCHANGED <<sent, from, status, wire, hd, tried>>,
           hpc' \in [Handlers -> {"idle", "seen", "mark", "purge", "related"}],
           \A h \in Handlers : hpc'[h] = "idle" <=> hpc[h] = "idle",
           DOMAIN hleft' = Handlers, DOMAIN purged' = Deliveries
    PROVE  AttemptInv'
  BY DEF AttemptInv, GithubTypeOK, HandlerTypeOK, AttemptOK, FutureOK, Serving

\* A busy handler's delivery, and that it is the only one of its delivery.
LEMMA Served ==
    ASSUME AttemptInv, NEW h \in Handlers, hpc[h] # "idle"
    PROVE  /\ hd[h] \in Deliveries /\ hd[h] <= sent /\ h \in Serving(hd[h])
           /\ hd[h] \notin tried => /\ Serving(hd[h]) = {h} /\ wire[hd[h]] = 0
                                    /\ status[hd[h]] # "OK"
  <1>1. hd[h] \in Deliveries /\ h \in Serving(hd[h])
    BY DEF AttemptInv, HandlerTypeOK, Serving
  <1>2. hd[h] <= sent
    <2>1. ~(hd[h] > sent)
      BY <1>1 DEF AttemptInv, FutureOK
    <2> QED
      <3>1. hd[h] \in Nat /\ sent \in Nat
        BY <1>1, SentNat, DeliveriesNat
      <3> QED
        BY <2>1, <3>1
  <1>3. ASSUME hd[h] \notin tried
        PROVE  Serving(hd[h]) = {h} /\ wire[hd[h]] = 0 /\ status[hd[h]] # "OK"
    <2>1. hd[h] \in Deliveries \ tried
      BY <1>1, <1>3
    <2>2. \A g \in Serving(hd[h]) : g = h
      BY <1>1, <2>1 DEF AttemptInv, AttemptOK
    <2>3. wire[hd[h]] \in Nat /\ wire[hd[h]] <= 1 /\ wire[hd[h]] # 1
      BY <1>1, <2>1 DEF AttemptInv, AttemptOK, GithubTypeOK
    <2>4. status[hd[h]] # "OK"
      BY <1>1, <2>1 DEF AttemptInv, AttemptOK
    <2> QED
      BY <1>1, <2>2, <2>3, <2>4
  <1> QED
    BY <1>1, <1>2, <1>3

LEMMA AnswerAttempt ==
    ASSUME AttemptInv, NEW h \in Handlers, hpc[h] # "idle", NEW st \in {"OK", "failed"},
           Answer(h, st), DOMAIN purged' = Deliveries, UNCHANGED tried
    PROVE  AttemptInv'
  <1> DEFINE d == hd[h]
  <1>0. d \in Deliveries /\ d <= sent /\ d \in Nat /\ sent \in Nat
    BY Served, SentNat, DeliveriesNat
  <1>1. /\ hpc' = [hpc EXCEPT ![h] = "idle"] /\ hd' = [hd EXCEPT ![h] = 0]
        /\ DOMAIN hleft' = Handlers /\ UNCHANGED <<sent, from, wire>>
        /\ status' \in {status, [status EXCEPT ![d] = st]}
    BY DEF Answer, AttemptInv, HandlerTypeOK
  <1>2. GithubTypeOK'
    BY <1>0, <1>1 DEF AttemptInv, GithubTypeOK, Statuses
  <1>3. HandlerTypeOK'
    BY <1>1 DEF AttemptInv, HandlerTypeOK
  <1>4. ASSUME NEW e \in Deliveries PROVE Serving(e)' = Serving(e) \ {h} /\ (e # d => status'[e] = status[e])
    BY <1>1, DeliveriesNat DEF AttemptInv, HandlerTypeOK, GithubTypeOK, Serving
  <1>5. ASSUME NEW e \in Deliveries \ tried'
        PROVE  /\ wire'[e] <= 1
               /\ wire'[e] = 1 => Serving(e)' = {} /\ status'[e] # "OK"
               /\ \A f, g \in Serving(e)' : f = g
               /\ Serving(e)' # {} => status'[e] # "OK"
    <2>1. CASE e = d
      <3>1. Serving(e)' = {} /\ wire'[e] = 0
        BY <1>1, <1>4, <1>5, <2>1, Served
      <3> QED
        BY <3>1
    <2>2. CASE e # d
      <3>1. Serving(e)' \subseteq Serving(e) /\ status'[e] = status[e] /\ wire'[e] = wire[e]
        BY <1>1, <1>4, <2>2
      <3> QED
        BY <1>5, <3>1 DEF AttemptInv, AttemptOK
    <2> QED
      BY <2>1, <2>2
  <1>6. AttemptOK'
    BY <1>5 DEF AttemptOK
  <1>7. ASSUME NEW e \in Deliveries
        PROVE  /\ e > sent' => status'[e] = "none" /\ wire'[e] = 0 /\ from'[e] = 0 /\ Serving(e)' = {}
               /\ e <= sent' => status'[e] # "none"
    <2>1. CASE e = d
      <3>1. ~(e > sent') /\ status'[e] \in {status[e], st} /\ status[e] # "none"
        BY <1>0, <1>1, <2>1 DEF AttemptInv, GithubTypeOK, FutureOK
      <3> QED
        BY <3>1
    <2>2. CASE e # d
      BY <1>1, <1>4, <2>2 DEF AttemptInv, FutureOK
    <2> QED
      BY <2>1, <2>2
  <1>8. FutureOK'
    BY <1>7 DEF FutureOK, AttemptInv
  <1> QED
    BY <1>2, <1>3, <1>6, <1>8 DEF AttemptInv

LEMMA AttemptHandler ==
    ASSUME AttemptInv, NEW h \in Handlers, HookStep(h)
    PROVE  AttemptInv' /\ UNCHANGED tried
  <1>0. UNCHANGED tried /\ DOMAIN purged' = Deliveries
    BY DEF HookStep, SeenBefore, NotSeen, MarkDelivery, PurgePrimary, PurgeFails, PurgeRelated,
           WebhookDone, AttemptInv, HandlerTypeOK
  <1>1. hpc[h] # "idle"
    BY DEF HookStep, SeenBefore, NotSeen, MarkDelivery, PurgePrimary, PurgeFails, PurgeRelated,
           WebhookDone
  <1>2. CASE Answer(h, "OK") \/ Answer(h, "failed")
    BY <1>0, <1>1, <1>2, AnswerAttempt
  <1>3. CASE ~Answer(h, "OK") /\ ~Answer(h, "failed")
    <2>1. /\ UNCHANGED <<sent, from, status, wire, hd>> /\ DOMAIN hleft' = Handlers
          /\ hpc' = hpc \/ \E p \in {"mark", "purge", "related"} : hpc' = [hpc EXCEPT ![h] = p]
      BY <1>3 DEF HookStep, SeenBefore, NotSeen, MarkDelivery, PurgePrimary, PurgeFails, PurgeRelated,
                  WebhookDone, ghVars, AttemptInv, HandlerTypeOK
    <2>2. /\ hpc' \in [Handlers -> {"idle", "seen", "mark", "purge", "related"}]
          /\ \A g \in Handlers : hpc'[g] = "idle" <=> hpc[g] = "idle"
      BY <1>1, <2>1 DEF AttemptInv, HandlerTypeOK
    <2> QED
      BY <1>0, <2>1, <2>2, AttemptKept
  <1> QED
    BY <1>0, <1>2, <1>3

LEMMA AttemptDeliver ==
    ASSUME AttemptInv, Deliver
    PROVE  AttemptInv' /\ UNCHANGED tried
  <1> DEFINE d == sent + 1
  <1>0. PICK k \in 0 .. hooks : from' = [from EXCEPT ![d] = k]
    BY DEF Deliver
  <1>1. /\ sent < MaxDelivery /\ sent' = d /\ status' = [status EXCEPT ![d] = "pending"]
        /\ wire' = [wire EXCEPT ![d] = 1] /\ UNCHANGED <<hpc, hd, hleft, purged, tried>>
    BY DEF Deliver, hookVars
  <1>2. d \in Deliveries /\ d > sent /\ sent \in Nat /\ sent' \in 0 .. MaxDelivery
    BY <1>1, IngestAssumption DEF AttemptInv, GithubTypeOK, Deliveries
  <1>3. Serving(d) = {}
    BY <1>2 DEF AttemptInv, FutureOK
  <1>4. GithubTypeOK'
    <2>1. k \in Nat
      OBVIOUS
    <2> QED
      BY <1>0, <1>1, <1>2, <2>1 DEF AttemptInv, GithubTypeOK, Statuses
  <1>5. HandlerTypeOK'
    BY <1>1 DEF AttemptInv, HandlerTypeOK
  <1>6. ASSUME NEW e \in Deliveries
        PROVE  /\ Serving(e)' = Serving(e)
               /\ e # d => status'[e] = status[e] /\ wire'[e] = wire[e] /\ from'[e] = from[e]
               /\ e = d => status'[e] = "pending" /\ wire'[e] = 1
    BY <1>0, <1>1, <1>2 DEF AttemptInv, GithubTypeOK, Serving
  <1>7. AttemptOK'
    BY <1>1, <1>3, <1>6 DEF AttemptInv, AttemptOK
  <1>8. FutureOK'
    <2>1. ASSUME NEW e \in Deliveries
          PROVE  (e > sent' => e > sent /\ e # d) /\ (e <= sent' => e <= sent \/ e = d)
      BY <1>1, <1>2, DeliveriesNat
    <2> QED
      BY <1>1, <1>6, <2>1 DEF AttemptInv, FutureOK
  <1> QED
    BY <1>1, <1>4, <1>5, <1>7, <1>8 DEF AttemptInv

LEMMA AttemptLose ==
    ASSUME AttemptInv, NEW d \in Deliveries, Lose(d)
    PROVE  AttemptInv' /\ UNCHANGED tried
  <1>1. /\ wire[d] > 0 /\ wire' = [wire EXCEPT ![d] = @ - 1]
        /\ status' = [status EXCEPT ![d] = "failed"]
        /\ UNCHANGED <<sent, from, hpc, hd, hleft, purged, tried>>
    BY DEF Lose, hookVars
  <1>2. wire[d] \in Nat /\ wire[d] - 1 \in Nat
    BY <1>1 DEF AttemptInv, GithubTypeOK
  <1>3. ASSUME NEW e \in Deliveries
        PROVE  /\ Serving(e)' = Serving(e)
               /\ e # d => status'[e] = status[e] /\ wire'[e] = wire[e]
               /\ e = d => status'[e] = "failed" /\ wire'[e] = wire[d] - 1
    BY <1>1 DEF AttemptInv, GithubTypeOK, Serving
  <1>4. GithubTypeOK'
    BY <1>1, <1>2 DEF AttemptInv, GithubTypeOK, Statuses
  <1>5. HandlerTypeOK'
    BY <1>1 DEF AttemptInv, HandlerTypeOK
  <1>6. AttemptOK'
    <2>1. d \notin tried => wire[d] - 1 = 0
      BY <1>1, <1>2 DEF AttemptInv, AttemptOK
    <2> QED
      BY <1>1, <1>3, <2>1 DEF AttemptInv, AttemptOK
  <1>7. FutureOK'
    <2>1. ~(d > sent)
      BY <1>1, <1>2 DEF AttemptInv, FutureOK
    <2> QED
      BY <1>1, <1>3, <2>1 DEF AttemptInv, FutureOK
  <1> QED
    BY <1>1, <1>4, <1>5, <1>6, <1>7 DEF AttemptInv

LEMMA AttemptTimeOut ==
    ASSUME AttemptInv, NEW h \in Handlers, TimeOut(h)
    PROVE  AttemptInv' /\ UNCHANGED tried
  <1> DEFINE d == hd[h]
  <1>1. /\ hpc[h] # "idle" /\ status' = [status EXCEPT ![d] = "failed"]
        /\ UNCHANGED <<sent, from, wire, hpc, hd, hleft, purged, tried>>
    BY DEF TimeOut
  <1>2. d \in Deliveries /\ d <= sent
    BY <1>1, Served
  <1>3. ASSUME NEW e \in Deliveries
        PROVE  /\ Serving(e)' = Serving(e) /\ wire'[e] = wire[e]
               /\ e # d => status'[e] = status[e]
               /\ e = d => status'[e] = "failed"
    BY <1>1, <1>2 DEF AttemptInv, GithubTypeOK, Serving
  <1>4. GithubTypeOK'
    BY <1>1, <1>2 DEF AttemptInv, GithubTypeOK, Statuses
  <1>5. HandlerTypeOK'
    BY <1>1 DEF AttemptInv, HandlerTypeOK
  <1>6. AttemptOK'
    BY <1>1, <1>3 DEF AttemptInv, AttemptOK
  <1>7. FutureOK'
    <2>1. ~(d > sent)
      <3>1. d \in Nat /\ sent \in Nat
        BY <1>2, SentNat, DeliveriesNat
      <3> QED
        BY <1>2, <3>1
    <2> QED
      BY <1>1, <1>3, <2>1 DEF AttemptInv, FutureOK
  <1> QED
    BY <1>1, <1>4, <1>5, <1>6, <1>7 DEF AttemptInv

LEMMA AttemptAccept ==
    ASSUME AttemptInv, NEW h \in Handlers, NEW d \in Deliveries, Accept(h, d)
    PROVE  AttemptInv' /\ UNCHANGED tried
  <1>1. /\ hpc[h] = "idle" /\ wire[d] > 0 /\ wire' = [wire EXCEPT ![d] = @ - 1]
        /\ hpc' = [hpc EXCEPT ![h] = "seen"] /\ hd' = [hd EXCEPT ![h] = d]
        /\ UNCHANGED <<sent, from, status, hleft, purged, tried>>
    BY DEF Accept
  <1>2. wire[d] \in Nat /\ wire[d] - 1 \in Nat /\ hd[h] = 0 /\ d # 0
    BY <1>1, DeliveriesNat DEF AttemptInv, GithubTypeOK, HandlerTypeOK
  <1>3. ASSUME NEW e \in Deliveries
        PROVE  /\ e # d => Serving(e)' = Serving(e) /\ wire'[e] = wire[e]
               /\ e = d => Serving(e)' = Serving(d) \cup {h} /\ wire'[e] = wire[d] - 1
    BY <1>1, <1>2, DeliveriesNat DEF AttemptInv, GithubTypeOK, HandlerTypeOK, Serving
  <1>4. GithubTypeOK'
    BY <1>1, <1>2 DEF AttemptInv, GithubTypeOK
  <1>5. HandlerTypeOK'
    BY <1>1, <1>2 DEF AttemptInv, HandlerTypeOK
  <1>6. AttemptOK'
    <2>1. d \notin tried => wire[d] - 1 = 0 /\ Serving(d) = {} /\ status[d] # "OK"
      BY <1>1, <1>2 DEF AttemptInv, AttemptOK
    <2> QED
      BY <1>1, <1>3, <2>1 DEF AttemptInv, AttemptOK
  <1>7. FutureOK'
    <2>1. ~(d > sent)
      BY <1>1, <1>2 DEF AttemptInv, FutureOK
    <2> QED
      BY <1>1, <1>3, <2>1 DEF AttemptInv, FutureOK
  <1> QED
    BY <1>1, <1>4, <1>5, <1>6, <1>7 DEF AttemptInv

LEMMA AttemptPost ==
    ASSUME AttemptInv, NEW d \in Deliveries, SweepPost(d), listed[d] # "none" => d <= sent
    PROVE  AttemptInv' /\ tried' = tried \cup {d}
  <1>1. /\ tried' = tried \cup {d} /\ UNCHANGED <<sent, from, hpc, hd, hleft, purged>>
        /\ \/ UNCHANGED <<status, wire>>
           \/ /\ wire' = [wire EXCEPT ![d] = @ + 1]
              /\ status' = [status EXCEPT ![d] = "pending"]
    BY DEF SweepPost, hookVars
  <1>2. d <= sent /\ ~(d > sent) /\ wire[d] + 1 \in Nat
    <2>1. d <= sent
      BY DEF SweepPost, Undelivered
    <2>2. d \in Nat /\ sent \in Nat /\ wire[d] \in Nat
      BY SentNat, DeliveriesNat DEF AttemptInv, GithubTypeOK
    <2> QED
      BY <2>1, <2>2
  <1>3. ASSUME NEW e \in Deliveries
        PROVE  /\ Serving(e)' = Serving(e)
               /\ e # d => status'[e] = status[e] /\ wire'[e] = wire[e]
               /\ e = d => status'[e] \in {status[e], "pending"}
    BY <1>1 DEF AttemptInv, GithubTypeOK, Serving
  <1>4. GithubTypeOK'
    BY <1>1, <1>2 DEF AttemptInv, GithubTypeOK, Statuses
  <1>5. HandlerTypeOK'
    BY <1>1 DEF AttemptInv, HandlerTypeOK
  <1>6. AttemptOK'
    BY <1>1, <1>3 DEF AttemptInv, AttemptOK
  <1>7. FutureOK'
    BY <1>1, <1>2, <1>3 DEF AttemptInv, FutureOK
  <1> QED
    BY <1>1, <1>4, <1>5, <1>6, <1>7 DEF AttemptInv

LEMMA AttemptRestart ==
    ASSUME AttemptInv, Restart
    PROVE  AttemptInv' /\ UNCHANGED tried
  <1>1. /\ hpc' = [h \in Handlers |-> "idle"] /\ hd' = [h \in Handlers |-> 0]
        /\ hleft' = [h \in Handlers |-> {}] /\ UNCHANGED <<sent, from, wire, purged, tried>>
        /\ status' = [d \in Deliveries |->
              IF \E h \in Handlers : hpc[h] # "idle" /\ hd[h] = d THEN "failed" ELSE status[d]]
    BY DEF Restart
  <1>2. ASSUME NEW e \in Deliveries
        PROVE  /\ Serving(e)' = {}
               /\ status'[e] = IF Serving(e) = {} THEN status[e] ELSE "failed"
    BY <1>1, DeliveriesNat DEF AttemptInv, HandlerTypeOK, Serving
  <1>3. GithubTypeOK'
    BY <1>1 DEF AttemptInv, GithubTypeOK, Statuses
  <1>4. HandlerTypeOK'
    BY <1>1 DEF AttemptInv, HandlerTypeOK
  <1>5. AttemptOK'
    BY <1>1, <1>2 DEF AttemptInv, AttemptOK
  <1>6. FutureOK'
    BY <1>1, <1>2 DEF AttemptInv, FutureOK
  <1> QED
    BY <1>1, <1>3, <1>4, <1>5, <1>6 DEF AttemptInv

\* Every step but a delivery, an answer and the sweep's moves no request.
Elsewhere ==
    \/ \E d \in Deliveries : PruneDelivery(d)
    \/ SweepList \/ SweepSkips \/ SweepSave \/ ForwardStep \/ ChildExits
    \/ EnsureHook \/ CreateHook \/ PutHook \/ UNCHANGED vars

LEMMA AttemptElsewhere ==
    ASSUME AttemptInv, Elsewhere
    PROVE  AttemptInv' /\ UNCHANGED <<ghVars, hookVars, purged, tried, hurt>>
  <1>1. UNCHANGED <<ghVars, hookVars, purged, tried, hurt>>
    BY DEF Elsewhere, PruneDelivery, SweepList, SweepSkips, SweepSave, ForwardStep, StartChild, Wake,
           ChildExits, EnsureHook, CreateHook, PutHook, vars, ingestVars
  <1> QED
    BY <1>1, AttemptKept DEF ghVars, hookVars, AttemptInv, HandlerTypeOK

LEMMA AttemptInit == Init => AttemptInv
  BY IngestAssumption, DeliveriesNat
     DEF Init, AttemptInv, GithubTypeOK, HandlerTypeOK, AttemptOK, FutureOK, Nothing, Statuses, Serving

----------------------------------------------------------------------------
(* redeliver. *)

\* The later the bound, the more deliveries lie before it.
LEMMA PushedOffGrows ==
    ASSUME NEW d \in Deliveries, NEW c \in Nat, NEW e \in Nat, c <= e, PushedOff(d, c)
    PROVE  PushedOff(d, e)
  <1>1. IsFiniteSet(Between(1, d, e))
    <2>1. IsFiniteSet(Deliveries)
      BY IngestAssumption, FS_Interval DEF Deliveries
    <2>2. Between(1, d, e) \in SUBSET Deliveries
      BY DEF Between
    <2> QED
      BY <2>1, <2>2, FS_Subset
  <1>2. Between(1, d, c) \in SUBSET Between(1, d, e)
    <2>1. ASSUME NEW x \in Between(1, d, c) PROVE x \in Between(1, d, e)
      <3>1. x \in Deliveries /\ x \in Nat /\ d < x /\ x <= c /\ from[x] = 1
        BY DeliveriesNat DEF Between
      <3> QED
        BY <3>1 DEF Between
    <2> QED
      BY <2>1
  <1>3. /\ Cardinality(Between(1, d, c)) \in Nat /\ Cardinality(Between(1, d, e)) \in Nat
        /\ Cardinality(Between(1, d, c)) <= Cardinality(Between(1, d, e))
    BY <1>1, <1>2, FS_Subset, FS_CardinalityType
  <1> QED
    BY <1>3, IngestAssumption DEF PushedOff

\* A step that neither lists nor saves keeps SweepInv, if what nobody asked
\* for again stays delivered once it is.
LEMMA SweepKept ==
    ASSUME AttemptInv, SweepInv, UNCHANGED <<hooks, sent, from, cursor, listed, tried>>,
           \A d \in Deliveries \ tried : status[d] = "OK" => status'[d] = "OK"
    PROVE  SweepInv'
  <1>1. \A d \in Deliveries : \A c : PushedOff(d, c)' <=> PushedOff(d, c)
    BY DEF PushedOff, Between
  <1>2. CursorTrailsAttempts'
    BY <1>1 DEF SweepInv, CursorTrailsAttempts, PushedOff
  <1> QED
    BY <1>1, <1>2 DEF SweepInv, Newest

LEMMA SweepRequest ==
    ASSUME AttemptInv, SweepInv,
           \/ \E d \in Deliveries : Lose(d)
           \/ \E h \in Handlers : TimeOut(h) \/ HookStep(h) \/ \E d \in Deliveries : Accept(h, d)
    PROVE  SweepInv'
  <1>1. UNCHANGED <<hooks, sent, from, cursor, listed, tried>>
    BY DEF Lose, TimeOut, Accept, HookStep, SeenBefore, NotSeen, MarkDelivery, PurgePrimary, PurgeFails,
           PurgeRelated, WebhookDone, Answer, ensureVars, ghVars, sweepVars
  <1>2. ASSUME NEW e \in Deliveries \ tried, status[e] = "OK" PROVE status'[e] = "OK"
    <2>1. CASE status' = status
      BY <1>2, <2>1
    <2>2. ASSUME NEW d \in Deliveries, Lose(d) PROVE status'[e] = "OK"
      <3>1. wire[d] \in Nat /\ wire[d] > 0 /\ status' = [status EXCEPT ![d] = "failed"]
        BY <2>2 DEF Lose, AttemptInv, GithubTypeOK
      <3>2. wire[e] \in Nat /\ wire[e] <= 1 /\ wire[e] # 1
        BY <1>2 DEF AttemptInv, AttemptOK, GithubTypeOK
      <3>3. e # d
        BY <3>1, <3>2
      <3> QED
        BY <1>2, <3>1, <3>3 DEF AttemptInv, GithubTypeOK
    <2>3. ASSUME NEW h \in Handlers, hpc[h] # "idle",
                 NEW st \in Statuses, status' = [status EXCEPT ![hd[h]] = st]
          PROVE  status'[e] = "OK"
      <3>1. e # hd[h]
        BY <1>2, <2>3, Served
      <3> QED
        BY <1>2, <2>3, <3>1 DEF AttemptInv, GithubTypeOK
    <2>4. ASSUME NEW h \in Handlers, TimeOut(h) PROVE status'[e] = "OK"
      BY <2>3, <2>4 DEF TimeOut, Statuses
    <2>5. ASSUME NEW h \in Handlers, HookStep(h), status' # status PROVE status'[e] = "OK"
      <3>1. /\ hpc[h] # "idle"
            /\ Answer(h, "OK") \/ Answer(h, "failed")
        BY <2>5 DEF HookStep, SeenBefore, NotSeen, MarkDelivery, PurgePrimary, PurgeFails,
                    PurgeRelated, WebhookDone, ghVars
      <3>2. \E st \in Statuses : status' = [status EXCEPT ![hd[h]] = st]
        BY <2>5, <3>1 DEF Answer, Statuses
      <3> QED
        BY <2>3, <3>1, <3>2
    <2>6. ASSUME NEW h \in Handlers, NEW d \in Deliveries, Accept(h, d) PROVE status' = status
      BY <2>6 DEF Accept
    <2> QED
      BY <2>1, <2>2, <2>4, <2>5, <2>6
  <1> QED
    BY <1>1, <1>2, SweepKept

LEMMA SweepRestart ==
    ASSUME AttemptInv, SweepInv, Restart
    PROVE  SweepInv'
  <1>1. /\ UNCHANGED <<hooks, sent, from, cursor, tried>> /\ listed' = Nothing
        /\ status' = [d \in Deliveries |->
              IF \E h \in Handlers : hpc[h] # "idle" /\ hd[h] = d THEN "failed" ELSE status[d]]
    BY DEF Restart
  <1>2. ASSUME NEW d \in Deliveries \ tried, status[d] = "OK" PROVE status'[d] = "OK"
    <2>1. \A h \in Handlers : hpc[h] # "idle" => hd[h] # d
      BY <1>2, Served
    <2> QED
      BY <1>1, <1>2, <2>1
  <1>3. listed' \in [Deliveries -> Statuses] /\ \A d \in Deliveries : listed'[d] = "none"
    BY <1>1 DEF Nothing, Statuses
  <1>4. CursorTrailsAttempts'
    BY <1>1, <1>2 DEF SweepInv, CursorTrailsAttempts, Between
  <1> QED
    BY <1>1, <1>2, <1>3, <1>4 DEF SweepInv, Newest

LEMMA SweepDeliver ==
    ASSUME AttemptInv, HookInv, SweepInv, Deliver
    PROVE  SweepInv'
  <1> DEFINE d == sent + 1
  <1>0. PICK k \in 0 .. hooks : from' = [from EXCEPT ![d] = k]
    BY DEF Deliver
  <1>1. /\ sent < MaxDelivery /\ sent' = d /\ status' = [status EXCEPT ![d] = "pending"]
        /\ UNCHANGED <<hooks, cursor, listed, tried>>
    BY DEF Deliver, ensureVars, sweepVars
  <1>2. sent \in Nat /\ cursor \in Nat /\ cursor <= sent /\ d \in Deliveries
    BY <1>1, SentNat, IngestAssumption DEF SweepInv, Deliveries
  <1>3. k <= hooks
    BY DEF HookInv
  <1>4. ASSUME NEW e \in Deliveries
        PROVE  /\ e # d => status'[e] = status[e] /\ from'[e] = from[e]
               /\ e = d => status'[e] = "pending" /\ from'[e] = k
    BY <1>0, <1>1 DEF AttemptInv, GithubTypeOK
  <1>5. ASSUME NEW e \in Deliveries
        PROVE  (e <= sent => e # d /\ e <= sent') /\ (e <= cursor => e # d)
    BY <1>1, <1>2, DeliveriesNat
  <1>6. ~(d <= sent)
    BY <1>2
  <1>7. listed[d] = "none"
    BY <1>2, <1>6 DEF SweepInv
  <1>8. cursor <= sent'
    BY <1>1, <1>2
  <1>a. ASSUME NEW f \in Deliveries, NEW c \in Nat, c <= sent
        PROVE  Between(1, f, c)' = Between(1, f, c)
    <2>1. ASSUME NEW e \in Deliveries, e <= c PROVE from'[e] = from[e]
      <3>1. e \in Nat
        BY DeliveriesNat
      <3>2. e # d
        BY <1>2, <1>a, <2>1, <3>1
      <3> QED
        BY <1>4, <3>2
    <2> QED
      BY <2>1 DEF Between
  <1>9. ASSUME NEW e \in Deliveries, NEW f \in Deliveries, hooks = 1,
               Newest(e)', f <= e, cursor < f, from'[f] = 1, ~PushedOff(f, e)'
        PROVE  listed[f] # "none"
    <2>0. Newest(e) /\ e \in Nat
      BY <1>1, <1>9, DeliveriesNat DEF Newest
    <2>1. e <= sent
      BY <2>0 DEF SweepInv, Newest
    <2>2. f # d
      BY <1>2, <1>9, <2>1, DeliveriesNat
    <2>3. ~PushedOff(f, e)
      BY <1>9, <1>a, <2>0, <2>1 DEF PushedOff
    <2> QED
      BY <1>4, <1>9, <2>0, <2>2, <2>3 DEF SweepInv
  <1>10. CursorTrailsAttempts'
    BY <1>1, <1>2, <1>4, <1>5, <1>a DEF SweepInv, CursorTrailsAttempts
  <1> QED
    BY <1>1, <1>3, <1>4, <1>5, <1>7, <1>8, <1>9, <1>10 DEF SweepInv

LEMMA SweepListed ==
    ASSUME AttemptInv, HookInv, SweepInv, SweepList
    PROVE  SweepInv'
  <1>1. /\ UNCHANGED <<hooks, sent, from, cursor, tried, status>>
        /\ listed' = [d \in Deliveries |->
              IF row # 0 /\ OnPage(d) /\ d > cursor THEN status[d] ELSE "none"]
    BY DEF SweepList, ensureVars, ghVars
  <1>2. listed' \in [Deliveries -> Statuses]
    BY <1>1 DEF AttemptInv, GithubTypeOK, Statuses
  <1>3. ASSUME NEW d \in Deliveries, listed'[d] # "none"
        PROVE  /\ cursor < d /\ d <= sent /\ from[d] # 0 /\ from[d] = row
               /\ listed'[d] = status[d]
    <2>1. row # 0 /\ from[d] = row /\ d > cursor /\ listed'[d] = status[d] /\ status[d] # "none"
      BY <1>1, <1>3 DEF OnPage
    <2>2. ~(d > sent)
      BY <2>1 DEF AttemptInv, FutureOK
    <2>3. d \in Nat /\ sent \in Nat /\ cursor \in Nat
      BY SentNat, DeliveriesNat DEF SweepInv
    <2> QED
      BY <2>1, <2>2, <2>3
  <1>4. ASSUME hooks = 1, NEW d \in Deliveries, NEW e \in Deliveries,
               Newest(e)', d <= e, cursor < d, from[d] = 1, ~PushedOff(d, e)
        PROVE  listed'[d] # "none"
    <2>0. listed'[e] # "none" /\ \A f \in Deliveries : listed'[f] # "none" => f <= e
      BY <1>4 DEF Newest
    <2>1. row = 1
      <3>1. row # 0
        BY <1>1, <2>0
      <3> QED
        BY <1>4, <3>1 DEF HookInv
    <2>2. d <= sent /\ d > cursor /\ e <= sent /\ d \in Nat /\ e \in Nat /\ sent \in Nat /\ cursor \in Nat
      <3>1. e <= sent
        BY <1>3, <2>0
      <3>2. d \in Nat /\ e \in Nat /\ sent \in Nat /\ cursor \in Nat
        BY SentNat, DeliveriesNat DEF SweepInv
      <3> QED
        BY <1>4, <3>1, <3>2
    <2>3. status[d] # "none"
      BY <2>2 DEF AttemptInv, FutureOK
    <2>4. Between(1, e, sent) = {}
      <3> SUFFICES ASSUME Between(1, e, sent) # {} PROVE FALSE
        OBVIOUS
      <3> DEFINE S == Between(1, e, sent)
      <3>1. S \in SUBSET (1 .. MaxDelivery) /\ MaxDelivery \in Nat
        BY IngestAssumption DEF Between, Deliveries
      <3> HIDE DEF S
      <3>2. PICK m \in S : \A k \in S : k <= m
        BY <3>1, MaxExists DEF S
      <3>3. m \in Deliveries /\ m \in Nat /\ e < m /\ m <= sent /\ from[m] = 1
        BY <3>2, DeliveriesNat DEF S, Between
      <3>4. Between(1, m, sent) = {}
        <4> SUFFICES ASSUME NEW k \in Between(1, m, sent) PROVE FALSE
          OBVIOUS
        <4>1. k \in Nat /\ m < k /\ k \in S
          BY <2>2, <3>3, DeliveriesNat DEF S, Between
        <4> QED
          BY <3>2, <3>3, <4>1
      <3>5. OnPage(m)
        BY <2>1, <3>3, <3>4, FS_EmptySet, IngestAssumption DEF OnPage
      <3>6. status[m] # "none"
        BY <3>3 DEF AttemptInv, FutureOK
      <3>7. m > cursor
        BY <1>4, <2>2, <3>3
      <3>8. listed'[m] # "none"
        BY <1>1, <2>1, <3>3, <3>5, <3>6, <3>7
      <3> QED
        BY <2>0, <2>2, <3>3, <3>8
    <2>5. Between(1, d, sent) = Between(1, d, e)
      <3>1. ASSUME NEW k \in Deliveries, from[k] = 1 PROVE k <= sent <=> k <= e
        <4>1. k \in Nat /\ ~(e < k /\ k <= sent)
          BY <2>4, <3>1, DeliveriesNat DEF Between
        <4> QED
          BY <2>2, <4>1
      <3> QED
        BY <3>1 DEF Between
    <2>6. OnPage(d)
      BY <1>4, <2>1, <2>5 DEF OnPage, PushedOff
    <2> QED
      BY <1>1, <2>1, <2>2, <2>3, <2>6
  <1>5. \A d \in Deliveries : \A c : PushedOff(d, c)' <=> PushedOff(d, c)
    BY <1>1 DEF PushedOff, Between
  <1>6. CursorTrailsAttempts'
    BY <1>1, <1>5 DEF SweepInv, CursorTrailsAttempts, PushedOff
  <1> QED
    BY <1>1, <1>2, <1>3, <1>4, <1>5, <1>6 DEF SweepInv

LEMMA SweepPosted ==
    ASSUME AttemptInv, SweepInv, NEW d \in Deliveries, SweepPost(d)
    PROVE  SweepInv'
  <1>1. /\ UNCHANGED <<hooks, sent, from, cursor>> /\ tried' = tried \cup {d}
        /\ listed' = [listed EXCEPT ![d] = "OK"] /\ listed[d] # "none"
        /\ status' = status \/ status' = [status EXCEPT ![d] = "pending"]
    BY DEF SweepPost, ensureVars, Undelivered
  <1>2. ASSUME NEW e \in Deliveries
        PROVE  /\ e # d => status'[e] = status[e] /\ listed'[e] = listed[e]
               /\ listed'[e] # "none" <=> listed[e] # "none"
    BY <1>1 DEF AttemptInv, GithubTypeOK, SweepInv
  <1>3. listed' \in [Deliveries -> Statuses]
    BY <1>1 DEF SweepInv, Statuses
  <1>4. \A e \in Deliveries : \A c : PushedOff(e, c)' <=> PushedOff(e, c)
    BY <1>1, <1>2 DEF PushedOff, Between
  <1>n. \A e \in Deliveries : Newest(e)' <=> Newest(e)
    BY <1>1, <1>2 DEF Newest
  <1>5. CursorTrailsAttempts'
    BY <1>1, <1>2, <1>4 DEF SweepInv, CursorTrailsAttempts, PushedOff
  <1> QED
    BY <1>1, <1>2, <1>3, <1>4, <1>5, <1>n DEF SweepInv

\* The save: between the old cursor and the new one nothing within a page of
\* the new one was left out of the listing, and nothing of it was left undelivered without an attempt.
LEMMA SweepSaved ==
    ASSUME AttemptInv, SweepInv, SweepSave
    PROVE  SweepInv'
  <1> DEFINE ids == {d \in Deliveries : listed[d] # "none"}
  <1>1. /\ UNCHANGED <<hooks, sent, from, status, tried>> /\ listed' = Nothing
        /\ cursor' = IF ids = {} THEN cursor ELSE CHOOSE d \in ids : \A e \in ids : e <= d
        /\ Undelivered = {}
    BY DEF SweepSave, ensureVars, ghVars
  <1>2. ids # {} => cursor' \in ids /\ Newest(cursor')
    <2>1. ASSUME ids # {} PROVE \E d \in ids : \A e \in ids : e <= d
      <3>1. MaxDelivery \in Nat /\ ids \in SUBSET (1 .. MaxDelivery)
        BY IngestAssumption DEF Deliveries
      <3> HIDE DEF ids
      <3> QED
        BY <2>1, <3>1, MaxExists
    <2> QED
      BY <1>1, <2>1 DEF Newest
  <1>3. listed' \in [Deliveries -> Statuses] /\ \A d \in Deliveries : listed'[d] = "none"
    BY <1>1 DEF Nothing, Statuses
  <1>4. cursor' \in Nat /\ cursor' <= sent
    <2>1. CASE ids = {}
      BY <1>1, <2>1 DEF SweepInv
    <2>2. CASE ids # {}
      BY <1>2, <2>2, DeliveriesNat DEF SweepInv
    <2> QED
      BY <2>1, <2>2
  <1>5. ASSUME hooks = 1, NEW d \in Deliveries, from[d] = 1, d <= cursor', status[d] # "OK",
               ~PushedOff(d, cursor')
        PROVE  d \in tried
    <2>1. CASE d <= cursor
      <3>1. cursor \in Nat /\ cursor <= cursor'
        <4>1. CASE ids = {}
          BY <1>1, <4>1 DEF SweepInv
        <4>2. CASE ids # {}
          <5>1. cursor' \in Deliveries /\ listed[cursor'] # "none"
            BY <1>2, <4>2
          <5>2. cursor' \in Nat /\ cursor \in Nat /\ cursor < cursor'
            BY <5>1, DeliveriesNat DEF SweepInv
          <5> QED
            BY <5>2
        <4> QED
          BY <4>1, <4>2
      <3>2. ~PushedOff(d, cursor)
        BY <1>4, <1>5, <3>1, PushedOffGrows
      <3> QED
        BY <1>5, <2>1, <3>2 DEF SweepInv, CursorTrailsAttempts, PushedOff
    <2>2. CASE ~(d <= cursor)
      <3>1. ids # {}
        BY <1>1, <1>5, <2>2
      <3>2. cursor < d
        <4>1. d \in Nat /\ cursor \in Nat
          BY DeliveriesNat DEF SweepInv
        <4> QED
          BY <2>2, <4>1
      <3>3. listed[d] # "none"
        BY <1>2, <1>5, <3>1, <3>2 DEF SweepInv
      <3>4. listed[d] = "OK"
        BY <1>1, <3>3 DEF SweepInv, Undelivered, Statuses
      <3> QED
        BY <1>5, <3>4 DEF SweepInv
    <2> QED
      BY <2>1, <2>2
  <1>6. CursorTrailsAttempts'
    BY <1>1, <1>5 DEF CursorTrailsAttempts, PushedOff, Between
  <1> QED
    BY <1>1, <1>3, <1>4, <1>6 DEF SweepInv, Newest

LEMMA SweepHook ==
    ASSUME AttemptInv, HookInv, SweepInv, CreateHook
    PROVE  SweepInv'
  <1>1. /\ UNCHANGED <<sent, from, status, cursor, listed, tried>>
        /\ hooks' = hooks \/ hooks' = hooks + 1
    BY DEF CreateHook, ghVars, sweepVars
  <1>2. hooks \in Nat /\ \A d \in Deliveries : from[d] \in Nat /\ from[d] <= hooks
    BY DEF HookInv, SweepInv, AttemptInv, GithubTypeOK
  <1>3. \A d \in Deliveries : from[d] <= hooks'
    BY <1>1, <1>2
  <1>4. hooks' = 1 => hooks = 1 \/ \A d \in Deliveries : from[d] # 1
    BY <1>1, <1>2
  <1>5. \A d \in Deliveries : \A c : PushedOff(d, c)' <=> PushedOff(d, c)
    BY <1>1 DEF PushedOff, Between
  <1>n. \A d \in Deliveries : Newest(d)' <=> Newest(d)
    BY <1>1 DEF Newest
  <1>6. CursorTrailsAttempts'
    BY <1>1, <1>4, <1>5 DEF SweepInv, CursorTrailsAttempts, PushedOff
  <1> QED
    BY <1>1, <1>3, <1>4, <1>5, <1>6, <1>n DEF SweepInv

IngestInv == HookInv /\ AttemptInv /\ SweepInv

LEMMA SweepInit == Init => SweepInv
  BY IngestAssumption, DeliveriesNat DEF Init, SweepInv, CursorTrailsAttempts, Newest, Nothing, Statuses

LEMMA IngestNext == IngestInv /\ [Next]_vars => IngestInv'
  <1> SUFFICES ASSUME HookInv, AttemptInv, SweepInv, [Next]_vars PROVE AttemptInv' /\ SweepInv'
    BY HookNext DEF IngestInv
  <1>1. CASE Deliver
    BY <1>1, AttemptDeliver, SweepDeliver
  <1>2. ASSUME NEW d \in Deliveries, Lose(d) PROVE AttemptInv' /\ SweepInv'
    BY <1>2, AttemptLose, SweepRequest
  <1>3. ASSUME NEW h \in Handlers, TimeOut(h) PROVE AttemptInv' /\ SweepInv'
    BY <1>3, AttemptTimeOut, SweepRequest
  <1>4. ASSUME NEW h \in Handlers, NEW d \in Deliveries, Accept(h, d) PROVE AttemptInv' /\ SweepInv'
    BY <1>4, AttemptAccept, SweepRequest
  <1>5. ASSUME NEW h \in Handlers, HookStep(h) PROVE AttemptInv' /\ SweepInv'
    BY <1>5, AttemptHandler, SweepRequest
  <1>6. ASSUME NEW d \in Deliveries, SweepPost(d) PROVE AttemptInv' /\ SweepInv'
    BY <1>6, AttemptPost, SweepPosted DEF SweepInv
  <1>7. CASE Restart
    BY <1>7, AttemptRestart, SweepRestart
  <1>8. CASE Elsewhere
    <2>1. AttemptInv' /\ UNCHANGED <<sent, from, status, tried>>
      BY <1>8, AttemptElsewhere DEF ghVars
    <2>2. CASE SweepList
      BY <2>1, <2>2, SweepListed
    <2>3. CASE SweepSave
      BY <2>1, <2>3, SweepSaved
    <2>4. CASE CreateHook
      BY <2>1, <2>4, SweepHook
    <2>5. CASE ~SweepList /\ ~SweepSave /\ ~CreateHook
      <3>1. UNCHANGED <<hooks, cursor, listed>>
        BY <1>8, <2>5 DEF Elsewhere, PruneDelivery, SweepSkips, ForwardStep, StartChild, Wake,
              ChildExits, EnsureHook, PutHook, vars, ingestVars, ensureVars, sweepVars
      <3> QED
        BY <2>1, <3>1, SweepKept
    <2> QED
      BY <2>1, <2>2, <2>3, <2>4, <2>5
  <1> QED
    BY <1>1, <1>2, <1>3, <1>4, <1>5, <1>6, <1>7, <1>8 DEF Next, SweepStep, Elsewhere

\* redeliver: at every moment of every sweep, however it interleaves with
\* attempts, hangups, crashes and new deliveries, a delivery of the one hook
\* that the saved cursor has passed is delivered or was asked for again, or a
\* page of newer deliveries lies between it and the cursor.
THEOREM CursorTrails == Spec => []CursorTrailsAttempts
  <1>1. Init => IngestInv
    BY HookInit, AttemptInit, SweepInit DEF IngestInv
  <1>2. IngestInv => CursorTrailsAttempts
    BY DEF IngestInv, SweepInv
  <1> QED
    BY <1>1, <1>2, IngestNext, PTL DEF Spec

----------------------------------------------------------------------------
(* handleWebhook. *)

\* A step that takes no handler out of its purge and marks or counts nothing.
LEMMA PurgeKept ==
    ASSUME PurgeInv, AttemptInv, UNCHANGED <<purged, hurt, hleft>>, seen' \subseteq seen,
           \A d \in Deliveries : status'[d] = "OK" => status[d] = "OK",
           \A h \in Handlers : hpc[h] \in {"purge", "related"} => hpc'[h] = hpc[h] /\ hd'[h] = hd[h],
           \A h \in Handlers : hpc'[h] = "related" => hpc[h] = "related"
    PROVE  PurgeInv'
  <1>1. ASSUME NEW d \in Deliveries, Purging(d) PROVE Purging(d)'
    BY <1>1 DEF Purging
  <1> QED
    BY <1>1 DEF PurgeInv

LEMMA PurgeRequest ==
    ASSUME PurgeInv, AttemptInv,
           \/ Deliver \/ (\E d \in Deliveries : Lose(d) \/ SweepPost(d))
           \/ \E h \in Handlers : TimeOut(h) \/ \E d \in Deliveries : Accept(h, d)
    PROVE  PurgeInv'
  <1>1. UNCHANGED <<purged, hurt, hleft, seen>>
    BY DEF Deliver, Lose, SweepPost, TimeOut, Accept, hookVars
  <1>2. \/ UNCHANGED <<hpc, hd>>
        \/ \E h \in Handlers : hpc[h] = "idle" /\ hpc' = [hpc EXCEPT ![h] = "seen"]
                              /\ \E d \in Deliveries : hd' = [hd EXCEPT ![h] = d]
    BY DEF Deliver, Lose, SweepPost, TimeOut, Accept, hookVars
  <1>3. status' = status \/ \E d, st : st # "OK" /\ status' = [status EXCEPT ![d] = st]
    BY DEF Deliver, Lose, SweepPost, TimeOut, Accept
  <1>4. \A d \in Deliveries : status'[d] = "OK" => status[d] = "OK"
    BY <1>3 DEF AttemptInv, GithubTypeOK
  <1>5. \A h \in Handlers : /\ hpc[h] \in {"purge", "related"} => hpc'[h] = hpc[h] /\ hd'[h] = hd[h]
                            /\ hpc'[h] = "related" => hpc[h] = "related"
    BY <1>2 DEF AttemptInv, HandlerTypeOK
  <1> QED
    BY <1>1, <1>4, <1>5, PurgeKept

LEMMA PurgeElsewhere ==
    ASSUME PurgeInv, AttemptInv, Elsewhere
    PROVE  PurgeInv'
  <1>1. seen' \subseteq seen
    BY DEF Elsewhere, PruneDelivery, SweepList, SweepSkips, SweepSave, ForwardStep, StartChild, Wake,
           ChildExits, EnsureHook, CreateHook, PutHook, vars, ingestVars
  <1> QED
    BY <1>1, AttemptElsewhere, PurgeKept DEF ghVars, hookVars

\* A crash hurts every delivery being served, so the others were purged.
LEMMA PurgeRestart ==
    ASSUME PurgeInv, AttemptInv, Restart
    PROVE  PurgeInv'
  <1>1. /\ hpc' = [h \in Handlers |-> "idle"] /\ UNCHANGED <<purged, seen>>
        /\ hurt' = hurt \cup {hd[h] : h \in {x \in Handlers : hpc[x] # "idle"}}
        /\ \A d \in Deliveries : status'[d] = "OK" => status[d] = "OK"
    BY DEF Restart
  <1>2. ASSUME NEW d \in Deliveries \ hurt', d \in seen' \/ status'[d] = "OK"
        PROVE  Touched[d] \subseteq purged'[d]
    <2>1. d \notin hurt /\ ~Purging(d) /\ (d \in seen \/ status[d] = "OK")
      BY <1>1, <1>2 DEF Purging
    <2> QED
      BY <1>1, <2>1 DEF PurgeInv
  <1>3. \A h \in Handlers : hpc'[h] # "related"
    BY <1>1
  <1> QED
    BY <1>2, <1>3 DEF PurgeInv

LEMMA TouchedIs ==
    ASSUME NEW d \in Deliveries
    PROVE  Touched[d] = IF KeyOf[d] = NoKey THEN {} ELSE {KeyOf[d]} \cup Related[d]
  BY DEF Touched

LEMMA PurgeHandler ==
    ASSUME PurgeInv, AttemptInv, NEW h \in Handlers, HookStep(h)
    PROVE  PurgeInv'
  <1>a. hpc[h] # "idle"
    BY DEF HookStep, SeenBefore, NotSeen, MarkDelivery, PurgePrimary, PurgeFails, PurgeRelated,
           WebhookDone
  <1>0. PICK d \in Deliveries : d = hd[h]
    BY <1>a, Served
  <1> DEFINE Own == /\ d \notin hurt' /\ (d \in seen' \/ status'[d] = "OK") =>
                          Touched[d] \subseteq purged'[d] \/ Purging(d)'
                    /\ hpc'[h] = "related" =>
                          hd'[h] = d /\ (d \notin hurt' => Touched[d] \subseteq purged'[d] \cup hleft'[h])
  <1>1. /\ \A g \in Handlers \ {h} : hpc'[g] = hpc[g] /\ hd'[g] = hd[g] /\ hleft'[g] = hleft[g]
        /\ \A e \in Deliveries \ {d} : status'[e] = status[e] /\ (e \in seen' => e \in seen)
        /\ \A e \in Deliveries : purged[e] \subseteq purged'[e]
        /\ hurt \subseteq hurt'
    <2>1. /\ \A g \in Handlers \ {h} : hpc'[g] = hpc[g] /\ hd'[g] = hd[g] /\ hleft'[g] = hleft[g]
          /\ \A e \in Deliveries \ {d} : status'[e] = status[e]
      BY <1>0 DEF HookStep, SeenBefore, NotSeen, MarkDelivery, PurgePrimary, PurgeFails, PurgeRelated,
             WebhookDone, Answer, ghVars, AttemptInv, HandlerTypeOK, GithubTypeOK
    <2>2. \A e \in Deliveries \ {d} : e \in seen' => e \in seen
      BY <1>0 DEF HookStep, SeenBefore, NotSeen, MarkDelivery, PurgePrimary, PurgeFails, PurgeRelated,
             WebhookDone
    <2>3. \A e \in Deliveries : purged[e] \subseteq purged'[e]
      BY DEF HookStep, SeenBefore, NotSeen, MarkDelivery, PurgePrimary, PurgeFails, PurgeRelated,
             WebhookDone, AttemptInv, HandlerTypeOK
    <2>4. hurt \subseteq hurt'
      BY DEF HookStep, SeenBefore, NotSeen, MarkDelivery, PurgePrimary, PurgeFails, PurgeRelated,
             WebhookDone, StatementOK, StatementFails
    <2> QED
      BY <2>1, <2>2, <2>3, <2>4
  <1>2. ASSUME NEW e \in Deliveries, NEW g \in Handlers \ {h}, hd[g] = e, hpc[g] \in {"purge", "related"}
        PROVE  Purging(e)'
    BY <1>1, <1>2 DEF Purging
  \* Unless h itself was purging, what was seen or counted before is as it was.
  <1>3. ASSUME hpc[h] \notin {"purge", "related"}, d \notin hurt', d \in seen \/ status[d] = "OK"
        PROVE  Touched[d] \subseteq purged'[d] \/ Purging(d)'
    <2>1. Touched[d] \subseteq purged[d] \/ Purging(d)
      BY <1>0, <1>1, <1>3 DEF PurgeInv
    <2>2. ASSUME Purging(d) PROVE Purging(d)'
      <3>1. PICK g \in Handlers : hd[g] = d /\ hpc[g] \in {"purge", "related"}
        BY <2>2 DEF Purging
      <3>2. g # h
        BY <1>3, <3>1
      <3> QED
        BY <1>0, <1>2, <3>1, <3>2
    <2> QED
      BY <1>0, <1>1, <2>1, <2>2
  <1>4. ASSUME hpc'[h] \in {"purge", "related"}, hd'[h] = d PROVE Purging(d)'
    BY <1>4 DEF Purging
  <1>5. ASSUME SeenBefore(h) PROVE Own
    <2>1. hpc[h] = "seen" /\ d \in seen /\ hpc'[h] = "idle"
      BY <1>0, <1>5 DEF SeenBefore, Answer, AttemptInv, HandlerTypeOK
    <2> QED
      BY <1>3, <2>1
  <1>6. ASSUME NotSeen(h) PROVE Own
    <2>1. hpc[h] = "seen" /\ hpc'[h] = "mark" /\ UNCHANGED <<seen, status>>
      BY <1>6 DEF NotSeen, ghVars, AttemptInv, HandlerTypeOK
    <2> QED
      BY <1>3, <2>1
  <1>7. ASSUME MarkDelivery(h) PROVE Own
    <2>1. CASE KeyOf[d] = NoKey
      <3>1. hpc'[h] = "idle" /\ Touched[d] = {}
        BY <1>0, <1>7, <2>1, TouchedIs DEF MarkDelivery, Answer, AttemptInv, HandlerTypeOK
      <3> QED
        BY <3>1
    <2>2. CASE KeyOf[d] # NoKey
      <3>1. hpc'[h] = "purge" /\ hd'[h] = d
        BY <1>0, <1>7, <2>2 DEF MarkDelivery, AttemptInv, HandlerTypeOK
      <3> QED
        BY <1>4, <3>1
    <2> QED
      BY <2>1, <2>2
  <1>8. ASSUME PurgePrimary(h) PROVE Own
    <2>1. /\ purged'[d] = purged[d] \cup {KeyOf[d]} /\ hleft'[h] = Related[d] \ {KeyOf[d]}
          /\ hpc'[h] = "related" /\ hd'[h] = d
      BY <1>0, <1>8 DEF PurgePrimary, AttemptInv, HandlerTypeOK
    <2>2. Touched[d] \subseteq purged'[d] \cup hleft'[h]
      BY <1>0, <2>1, TouchedIs
    <2> QED
      BY <1>4, <2>1, <2>2
  <1>9. ASSUME PurgeFails(h) PROVE Own
    <2>1. d \in hurt' /\ hpc'[h] = "idle"
      BY <1>0, <1>9 DEF PurgeFails, StatementFails, Answer, AttemptInv, HandlerTypeOK
    <2> QED
      BY <2>1
  <1>10. ASSUME NEW k \in Keys, PurgeRelated(h, k) PROVE Own
    <2>1. /\ hpc[h] = "related" /\ hpc'[h] = "related" /\ hd'[h] = d
          /\ hleft'[h] = hleft[h] \ {k}
      BY <1>0, <1>10 DEF PurgeRelated, AttemptInv, HandlerTypeOK
    <2>2. d \in hurt' \/ purged'[d] = purged[d] \cup {k}
      BY <1>0, <1>10 DEF PurgeRelated, StatementFails, AttemptInv, HandlerTypeOK
    <2>3. d \notin hurt' => Touched[d] \subseteq purged[d] \cup hleft[h]
      BY <1>0, <1>1, <2>1 DEF PurgeInv
    <2> QED
      BY <1>4, <2>1, <2>2, <2>3
  <1>11. ASSUME WebhookDone(h) PROVE Own
    <2>1. hpc[h] = "related" /\ hleft[h] = {} /\ hpc'[h] = "idle" /\ UNCHANGED <<purged, hurt>>
      BY <1>11 DEF WebhookDone, Answer, AttemptInv, HandlerTypeOK
    <2>2. d \notin hurt' => Touched[d] \subseteq purged'[d]
      BY <1>0, <2>1 DEF PurgeInv
    <2> QED
      BY <2>1, <2>2
  <1>12. Own
    BY <1>5, <1>6, <1>7, <1>8, <1>9, <1>10, <1>11 DEF HookStep
  <1>13. ASSUME NEW e \in Deliveries \ hurt', d # e, e \in seen' \/ status'[e] = "OK"
         PROVE  Touched[e] \subseteq purged'[e] \/ Purging(e)'
    <2>1. Touched[e] \subseteq purged[e] \/ Purging(e)
      BY <1>1, <1>13 DEF PurgeInv
    <2>2. ASSUME Purging(e) PROVE Purging(e)'
      BY <1>0, <1>2, <1>13, <2>2 DEF Purging
    <2> QED
      BY <1>1, <2>1, <2>2
  <1>14. ASSUME NEW g \in Handlers, g # h, hpc'[g] = "related", hd'[g] \notin hurt'
         PROVE  Touched[hd'[g]] \subseteq purged'[hd'[g]] \cup hleft'[g]
    <2>1. hpc[g] = "related" /\ hd'[g] = hd[g] /\ hd[g] \notin hurt /\ hleft'[g] = hleft[g]
      BY <1>1, <1>14
    <2>2. Touched[hd[g]] \subseteq purged[hd[g]] \cup hleft[g] /\ hd[g] \in Deliveries
      BY <2>1, Served DEF PurgeInv
    <2> QED
      BY <1>1, <2>1, <2>2
  <1>15. \A e \in Deliveries \ hurt' : e \in seen' \/ status'[e] = "OK" =>
            Touched[e] \subseteq purged'[e] \/ Purging(e)'
    BY <1>12, <1>13
  <1>16. \A g \in Handlers : hpc'[g] = "related" /\ hd'[g] \notin hurt' =>
            Touched[hd'[g]] \subseteq purged'[hd'[g]] \cup hleft'[g]
    BY <1>12, <1>14
  <1>17. Touched' = Touched
    BY DEF Touched, KeyOf, Related
  <1> QED
    BY <1>15, <1>16, <1>17 DEF PurgeInv

LEMMA PurgeInit == Init => PurgeInv
  BY DEF Init, PurgeInv, Nothing

DeliveryInv == IngestInv /\ PurgeInv

LEMMA DeliveryNext == DeliveryInv /\ [Next]_vars => DeliveryInv'
  <1> SUFFICES ASSUME IngestInv, AttemptInv, PurgeInv, [Next]_vars PROVE PurgeInv'
    BY IngestNext DEF DeliveryInv, IngestInv
  <1> QED
    BY PurgeRequest, PurgeElsewhere, PurgeRestart, PurgeHandler DEF Next, SweepStep, Elsewhere

LEMMA DeliveryInit == Init => DeliveryInv
  BY HookInit, AttemptInit, SweepInit, PurgeInit DEF DeliveryInv, IngestInv

LEMMA DeliveredIsPurged == DeliveryInv => AllTouchedPurged
  <1> SUFFICES ASSUME PurgeInv, NEW d \in Deliveries \ hurt, status[d] = "OK",
                      ~\E h \in Handlers : hd[h] = d
               PROVE  Touched[d] \subseteq purged[d]
    BY DEF DeliveryInv, AllTouchedPurged
  <1>1. ~Purging(d)
    BY DEF Purging
  <1> QED
    BY <1>1 DEF PurgeInv

\* handleWebhook: a delivery GitHub counts as delivered, none of whose requests
\* failed in the plugin, and that no request serves any more, has purged every
\* key it touches: the primary one and the related ones of a check run. The
\* id is stored before the purge, so it is the failures and crashes in between,
\* and only they, that lose one.
THEOREM TouchedPurged == Spec => []AllTouchedPurged
  BY DeliveryInit, DeliveryNext, DeliveredIsPurged, PTL DEF Spec

----------------------------------------------------------------------------
(* The key grammar. *)

\* FlattenSeq of a short sequence: its recursive function exists, and is
\* unfolded.
LEMMA FlattenUnfolds ==
    ASSUME NEW s, NEW n \in 1 .. 8, Len(s) = n
    PROVE  \E f : /\ FlattenSeq(s) = f[n] /\ f[1] = s[1]
                  /\ \A i \in 2 .. n : f[i] = f[i - 1] \o s[i]
  <1> DEFINE F(g) == [i \in 1 .. n |-> IF i = 1 THEN s[i] ELSE g[i - 1] \o s[i]]
             w2 == s[1] \o s[2]
             w3 == w2 \o s[3]
             w4 == w3 \o s[4]
             w5 == w4 \o s[5]
             w6 == w5 \o s[6]
             w7 == w6 \o s[7]
             w8 == w7 \o s[8]
             w == <<s[1], w2, w3, w4, w5, w6, w7, w8>>
             v == [i \in 1 .. n |-> w[i]]
             f == CHOOSE g : g = F(g)
  <1>1. v = F(v)
    <2> HIDE DEF w2, w3, w4, w5, w6, w7, w8
    <2>1. \A i \in 1 .. 8 : w[i] = IF i = 1 THEN s[i] ELSE w[i - 1] \o s[i]
      <3>1. /\ w[1] = s[1] /\ w[2] = w[1] \o s[2] /\ w[3] = w[2] \o s[3] /\ w[4] = w[3] \o s[4]
            /\ w[5] = w[4] \o s[5] /\ w[6] = w[5] \o s[6] /\ w[7] = w[6] \o s[7] /\ w[8] = w[7] \o s[8]
        BY DEF w2, w3, w4, w5, w6, w7, w8
      <3> HIDE DEF w
      <3> TAKE i \in 1 .. 8
      <3>2. CASE i = 1
        BY <3>1, <3>2
      <3>3. CASE i = 2
        <4>1. i # 1 /\ i - 1 = 1
          BY <3>3
        <4> QED
          BY <3>1, <3>3, <4>1
      <3>4. CASE i = 3
        <4>1. i # 1 /\ i - 1 = 2
          BY <3>4
        <4> QED
          BY <3>1, <3>4, <4>1
      <3>5. CASE i = 4
        <4>1. i # 1 /\ i - 1 = 3
          BY <3>5
        <4> QED
          BY <3>1, <3>5, <4>1
      <3>6. CASE i = 5
        <4>1. i # 1 /\ i - 1 = 4
          BY <3>6
        <4> QED
          BY <3>1, <3>6, <4>1
      <3>7. CASE i = 6
        <4>1. i # 1 /\ i - 1 = 5
          BY <3>7
        <4> QED
          BY <3>1, <3>7, <4>1
      <3>8. CASE i = 7
        <4>1. i # 1 /\ i - 1 = 6
          BY <3>8
        <4> QED
          BY <3>1, <3>8, <4>1
      <3>9. CASE i = 8
        <4>1. i # 1 /\ i - 1 = 7
          BY <3>9
        <4> QED
          BY <3>1, <3>9, <4>1
      <3> QED
        BY <3>2, <3>3, <3>4, <3>5, <3>6, <3>7, <3>8, <3>9
    <2> HIDE DEF w
    <2>2. ASSUME NEW i \in 1 .. n PROVE v[i] = IF i = 1 THEN s[i] ELSE v[i - 1] \o s[i]
      <3>1. i \in 1 .. 8 /\ (i # 1 => i - 1 \in 1 .. n)
        OBVIOUS
      <3> QED
        BY <2>1, <3>1
    <2>3. v = [i \in 1 .. n |-> v[i]]
      OBVIOUS
    <2> HIDE DEF v
    <2> QED
      BY <2>2, <2>3
  <1>2. f = F(f)
    <2> HIDE DEF v
    <2> SUFFICES \E g : g = F(g)
      OBVIOUS
    <2> HIDE DEF F
    <2> QED
      BY <1>1
  <1>3. FlattenSeq(s) = f[n]
    BY DEF FlattenSeq
  <1> HIDE DEF f
  <1>4. ASSUME NEW i \in 1 .. n PROVE f[i] = IF i = 1 THEN s[i] ELSE f[i - 1] \o s[i]
    <2>1. F(f)[i] = IF i = 1 THEN s[i] ELSE f[i - 1] \o s[i]
      OBVIOUS
    <2> QED
      BY <1>2, <2>1
  <1>5. f[1] = s[1] /\ \A i \in 2 .. n : f[i] = f[i - 1] \o s[i]
    <2>1. 1 \in 1 .. n /\ \A i \in 2 .. n : i \in 1 .. n /\ i # 1
      OBVIOUS
    <2> QED
      BY <1>4, <2>1
  <1> QED
    BY <1>3, <1>5

LEMMA Flatten7 ==
    ASSUME NEW s, Len(s) = 7
    PROVE  FlattenSeq(s) = s[1] \o s[2] \o s[3] \o s[4] \o s[5] \o s[6] \o s[7]
  <1>1. PICK f : FlattenSeq(s) = f[7] /\ f[1] = s[1] /\ \A i \in 2 .. 7 : f[i] = f[i - 1] \o s[i]
    <2>1. 7 \in 1 .. 8
      OBVIOUS
    <2> QED
      BY <2>1, FlattenUnfolds
  <1>2. f[2] = f[1] \o s[2]
    <2>1. 2 - 1 = 1
      OBVIOUS
    <2>2. f[2] = f[2 - 1] \o s[2]
      BY <1>1
    <2> QED
      BY <2>1, <2>2
  <1>3. f[3] = f[2] \o s[3]
    BY <1>1
  <1>4. f[4] = f[3] \o s[4]
    BY <1>1
  <1>5. f[5] = f[4] \o s[5]
    BY <1>1
  <1>6. f[6] = f[5] \o s[6]
    BY <1>1
  <1>7. f[7] = f[6] \o s[7]
    BY <1>1
  <1> QED
    BY <1>1, <1>2, <1>3, <1>4, <1>5, <1>6, <1>7

LEMMA Flatten8 ==
    ASSUME NEW s, Len(s) = 8
    PROVE  FlattenSeq(s) = s[1] \o s[2] \o s[3] \o s[4] \o s[5] \o s[6] \o s[7] \o s[8]
  <1>1. PICK f : FlattenSeq(s) = f[8] /\ f[1] = s[1] /\ \A i \in 2 .. 8 : f[i] = f[i - 1] \o s[i]
    <2>1. 8 \in 1 .. 8
      OBVIOUS
    <2> QED
      BY <2>1, FlattenUnfolds
  <1>2. f[2] = f[1] \o s[2]
    <2>1. 2 - 1 = 1
      OBVIOUS
    <2>2. f[2] = f[2 - 1] \o s[2]
      BY <1>1
    <2> QED
      BY <2>1, <2>2
  <1>3. f[3] = f[2] \o s[3]
    BY <1>1
  <1>4. f[4] = f[3] \o s[4]
    BY <1>1
  <1>5. f[5] = f[4] \o s[5]
    BY <1>1
  <1>6. f[6] = f[5] \o s[6]
    BY <1>1
  <1>7. f[7] = f[6] \o s[7]
    BY <1>1
  <1>8. f[8] = f[7] \o s[8]
    BY <1>1
  <1> QED
    BY <1>1, <1>2, <1>3, <1>4, <1>5, <1>6, <1>7, <1>8

Cat(a, b) == a \o b

LEMMA CatType == ASSUME NEW T, NEW a \in Seq(T), NEW b \in Seq(T) PROVE Cat(a, b) \in Seq(T)
  BY DEF Cat

LEMMA CatAssoc ==
    ASSUME NEW T, NEW a \in Seq(T), NEW b \in Seq(T), NEW c \in Seq(T)
    PROVE  Cat(Cat(a, b), c) = Cat(a, Cat(b, c))
  BY DEF Cat

LEMMA Regroup7 ==
    ASSUME NEW T, NEW s \in [1 .. 7 -> Seq(T)]
    PROVE  s[1] \o s[2] \o s[3] \o s[4] \o s[5] \o s[6] \o s[7] = s[1] \o (s[2] \o (s[3] \o (s[4] \o (s[5] \o (s[6] \o s[7])))))
  <1>0. /\ s[1] \in Seq(T) /\ s[2] \in Seq(T) /\ s[3] \in Seq(T) /\ s[4] \in Seq(T) /\ s[5] \in Seq(T)
        /\ s[6] \in Seq(T) /\ s[7] \in Seq(T)
    OBVIOUS
  <1>1. Cat(s[1], s[2]) \in Seq(T)
    BY <1>0, CatType
  <1>2. Cat(Cat(s[1], s[2]), s[3]) \in Seq(T)
    BY <1>0, <1>1, CatType
  <1>3. Cat(Cat(Cat(s[1], s[2]), s[3]), s[4]) \in Seq(T)
    BY <1>0, <1>2, CatType
  <1>4. Cat(Cat(Cat(Cat(s[1], s[2]), s[3]), s[4]), s[5]) \in Seq(T)
    BY <1>0, <1>3, CatType
  <1>5. Cat(s[6], s[7]) \in Seq(T)
    BY <1>0, CatType
  <1>6. Cat(s[5], Cat(s[6], s[7])) \in Seq(T)
    BY <1>0, <1>5, CatType
  <1>7. Cat(s[4], Cat(s[5], Cat(s[6], s[7]))) \in Seq(T)
    BY <1>0, <1>6, CatType
  <1>8. Cat(s[3], Cat(s[4], Cat(s[5], Cat(s[6], s[7])))) \in Seq(T)
    BY <1>0, <1>7, CatType
  <1>9. Cat(Cat(Cat(Cat(Cat(Cat(s[1], s[2]), s[3]), s[4]), s[5]), s[6]), s[7]) = Cat(Cat(Cat(Cat(Cat(s[1], s[2]), s[3]), s[4]), s[5]), Cat(s[6], s[7]))
    BY <1>0, <1>4, CatAssoc
  <1>10. Cat(Cat(Cat(Cat(Cat(s[1], s[2]), s[3]), s[4]), s[5]), Cat(s[6], s[7])) = Cat(Cat(Cat(Cat(s[1], s[2]), s[3]), s[4]), Cat(s[5], Cat(s[6], s[7])))
    BY <1>0, <1>3, <1>5, CatAssoc
  <1>11. Cat(Cat(Cat(Cat(s[1], s[2]), s[3]), s[4]), Cat(s[5], Cat(s[6], s[7]))) = Cat(Cat(Cat(s[1], s[2]), s[3]), Cat(s[4], Cat(s[5], Cat(s[6], s[7]))))
    BY <1>0, <1>2, <1>6, CatAssoc
  <1>12. Cat(Cat(Cat(s[1], s[2]), s[3]), Cat(s[4], Cat(s[5], Cat(s[6], s[7])))) = Cat(Cat(s[1], s[2]), Cat(s[3], Cat(s[4], Cat(s[5], Cat(s[6], s[7])))))
    BY <1>0, <1>1, <1>7, CatAssoc
  <1>13. Cat(Cat(s[1], s[2]), Cat(s[3], Cat(s[4], Cat(s[5], Cat(s[6], s[7]))))) = Cat(s[1], Cat(s[2], Cat(s[3], Cat(s[4], Cat(s[5], Cat(s[6], s[7]))))))
    BY <1>0, <1>8, CatAssoc
  <1> QED
    BY <1>9, <1>10, <1>11, <1>12, <1>13, Zenon DEF Cat

----------------------------------------------------------------------------
(* Cuts. *)

\* s is u, then the first of the atoms, a, then v.
IsCut(s, atoms, u, a, v) ==
    LET i == IndexAny(s, atoms) IN i # 0 /\ s[i] = a /\ Before(s, i) = u /\ After(s, i) = v

LEMMA CutAt ==
    ASSUME NEW T, NEW u \in Seq(T), NEW v \in Seq(T), NEW a \in T, NEW atoms, a \in atoms,
           \A i \in 1 .. Len(u) : u[i] \notin atoms
    PROVE  IsCut(u \o (<<a>> \o v), atoms, u, a, v)
  <1> DEFINE s == u \o (<<a>> \o v)
             n == Len(u) + 1
             at == {j \in DOMAIN s : s[j] \in atoms}
  <1>1. s \in Seq(T) /\ Len(s) = n + Len(v) /\ Len(u) \in Nat /\ Len(v) \in Nat
    OBVIOUS
  <1>2. \A j \in 1 .. Len(u) : s[j] = u[j]
    OBVIOUS
  <1>3. s[n] = a
    OBVIOUS
  <1>4. \A j \in 1 .. Len(v) : s[n + j] = v[j]
    OBVIOUS
  <1> HIDE DEF s
  <1>5. n \in at /\ \A j \in at : j \in Nat /\ n =< j
    BY <1>1, <1>2, <1>3
  <1>6. IndexAny(s, atoms) = n
    <2>1. at # {} => IndexAny(s, atoms) = Min(at)
      BY DEF IndexAny
    <2> HIDE DEF at
    <2>2. Min(at) \in at /\ Min(at) =< n
      <3>1. n \in at /\ \A y \in at : n =< y
        BY <1>5
      <3> QED
        BY <3>1 DEF Min
    <2>3. n \in Nat /\ Min(at) \in Nat /\ n =< Min(at)
      BY <1>1, <1>5, <2>2
    <2> QED
      BY <1>5, <2>1, <2>2, <2>3
  <1>7. Before(s, n) = u
    <2>1. Before(s, n) \in Seq(T) /\ Len(Before(s, n)) = Len(u) /\ \A j \in 1 .. Len(u) : Before(s, n)[j] = s[j]
      BY <1>1 DEF Before
    <2> QED
      BY <1>2, <2>1
  <1>8. After(s, n) = v
    <2>1. After(s, n) \in Seq(T) /\ Len(After(s, n)) = Len(v) /\ \A j \in 1 .. Len(v) : After(s, n)[j] = s[n + j]
      BY <1>1 DEF After
    <2> QED
      BY <1>4, <2>1
  <1> QED
    BY <1>1, <1>3, <1>6, <1>7, <1>8 DEF s, IsCut

LEMMA NoCut ==
    ASSUME NEW T, NEW u \in Seq(T), NEW atoms, \A i \in 1 .. Len(u) : u[i] \notin atoms
    PROVE  IndexAny(u, atoms) = 0
  BY DEF IndexAny

----------------------------------------------------------------------------
(* Templates. *)

\* The text put in for the atom a of a template.
Filled(a, parts) ==
    LET of == {p \in DOMAIN parts : placeholder[p] = a} IN IF of = {} THEN <<a>> ELSE parts[CHOOSE p \in of : TRUE]

LEMMA FilledParts ==
    ASSUME NEW parts, DOMAIN parts = {"owner", "repo", "disc"}
    PROVE  /\ Filled("{owner}", parts) = parts["owner"]
           /\ Filled("{repo}", parts) = parts["repo"]
           /\ Filled("{disc}", parts) = parts["disc"]
           /\ \A a : a \notin {"{owner}", "{repo}", "{disc}"} => Filled(a, parts) = <<a>>
  <1>1. placeholder["owner"] = "{owner}" /\ placeholder["repo"] = "{repo}" /\ placeholder["disc"] = "{disc}"
    BY DEF placeholder
  <1>2. {p \in DOMAIN parts : placeholder[p] = "{owner}"} = {"owner"}
    BY <1>1
  <1>3. {p \in DOMAIN parts : placeholder[p] = "{repo}"} = {"repo"}
    BY <1>1
  <1>4. {p \in DOMAIN parts : placeholder[p] = "{disc}"} = {"disc"}
    BY <1>1
  <1>5. \A a : a \notin {"{owner}", "{repo}", "{disc}"} => {p \in DOMAIN parts : placeholder[p] = a} = {}
    BY <1>1
  <1> QED
    BY <1>2, <1>3, <1>4, <1>5 DEF Filled

LEMMA Joined ==
    ASSUME NEW T, NEW x \in Seq(T), NEW y \in Seq(T), NEW z \in Seq(T), Len(z) = Len(x) + Len(y),
           \A i \in 1 .. Len(x) : z[i] = x[i], \A i \in 1 .. Len(y) : z[Len(x) + i] = y[i]
    PROVE  x \o y = z
  <1> DEFINE w == x \o y
  <1>1. w \in Seq(T) /\ Len(w) = Len(x) + Len(y) /\ Len(x) \in Nat /\ Len(y) \in Nat
    OBVIOUS
  <1>2. (\A i \in 1 .. Len(x) : w[i] = x[i]) /\ (\A i \in 1 .. Len(y) : w[Len(x) + i] = y[i])
    OBVIOUS
  <1> HIDE DEF w
  <1>3. ASSUME NEW i \in 1 .. Len(w) PROVE w[i] = z[i]
    <2>1. CASE i \in 1 .. Len(x)
      BY <1>2, <2>1
    <2>2. CASE i \notin 1 .. Len(x)
      <3>1. i - Len(x) \in 1 .. Len(y) /\ Len(x) + (i - Len(x)) = i
        BY <1>1, <2>2
      <3> QED
        BY <1>2, <3>1
    <2> QED
      BY <2>1, <2>2
  <1>4. w = z
    BY <1>1, <1>3
  <1> QED
    BY <1>4 DEF w

LEMMA KindTemplates ==
    ASSUME NEW kind \in {"issue", "pr"}
    PROVE  /\ kindSpecs[kind].keyfmt = <<kind, ":", "{owner}", "/", "{repo}", "#", "{disc}">>
           /\ kindSpecs[kind].rest = <<"/repos/", "{owner}", "/", "{repo}", "/",
                                       IF kind = "pr" THEN "pulls" ELSE "issues", "/", "{disc}">>
  <1>1. /\ kindSpecs["issue"].keyfmt = <<"issue", ":", "{owner}", "/", "{repo}", "#", "{disc}">>
        /\ kindSpecs["issue"].rest = repoPath \o <<"/", "issues", "/", "{disc}">>
    BY DEF kindSpecs, Spec1
  <1>2. /\ kindSpecs["pr"].keyfmt = <<"pr", ":", "{owner}", "/", "{repo}", "#", "{disc}">>
        /\ kindSpecs["pr"].rest = repoPath \o <<"/", "pulls", "/", "{disc}">>
    BY DEF kindSpecs, Spec1
  <1>3. ASSUME NEW a PROVE repoPath \o <<"/", a, "/", "{disc}">> = <<"/repos/", "{owner}", "/", "{repo}", "/", a, "/", "{disc}">>
    <2> DEFINE x == <<"/repos/", "{owner}", "/", "{repo}">>
               y == <<"/", a, "/", "{disc}">>
               z == <<"/repos/", "{owner}", "/", "{repo}", "/", a, "/", "{disc}">>
               U == {"/repos/", "{owner}", "/", "{repo}", "{disc}", a}
    <2>1. x \in Seq(U) /\ Len(x) = 4 /\ x[1] = "/repos/" /\ x[2] = "{owner}" /\ x[3] = "/" /\ x[4] = "{repo}"
      OBVIOUS
    <2>2. y \in Seq(U) /\ Len(y) = 4 /\ y[1] = "/" /\ y[2] = a /\ y[3] = "/" /\ y[4] = "{disc}"
      OBVIOUS
    <2>3. /\ z \in Seq(U) /\ Len(z) = 8 /\ z[1] = "/repos/" /\ z[2] = "{owner}" /\ z[3] = "/" /\ z[4] = "{repo}"
          /\ z[5] = "/" /\ z[6] = a /\ z[7] = "/" /\ z[8] = "{disc}"
      OBVIOUS
    <2>4. (\A i \in 1 .. 4 : z[i] = x[i]) /\ (\A i \in 1 .. 4 : z[4 + i] = y[i])
      OBVIOUS
    <2> HIDE DEF x, y, z, U
    <2>5. x \o y = z
      <3>1. x \in Seq(U) /\ y \in Seq(U) /\ z \in Seq(U)
        BY <2>1, <2>2, <2>3, Zenon
      <3>l. Len(z) = Len(x) + Len(y)
        <4>1. Len(x) = 4 /\ Len(y) = 4 /\ Len(z) = 8
          BY <2>1, <2>2, <2>3, Zenon
        <4> QED
          BY <4>1
      <3>2. (\A i \in 1 .. Len(x) : z[i] = x[i]) /\ (\A i \in 1 .. Len(y) : z[Len(x) + i] = y[i])
        BY <2>1, <2>2, <2>4
      <3> QED
        BY <3>1, <3>l, <3>2, Joined
    <2> QED
      BY <2>5 DEF repoPath, x, y, z
  <1> QED
    BY <1>1, <1>2, <1>3

\* The kinds of the events about issues, pull requests and check runs.
LEMMA EventKinds ==
    /\ kindsOfEvent("issues") = {"issue"} /\ kindsOfEvent("issue_comment") = {"issue"}
    /\ kindsOfEvent("check_run") = {"checkRun"}
    /\ \A e \in {"pull_request", "pull_request_review", "pull_request_review_comment"} : kindsOfEvent(e) = {"pr"}
  <1>1. DOMAIN kindSpecs = {"issue", "pr", "checkRun", "review", "comment", "label", "release", "commit", "ref", "repo", "user"}
    BY DEF kindSpecs
  <1>2. /\ kindSpecs["issue"].events = {"issues", "issue_comment"}
        /\ kindSpecs["pr"].events = {"pull_request", "pull_request_review", "pull_request_review_comment"}
        /\ kindSpecs["checkRun"].events = {"check_run"}
    BY DEF kindSpecs, Spec1
  <1>3. /\ kindSpecs["review"].events = {} /\ kindSpecs["comment"].events = {} /\ kindSpecs["label"].events = {"label"}
        /\ kindSpecs["release"].events = {"release"} /\ kindSpecs["commit"].events = {}
    BY DEF kindSpecs, Spec1
  <1>4. kindSpecs["ref"].events = {} /\ kindSpecs["repo"].events = {} /\ kindSpecs["user"].events = {}
    BY DEF kindSpecs, Spec1
  <1> QED
    BY <1>1, <1>2, <1>3, <1>4 DEF kindsOfEvent

\* A key of five parts: the separator sep is "#" or, for a check run, "/".
KeyForm(kind, o, r, sep, d) == <<kind>> \o (<<":">> \o (o \o (<<"/">> \o (r \o (<<sep>> \o d)))))
KeyText(kind, o, r, d) == KeyForm(kind, o, r, "#", d)

Built(kind, o, r, d) ==
    /\ fill(kindSpecs[kind].keyfmt, [owner |-> o, repo |-> r, disc |-> d]) = KeyText(kind, o, r, d)
    /\ KeyText(kind, o, r, d) = <<kind, ":">> \o o \o <<"/">> \o r \o <<"#">> \o d

Parsed(key, kind, o, r, d) ==
    kindOf(key) = <<kind>> /\ parseKey(key) = [owner |-> o, repo |-> r, disc |-> d]

Fetched(key, kind, o, r, d) ==
    restPath(key) = <<"/repos/">> \o o \o <<"/">> \o r
                       \o <<"/", IF kind = "pr" THEN "pulls" ELSE "issues", "/">> \o d

Tagged(key, kind, o, r) == composite(key) = <<"repo", ":">> \o o \o <<"/">> \o r \o <<"|", kind>>

\* Texts that a key of an issue or a pull request is made of: no "@" is among
\* the atoms T, and a "/" or "#" only between them.
Parts(T, kind, o, r, d) ==
    /\ "@" \notin T /\ kind \in {"issue", "pr"} /\ kind \in T
    /\ {":", "/", "#", "/repos/", "issues", "pulls", "repo", "|"} \subseteq T
    /\ o \in Seq(T) /\ r \in Seq(T) /\ d \in Seq(T)
    /\ \A i \in 1 .. Len(o) : o[i] \notin {"/", "#"}
    /\ \A i \in 1 .. Len(r) : r[i] \notin {"/", "#"}
    /\ \A i \in 1 .. Len(d) : d[i] \notin {"/", "#"}

LEMMA Pair == ASSUME NEW T, NEW a \in T, NEW b \in T PROVE <<a>> \o <<b>> = <<a, b>>
  <1> DEFINE x == <<a>>
             y == <<b>>
             z == <<a, b>>
  <1>1. x \in Seq(T) /\ Len(x) = 1 /\ x[1] = a
    OBVIOUS
  <1>2. y \in Seq(T) /\ Len(y) = 1 /\ y[1] = b
    OBVIOUS
  <1>3. z \in Seq(T) /\ Len(z) = 2 /\ z[1] = a /\ z[2] = b
    OBVIOUS
  <1> HIDE DEF x, y, z
  <1>4. /\ Len(z) = Len(x) + Len(y)
        /\ \A i \in 1 .. Len(x) : z[i] = x[i]
        /\ \A i \in 1 .. Len(y) : z[Len(x) + i] = y[i]
    BY <1>1, <1>2, <1>3
  <1>5. x \o y = z
    BY <1>1, <1>2, <1>3, <1>4, Joined
  <1> QED
    BY <1>5, Zenon DEF x, y, z

\* The template of such a key makes it.
Forms(kind, o, r, sep, d) ==
    /\ fill(<<kind, ":", "{owner}", "/", "{repo}", sep, "{disc}">>, [owner |-> o, repo |-> r, disc |-> d])
          = KeyForm(kind, o, r, sep, d)
    /\ <<kind>> \o <<":">> \o o \o <<"/">> \o r \o <<sep>> \o d = KeyForm(kind, o, r, sep, d)

LEMMA FillForm ==
    ASSUME NEW T, NEW o \in Seq(T), NEW r \in Seq(T), NEW d \in Seq(T),
           NEW kind \in {"issue", "pr", "checkRun"}, NEW sep \in {"#", "/"},
           kind \in T, ":" \in T, "/" \in T, sep \in T
    PROVE  Forms(kind, o, r, sep, d)
  <1> DEFINE t == <<kind, ":", "{owner}", "/", "{repo}", sep, "{disc}">>
             parts == [owner |-> o, repo |-> r, disc |-> d]
             s == [i \in DOMAIN t |-> Filled(t[i], parts)]
  <1>1. DOMAIN parts = {"owner", "repo", "disc"} /\ parts["owner"] = o /\ parts["repo"] = r /\ parts["disc"] = d
    OBVIOUS
  <1> HIDE DEF parts
  <1>2. fill(t, parts) = FlattenSeq(s)
    BY DEF fill, Filled
  <1>3. /\ Filled("{owner}", parts) = o /\ Filled("{repo}", parts) = r /\ Filled("{disc}", parts) = d
        /\ \A a \in {kind, ":", "/", sep} : Filled(a, parts) = <<a>>
    BY <1>1, FilledParts
  <1>t. /\ DOMAIN t = 1 .. 7 /\ t[1] = kind /\ t[2] = ":" /\ t[3] = "{owner}" /\ t[4] = "/" /\ t[5] = "{repo}"
        /\ t[6] = sep /\ t[7] = "{disc}"
    OBVIOUS
  <1> HIDE DEF t
  <1>4. Len(s) = 7 /\ \A i \in 1 .. 7 : s[i] = Filled(t[i], parts)
    <2>1. s = [i \in 1 .. 7 |-> Filled(t[i], parts)]
      BY <1>t
    <2> QED
      BY <2>1
  <1>5. s[1] = <<kind>> /\ s[2] = <<":">> /\ s[3] = o /\ s[4] = <<"/">> /\ s[5] = r /\ s[6] = <<sep>> /\ s[7] = d
    <2>1. /\ s[1] = Filled(t[1], parts) /\ s[2] = Filled(t[2], parts) /\ s[3] = Filled(t[3], parts) /\ s[4] = Filled(t[4], parts)
          /\ s[5] = Filled(t[5], parts) /\ s[6] = Filled(t[6], parts) /\ s[7] = Filled(t[7], parts)
      <3> HIDE DEF s
      <3> QED
        BY <1>4
    <2> HIDE DEF s
    <2> QED
      BY <1>3, <1>t, <2>1, Zenon
  <1>d. s = [i \in 1 .. 7 |-> s[i]]
    BY <1>t
  <1> HIDE DEF s
  <1>6. FlattenSeq(s) = <<kind>> \o <<":">> \o o \o <<"/">> \o r \o <<sep>> \o d
    BY <1>4, <1>5, Flatten7
  <1>7. <<kind>> \o <<":">> \o o \o <<"/">> \o r \o <<sep>> \o d = KeyForm(kind, o, r, sep, d)
    <2>1. s \in [1 .. 7 -> Seq(T)]
      <3>1. <<kind>> \in Seq(T) /\ <<":">> \in Seq(T) /\ <<"/">> \in Seq(T) /\ <<sep>> \in Seq(T)
        OBVIOUS
      <3>2. /\ s[1] \in Seq(T) /\ s[2] \in Seq(T) /\ s[3] \in Seq(T) /\ s[4] \in Seq(T) /\ s[5] \in Seq(T)
            /\ s[6] \in Seq(T) /\ s[7] \in Seq(T)
        BY <1>5, <3>1, Zenon
      <3>3. \A i \in 1 .. 7 : s[i] \in Seq(T)
        BY <3>2
      <3> QED
        BY <1>d, <3>3
    <2>2. s[1] \o s[2] \o s[3] \o s[4] \o s[5] \o s[6] \o s[7] = s[1] \o (s[2] \o (s[3] \o (s[4] \o (s[5] \o (s[6] \o s[7])))))
      BY <2>1, Regroup7
    <2> QED
      BY <1>5, <2>2, Zenon DEF KeyForm
  <1> QED
    BY <1>2, <1>6, <1>7, Zenon DEF t, parts, Forms

\* A key built so is not the empty one.
LEMMA FormNonempty ==
    ASSUME NEW T, NEW o \in Seq(T), NEW r \in Seq(T), NEW d \in Seq(T), NEW kind \in T, NEW sep \in T, {":", "/"} \subseteq T
    PROVE  KeyForm(kind, o, r, sep, d) # <<>>
  <1> DEFINE rest == <<":">> \o (o \o (<<"/">> \o (r \o (<<sep>> \o d))))
  <1>1. rest \in Seq(T)
    OBVIOUS
  <1> HIDE DEF rest
  <1>2. <<kind>> \o rest # <<>>
    BY <1>1
  <1> QED
    BY <1>2, Zenon DEF rest, KeyForm

LEMMA FillKey ==
    ASSUME NEW T, NEW kind, NEW o, NEW r, NEW d, Parts(T, kind, o, r, d)
    PROVE  Built(kind, o, r, d)
  <1>0. /\ o \in Seq(T) /\ r \in Seq(T) /\ d \in Seq(T) /\ kind \in {"issue", "pr"}
        /\ kind \in T /\ ":" \in T /\ "/" \in T /\ "#" \in T
    BY DEF Parts
  <1>1. <<kind>> \o <<":">> = <<kind, ":">>
    BY <1>0, Pair
  <1>2. kindSpecs[kind].keyfmt = <<kind, ":", "{owner}", "/", "{repo}", "#", "{disc}">>
    BY <1>0, KindTemplates
  <1>3. kind \in {"issue", "pr", "checkRun"} /\ "#" \in {"#", "/"}
    BY <1>0
  <1>4. Forms(kind, o, r, "#", d)
    BY <1>0, <1>3, FillForm
  <1> QED
    BY <1>1, <1>2, <1>4, Zenon DEF Built, KeyText, Forms

LEMMA ParsedParts ==
    ASSUME NEW key, kindOf(key) # <<"user">>, stripHost(key) = key, NEW u, NEW rest, NEW o, NEW tail, NEW r, NEW d,
           IsCut(key, {":"}, u, ":", rest), IsCut(rest, {"/"}, o, "/", tail),
           IsCut(tail, {"#", "/"}, r, "#", d), IndexAny(d, {"/"}) = 0
    PROVE  parseKey(key) = [owner |-> o, repo |-> r, disc |-> d]
  <1>1. IndexAny(key, {":"}) # 0 /\ After(key, IndexAny(key, {":"})) = rest
    BY DEF IsCut
  <1>2. IndexAny(rest, {"/"}) # 0 /\ Before(rest, IndexAny(rest, {"/"})) = o /\ After(rest, IndexAny(rest, {"/"})) = tail
    BY DEF IsCut
  <1>3. /\ IndexAny(tail, {"#", "/"}) # 0 /\ tail[IndexAny(tail, {"#", "/"})] = "#"
        /\ Before(tail, IndexAny(tail, {"#", "/"})) = r /\ After(tail, IndexAny(tail, {"#", "/"})) = d
    BY DEF IsCut
  <1> QED
    BY <1>1, <1>2, <1>3 DEF parseKey

\* What parseKey makes of them again.
LEMMA KeyParsed ==
    ASSUME NEW T, NEW kind, NEW o, NEW r, NEW d, Parts(T, kind, o, r, d)
    PROVE  Parsed(KeyText(kind, o, r, d), kind, o, r, d)
  <1> USE DEF Parts
  <1> DEFINE tail == r \o (<<"#">> \o d)
             rest == o \o (<<"/">> \o tail)
             u == <<kind>>
             key == u \o (<<":">> \o rest)
  <1>1. tail \in Seq(T)
    OBVIOUS
  <1>2. IsCut(tail, {"#", "/"}, r, "#", d)
    <2>1. "#" \in T /\ "#" \in {"#", "/"} /\ \A i \in 1 .. Len(r) : r[i] \notin {"#", "/"}
      OBVIOUS
    <2> QED
      BY <2>1, CutAt
  <1> HIDE DEF tail
  <1>3. rest \in Seq(T)
    BY <1>1
  <1>4. IsCut(rest, {"/"}, o, "/", tail)
    <2>1. "/" \in T /\ "/" \in {"/"} /\ \A i \in 1 .. Len(o) : o[i] \notin {"/"}
      OBVIOUS
    <2> QED
      BY <1>1, <2>1, CutAt
  <1> HIDE DEF rest
  <1>5. u \in Seq(T) /\ \A i \in 1 .. Len(u) : u[i] \notin {":"}
    OBVIOUS
  <1> HIDE DEF u
  <1>6. key \in Seq(T)
    BY <1>3, <1>5
  <1>7. IsCut(key, {":"}, u, ":", rest)
    <2>1. ":" \in T /\ ":" \in {":"}
      OBVIOUS
    <2> QED
      BY <1>3, <1>5, <2>1, CutAt
  <1> HIDE DEF key
  <1>8. stripHost(key) = key
    <2>1. \A i \in DOMAIN key : key[i] # "@"
      BY <1>6
    <2> QED
      BY <2>1 DEF stripHost, LastIndex
  <1>9. IndexAny(d, {"/"}) = 0
    BY NoCut
  <1>10. kindOf(key) = u /\ u # <<"user">>
    BY <1>7 DEF kindOf, u, IsCut
  <1>11. parseKey(key) = [owner |-> o, repo |-> r, disc |-> d]
    BY <1>2, <1>4, <1>7, <1>8, <1>9, <1>10, ParsedParts
  <1>12. key = KeyText(kind, o, r, d)
    BY Zenon DEF key, rest, tail, u, KeyText, KeyForm
  <1> QED
    BY <1>10, <1>11, <1>12 DEF u, Parsed

\* What the refetch asks for.
LEMMA KeyFetched ==
    ASSUME NEW T, NEW kind, NEW key, NEW o, NEW r, NEW d, Parts(T, kind, o, r, d), Parsed(key, kind, o, r, d)
    PROVE  Fetched(key, kind, o, r, d)
  <1> USE DEF Parts
  <1> DEFINE p == parseKey(key)
             a == IF kind = "pr" THEN "pulls" ELSE "issues"
             t == <<"/repos/", "{owner}", "/", "{repo}", "/", a, "/", "{disc}">>
             parts == [f \in DOMAIN p |-> IF f \in {"disc", "subid"} THEN PathEscape(p[f]) ELSE p[f]]
             s == [i \in DOMAIN t |-> Filled(t[i], parts)]
  <1>0. kindOf(key) = <<kind>> /\ parseKey(key) = [owner |-> o, repo |-> r, disc |-> d]
    BY DEF Parsed
  <1>1. PathEscape(d) = d
    BY DEF PathEscape
  <1>2. DOMAIN parts = {"owner", "repo", "disc"} /\ parts["owner"] = o /\ parts["repo"] = r /\ parts["disc"] = d
    BY <1>0, <1>1
  <1> HIDE DEF parts
  <1>3. restPath(key) = fill(kindSpecs[kind].rest, parts)
    BY <1>0 DEF restPath, parts
  <1>4. fill(t, parts) = FlattenSeq(s)
    BY DEF fill, Filled
  <1>5. a \in {"pulls", "issues"}
    OBVIOUS
  <1> HIDE DEF a
  <1>6. /\ Filled("{owner}", parts) = o /\ Filled("{repo}", parts) = r /\ Filled("{disc}", parts) = d
        /\ Filled("/repos/", parts) = <<"/repos/">> /\ Filled("/", parts) = <<"/">> /\ Filled(a, parts) = <<a>>
    BY <1>2, <1>5, FilledParts
  <1>7. /\ DOMAIN t = 1 .. 8 /\ t[1] = "/repos/" /\ t[2] = "{owner}" /\ t[3] = "/" /\ t[4] = "{repo}"
        /\ t[5] = "/" /\ t[6] = a /\ t[7] = "/" /\ t[8] = "{disc}"
    OBVIOUS
  <1> HIDE DEF t
  <1>8. s = [i \in 1 .. 8 |-> Filled(t[i], parts)]
    BY <1>7
  <1>9. Len(s) = 8
    BY <1>8
  <1>10. /\ s[1] = Filled(t[1], parts) /\ s[2] = Filled(t[2], parts) /\ s[3] = Filled(t[3], parts)
         /\ s[4] = Filled(t[4], parts) /\ s[5] = Filled(t[5], parts) /\ s[6] = Filled(t[6], parts)
         /\ s[7] = Filled(t[7], parts) /\ s[8] = Filled(t[8], parts)
    BY <1>8
  <1> HIDE DEF s
  <1>11. FlattenSeq(s) = <<"/repos/">> \o o \o <<"/">> \o r \o <<"/">> \o <<a>> \o <<"/">> \o d
    <2>1. FlattenSeq(s) = s[1] \o s[2] \o s[3] \o s[4] \o s[5] \o s[6] \o s[7] \o s[8]
      BY <1>9, Flatten8
    <2> QED
      BY <1>6, <1>7, <1>10, <2>1, Zenon
  <1>12. \A x \in Seq(T) : x \o <<"/">> \o <<a>> \o <<"/">> = x \o <<"/", a, "/">>
    BY <1>5
  <1>13. <<"/repos/">> \o o \o <<"/">> \o r \in Seq(T)
    OBVIOUS
  <1>14. FlattenSeq(s) = <<"/repos/">> \o o \o <<"/">> \o r \o <<"/", a, "/">> \o d
    BY <1>11, <1>12, <1>13, Zenon
  <1>15. kindSpecs[kind].rest = t
    BY KindTemplates DEF t, a
  <1> QED
    BY <1>3, <1>4, <1>14, <1>15, Zenon DEF a, Fetched

LEMMA BeginsSo ==
    ASSUME NEW T, NEW q \in Seq(T), NEW d \in Seq(T)
    PROVE  IsPrefix(q, q \o d)
  BY DEF IsPrefix

LEMMA KeyTagged ==
    ASSUME NEW T, NEW kind, NEW key, NEW o, NEW r, NEW d, Parts(T, kind, o, r, d), Parsed(key, kind, o, r, d),
           o # <<>>, r # <<>>
    PROVE  Tagged(key, kind, o, r)
  <1> USE DEF Parts
  <1> DEFINE x == <<"repo", ":">> \o o \o <<"/">> \o r
  <1>1. x \in Seq(T) /\ x # <<>>
    OBVIOUS
  <1>2. Part(parseKey(key), "owner") = o /\ Part(parseKey(key), "repo") = r
    BY DEF Part, Parsed
  <1>3. scopePrefix(key) = x
    BY <1>2 DEF scopePrefix, Parsed
  <1>4. \A y \in Seq(T) : y \o <<"|">> \o <<kind>> = y \o <<"|", kind>>
    OBVIOUS
  <1> HIDE DEF x
  <1>5. composite(key) = x \o <<"|">> \o <<kind>>
    BY <1>1, <1>3 DEF composite, Parsed
  <1>6. composite(key) = x \o <<"|", kind>>
    BY <1>1, <1>4, <1>5, Zenon
  <1> QED
    BY <1>6, Zenon DEF x, Tagged

LEMMA KeyIsSafe ==
    ASSUME NEW key, NEW o, NEW r, NEW d, parseKey(key) = [owner |-> o, repo |-> r, disc |-> d], safeName(o), safeName(r)
    PROVE  safeKey(key)
  <1>1. Part(parseKey(key), "owner") = o /\ Part(parseKey(key), "repo") = r
    BY DEF Part
  <1> QED
    BY <1>1 DEF safeKey

Named(s) == PlainText(s) /\ s # <<>>

LEMMA WiderText ==
    ASSUME NEW S, NEW T, S \subseteq T, NEW s \in Seq(S)
    PROVE  s \in Seq(T)
  OBVIOUS

\* Plain names are such texts.
LEMMA KeyParts ==
    ASSUME NEW o, NEW r, NEW d, Named(o), Named(r), Named(d), NEW kind \in {"issue", "pr"}
    PROVE  \E T : Parts(T, kind, o, r, d) /\ "checkRun" \in T
  <1> DEFINE Of(s) == {s[i] : i \in DOMAIN s}
             C == {":", "/", "#", "issue", "pr", "/repos/", "issues", "pulls", "repo", "|", "checkRun"}
             T == C \cup Of(o) \cup Of(r) \cup Of(d)
  <1>1. "@" \notin T /\ C \subseteq T /\ kind \in T /\ "checkRun" \in T
    BY DEF Named, PlainText
  <1>2. o \in Seq(T) /\ r \in Seq(T) /\ d \in Seq(T)
    <2>1. o \in Seq(Of(o)) /\ r \in Seq(Of(r)) /\ d \in Seq(Of(d))
      BY DEF Named, PlainText, IsText
    <2>2. Of(o) \subseteq T /\ Of(r) \subseteq T /\ Of(d) \subseteq T
      OBVIOUS
    <2> HIDE DEF T, Of
    <2> QED
      BY <2>1, <2>2, WiderText
  <1>3. /\ \A i \in 1 .. Len(o) : o[i] \notin {"/", "#"}
        /\ \A i \in 1 .. Len(r) : r[i] \notin {"/", "#"}
        /\ \A i \in 1 .. Len(d) : d[i] \notin {"/", "#"}
    BY <1>2 DEF Named, PlainText
  <1> HIDE DEF T, Of
  <1>4. Parts(T, kind, o, r, d)
    BY <1>1, <1>2, <1>3 DEF Parts
  <1> QED
    BY <1>1, <1>4

\* A key of an issue or pull request made of plain names is addressed to it.
LEMMA KeyAddresses ==
    ASSUME NEW p, Named(p.owner), Named(p.repo), safeName(p.owner), safeName(p.repo), NEW d, Named(d),
           NEW kind \in {"issue", "pr"}, NEW key \in Keys,
           key = fill(kindSpecs[kind].keyfmt, [owner |-> p.owner, repo |-> p.repo, disc |-> d])
    PROVE  Addresses(key, kind, p, d)
  <1> DEFINE o == p.owner
             r == p.repo
             q == <<kind, ":">> \o o \o <<"/">> \o r \o <<"#">>
  <1>4. o # <<>> /\ r # <<>> /\ safeName(o) /\ safeName(r)
    BY DEF Named
  <1>k. key = fill(kindSpecs[kind].keyfmt, [owner |-> o, repo |-> r, disc |-> d])
    OBVIOUS
  <1>p. PICK T : Parts(T, kind, o, r, d)
    BY KeyParts
  <1> HIDE DEF o, r
  <1>5. key = KeyText(kind, o, r, d) /\ KeyText(kind, o, r, d) = q \o d
    <2>1. Built(kind, o, r, d)
      BY <1>p, FillKey
    <2> QED
      BY <1>k, <2>1, Zenon DEF Built
  <1>6. Parsed(key, kind, o, r, d)
    BY <1>p, <1>5, KeyParsed
  <1>7. Fetched(key, kind, o, r, d)
    BY <1>p, <1>6, KeyFetched
  <1>8. Tagged(key, kind, o, r)
    BY <1>p, <1>4, <1>6, KeyTagged
  <1>9. safeKey(key)
    BY <1>4, <1>6, KeyIsSafe DEF Parsed
  <1>10. IsPrefix(q, key)
    <2>1. q \in Seq(T) /\ d \in Seq(T)
      BY <1>p DEF Parts
    <2> HIDE DEF q
    <2> QED
      BY <1>5, <2>1, BeginsSo
  <1>11. key \in nodesByKind(Keys, kind, o, r)
    BY <1>10, Zenon DEF nodesByKind, q
  <1> QED
    BY <1>6, <1>7, <1>8, <1>9, <1>11, Zenon DEF Addresses, Parsed, Fetched, Tagged, o, r

\* The key grammar does its part for these payloads: among the keys a delivery
\* touches, each of its objects has one that addresses it.
KeysAddress == \A d \in Deliveries : \A ks \in Addressing[d] : ks \cap Touched[d] # {}

\* The keys handleWebhook computes from a payload about an issue, a comment or
\* a pull request, and those from a check run.
LEMMA PrimaryKey ==
    ASSUME NEW p, Named(p.owner), Named(p.repo), safeName(p.owner), safeName(p.repo), Named(p.disc),
           p.event \in {"issues", "issue_comment", "check_run", "pull_request", "pull_request_review",
                        "pull_request_review_comment"}
    PROVE  eventKey(p) = LET kind == IF p.event = "issue_comment" /\ p.isPR THEN "pr"
                                     ELSE CHOOSE k \in kindsOfEvent(p.event) : TRUE
                         IN  fill(kindSpecs[kind].keyfmt, [owner |-> p.owner, repo |-> p.repo, disc |-> p.disc])
  <1>1. kindsOfEvent(p.event) # {}
    BY EventKinds
  <1>2. p.owner # <<>> /\ p.repo # <<>> /\ p.disc # <<>>
    BY DEF Named
  <1> QED
    BY <1>1, <1>2, Zenon DEF eventKey

LEMMA KeyNonempty ==
    ASSUME NEW o, NEW r, NEW d, Named(o), Named(r), Named(d), NEW kind \in {"issue", "pr", "checkRun"}
    PROVE  fill(kindSpecs[kind].keyfmt, [owner |-> o, repo |-> r, disc |-> d]) # <<>>
  <1>1. PICK T : Parts(T, "pr", o, r, d) /\ "checkRun" \in T
    BY KeyParts
  <1>2. PICK U : Parts(U, "issue", o, r, d) /\ "checkRun" \in U
    BY KeyParts
  <1>3. /\ o \in Seq(T) /\ r \in Seq(T) /\ d \in Seq(T)
        /\ "pr" \in T /\ "checkRun" \in T /\ "#" \in T /\ "/" \in T /\ ":" \in T
    BY <1>1 DEF Parts
  <1>4. /\ o \in Seq(U) /\ r \in Seq(U) /\ d \in Seq(U)
        /\ "issue" \in U /\ "#" \in U /\ "/" \in U /\ ":" \in U
    BY <1>2 DEF Parts
  <1>5. CASE kind = "issue"
    <2>1. Built("issue", o, r, d)
      BY <1>2, FillKey
    <2>2. KeyForm("issue", o, r, "#", d) # <<>>
      BY <1>4, FormNonempty
    <2> QED
      BY <1>5, <2>1, <2>2, Zenon DEF Built, KeyText
  <1>6. CASE kind = "pr"
    <2>1. Built("pr", o, r, d)
      BY <1>1, FillKey
    <2>2. KeyForm("pr", o, r, "#", d) # <<>>
      BY <1>3, FormNonempty
    <2> QED
      BY <1>6, <2>1, <2>2, Zenon DEF Built, KeyText
  <1>7. CASE kind = "checkRun"
    <2>1. kindSpecs["checkRun"].keyfmt = <<"checkRun", ":", "{owner}", "/", "{repo}", "/", "{disc}">>
      BY DEF kindSpecs, Spec1
    <2>2. "checkRun" \in {"issue", "pr", "checkRun"} /\ "/" \in {"#", "/"}
      OBVIOUS
    <2>3. Forms("checkRun", o, r, "/", d)
      BY <1>3, <2>2, FillForm
    <2>4. KeyForm("checkRun", o, r, "/", d) # <<>>
      BY <1>3, FormNonempty
    <2> QED
      BY <1>7, <2>1, <2>3, <2>4, Zenon DEF Forms
  <1> QED
    BY <1>5, <1>6, <1>7

LEMMA PayloadsAddress ==
    ASSUME PayloadsArePlain
    PROVE  KeysAddress
  <1> SUFFICES ASSUME NEW e \in Deliveries, NEW x \in Objects(Payload[e])
               PROVE  {k \in Keys : Addresses(k, x[1], Payload[e], x[2])} \cap Touched[e] # {}
    BY DEF KeysAddress, Addressing
  <1> DEFINE p == Payload[e]
             Key(kind, n) == fill(kindSpecs[kind].keyfmt, [owner |-> p.owner, repo |-> p.repo, disc |-> n])
  <1>1. /\ Named(p.owner) /\ Named(p.repo) /\ Named(p.disc) /\ safeName(p.owner) /\ safeName(p.repo)
        /\ \A n \in p.prs : Named(n)
    BY DEF PayloadsArePlain, Named
  <1> HIDE DEF p
  <1>2. x \in Objects(p) /\ KeyOf[e] = eventKey(p) /\ Related[e] = relatedKeys(p)
    BY DEF p, KeyOf, Related
  <1>3. SUFFICES \E k \in Touched[e] \cap Keys : Addresses(k, x[1], p, x[2])
    BY <1>3 DEF p
  <1>4. \A k : k \in {KeyOf[e]} \cup Related[e] /\ k # <<>> => k \in Keys
    <2> SUFFICES ASSUME NEW k, k \in {KeyOf[e]} \cup Related[e], k # <<>> PROVE k \in Keys
      OBVIOUS
    <2>1. k \in UNION {{KeyOf[d]} \cup Related[d] : d \in Deliveries}
      BY Zenon
    <2> QED
      BY <2>1 DEF Keys, NoKey
  <1>5. ASSUME NEW kind \in {"issue", "pr"}, NEW n, Named(n), Key(kind, n) \in Touched[e], x[1] = kind, x[2] = n
        PROVE  \E k \in Touched[e] \cap Keys : Addresses(k, x[1], p, x[2])
    <2>1. Key(kind, n) # <<>>
      BY <1>1, <1>5, KeyNonempty
    <2>2. Key(kind, n) \in {KeyOf[e]} \cup Related[e]
      BY <1>5 DEF Touched
    <2>3. Key(kind, n) \in Keys
      BY <1>4, <2>1, <2>2
    <2>4. Addresses(Key(kind, n), kind, p, n)
      BY <1>1, <1>5, <2>3, KeyAddresses
    <2> QED
      BY <1>5, <2>3, <2>4
  <1> HIDE DEF Key
  <1>6. ASSUME eventKey(p) # <<>> PROVE Touched[e] = {eventKey(p)} \cup relatedKeys(p)
    BY <1>2, <1>6 DEF Touched, NoKey
  <1>7. CASE p.event = "check_run"
    <2>1. PICK n \in p.prs : x = <<"pr", n>>
      BY <1>2, <1>7 DEF Objects
    <2>2. Named(n)
      BY <1>1
    <2>3. Key("pr", n) \in relatedKeys(p)
      <3>1. p.owner # <<>> /\ p.repo # <<>> /\ n # <<>> /\ safeName(p.owner) /\ safeName(p.repo)
        BY <1>1, <2>2 DEF Named
      <3> QED
        BY <1>7, <3>1 DEF relatedKeys, Key
    <2>4. eventKey(p) = Key("checkRun", p.disc)
      <3>1. (CHOOSE k \in kindsOfEvent(p.event) : TRUE) = "checkRun"
        BY <1>7, EventKinds
      <3> QED
        BY <1>1, <1>7, <3>1, PrimaryKey DEF Key
    <2>5. Key("checkRun", p.disc) # <<>>
      BY <1>1, KeyNonempty DEF Key
    <2> QED
      BY <1>5, <1>6, <2>1, <2>2, <2>3, <2>4, <2>5
  <1>8. ASSUME NEW kind \in {"issue", "pr"}, eventKey(p) = Key(kind, p.disc), x = <<kind, p.disc>>
        PROVE  \E k \in Touched[e] \cap Keys : Addresses(k, x[1], p, x[2])
    <2>1. Key(kind, p.disc) # <<>>
      BY <1>1, KeyNonempty DEF Key
    <2>2. Key(kind, p.disc) \in Touched[e]
      BY <1>6, <1>8, <2>1
    <2> QED
      BY <1>1, <1>5, <1>8, <2>2
  <1>9. CASE p.event = "issues" \/ (p.event = "issue_comment" /\ ~p.isPR)
    <2>1. x = <<"issue", p.disc>>
      BY <1>2, <1>9 DEF Objects
    <2>2. eventKey(p) = Key("issue", p.disc)
      <3>1. (CHOOSE k \in kindsOfEvent(p.event) : TRUE) = "issue"
        BY <1>9, EventKinds
      <3> QED
        BY <1>1, <1>9, <3>1, PrimaryKey DEF Key
    <2> QED
      BY <1>8, <2>1, <2>2
  <1>10. CASE \/ p.event = "issue_comment" /\ p.isPR
              \/ p.event \in {"pull_request", "pull_request_review", "pull_request_review_comment"}
    <2>1. x = <<"pr", p.disc>>
      BY <1>2, <1>10 DEF Objects
    <2>2. eventKey(p) = Key("pr", p.disc)
      <3>1. p.event # "issue_comment" => (CHOOSE k \in kindsOfEvent(p.event) : TRUE) = "pr"
        BY <1>10, EventKinds
      <3> QED
        BY <1>1, <1>10, <3>1, PrimaryKey DEF Key
    <2> QED
      BY <1>8, <2>1, <2>2
  <1> QED
    BY <1>2, <1>7, <1>9, <1>10 DEF Objects

----------------------------------------------------------------------------
\* The same in terms of the objects: the issues and pull requests the payloads
\* are about are purged under a key that addresses them, for the resolvers,
\* the refetch and the eviction of lists, if names and numbers in payloads are
\* without the separators of a key.
THEOREM ObjectsPurged == PayloadsArePlain => (Spec => []PurgedUnlessFailed)
  <1> SUFFICES ASSUME PayloadsArePlain PROVE Spec => []PurgedUnlessFailed
    OBVIOUS
  <1>1. ASSUME AllTouchedPurged PROVE PurgedUnlessFailed
    <2> SUFFICES ASSUME NEW d \in Deliveries \ hurt, status[d] = "OK",
                        ~\E h \in Handlers : hd[h] = d,
                        NEW ks \in Addressing[d]
                 PROVE  ks \cap purged[d] # {}
      BY DEF PurgedUnlessFailed
    <2>1. Touched[d] \subseteq purged[d]
      BY <1>1 DEF AllTouchedPurged
    <2>2. ks \cap Touched[d] # {}
      BY PayloadsAddress DEF KeysAddress
    <2> QED
      BY <2>1, <2>2
  <1> QED
    BY <1>1, TouchedPurged, PTL
=============================================================================
