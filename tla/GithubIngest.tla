--------------------------- MODULE GithubIngest ---------------------------
(***************************************************************************)
(* Push ingest of the github plugin: the webhook receiver with its         *)
(* deduplication by delivery id, the supervised `gh webhook forward`       *)
(* child, the redelivery sweep that runs before every (re)start of it, and *)
(* the creation of the repo's hook by the reconcile loop.                  *)
(*                                                                         *)
(* GitHub is external: it numbers hooks and deliveries, POSTs each         *)
(* delivery to the plugin, records how the last attempt went, and POSTs    *)
(* again when asked to. There is one repo, its hook is allowed by          *)
(* hookRepos, and `gh` can be started.                                     *)
(***************************************************************************)
EXTENDS GithubKeys

CONSTANTS
    MaxDelivery,    \* bound: deliveries GitHub creates, ids 1 .. MaxDelivery
    Payload,        \* Payload[d]: what delivery d says, see GithubKeys
    Handlers,       \* webhook requests served at a time
    PageSize,       \* deliveries GitHub lists at a time
    MaxHooks,       \* bound: hooks created at GitHub
    BackoffMax,     \* cap of the restart delay, the initial one being 1
    MaxErrors,      \* bound: lost requests, database errors and timeouts
    MaxBoots        \* bound: process starts

Deliveries == 1 .. MaxDelivery

ASSUME IngestAssumption ==
    /\ MaxDelivery \in Nat /\ MaxErrors \in Nat /\ MaxBoots \in Nat /\ MaxHooks \in Nat
    /\ BackoffMax \in Nat \ {0} /\ PageSize \in Nat \ {0}
    /\ DOMAIN Payload = Deliveries

\* The keys a delivery touches: one or none, and the pr keys of a check run.
KeyOf == [d \in Deliveries |-> eventKey(Payload[d])]
Related == [d \in Deliveries |-> relatedKeys(Payload[d])]
Keys == (UNION {{KeyOf[d]} \cup Related[d] : d \in Deliveries}) \ {NoKey}

VARIABLES
    hooks,      \* hooks of ours at GitHub, ids 1 .. hooks
    row,        \* github_hooks: the id stored for the repo, 0 without one
    epc,        \* ensureHook: "idle", "post", "put"
    sent,       \* deliveries GitHub has created
    from,       \* from[d]: the hook d was made for, 0 for the forwarder's
    status,     \* status[d]: GitHub's record of the last attempt
    wire,       \* wire[d]: attempts of d on their way to the plugin
    hpc,        \* hpc[h]: "idle", "seen", "mark", "purge", "related"
    hd,         \* hd[h]: the delivery h serves, 0 when idle
    hleft,      \* hleft[h]: related keys h has still to purge
    late,       \* handlers whose caller has hung up
    seen,       \* rows of github_deliveries
    purged,     \* purged[d]: keys purged on behalf of d (history)
    child,      \* forwardSupervisor: "sweep", "start", "up", "sleep"
    backoff,    \* its next restart delay
    cursor,     \* the lastDeliveryId cursor
    listed,     \* listed[d]: the status the sweep read, "none" if not listed
    sweep,      \* redeliver: "list", "post"
    tried,      \* deliveries an attempts POST was made for (history)
    hurt,       \* deliveries one of whose requests failed in the plugin (history)
    boots, errs

ensureVars == <<hooks, row, epc>>
ghVars    == <<sent, from, status, wire>>
hookVars  == <<hpc, hd, hleft, late>>
fwdVars   == <<child, backoff>>
sweepVars == <<listed, sweep>>
ingestVars == <<ghVars, hookVars, seen, purged, fwdVars, cursor, sweepVars, tried, hurt, boots, errs>>
vars == <<ensureVars, ingestVars>>

Nothing == [d \in Deliveries |-> "none"]

Init ==
    /\ hooks = 0 /\ row = 0 /\ epc = "idle"
    /\ sent = 0 /\ from = [d \in Deliveries |-> 0] /\ status = Nothing /\ wire = [d \in Deliveries |-> 0]
    /\ hpc = [h \in Handlers |-> "idle"] /\ hd = [h \in Handlers |-> 0]
    /\ hleft = [h \in Handlers |-> {}] /\ late = {}
    /\ seen = {} /\ purged = [d \in Deliveries |-> {}]
    /\ child = "sweep" /\ backoff = 1
    /\ cursor = 0 /\ listed = Nothing /\ sweep = "list"
    /\ tried = {} /\ hurt = {}
    /\ boots = 1 /\ errs = 0

Fail == errs < MaxErrors /\ errs' = errs + 1

----------------------------------------------------------------------------
(* GitHub (external). *)

\* An object changes: a delivery is created for a hook and POSTed.
Deliver ==
    /\ sent < MaxDelivery
    /\ sent' = sent + 1
    /\ \E h \in 0 .. hooks : from' = [from EXCEPT ![sent + 1] = h]
    /\ status' = [status EXCEPT ![sent + 1] = "pending"]
    /\ wire' = [wire EXCEPT ![sent + 1] = 1]
    /\ UNCHANGED <<ensureVars, hookVars, seen, purged, fwdVars, cursor, sweepVars, tried, hurt, boots, errs>>

\* The POST does not reach the plugin (tunnel or forwarder down).
Lose(d) ==
    /\ wire[d] > 0 /\ Fail
    /\ wire' = [wire EXCEPT ![d] = @ - 1]
    /\ status' = [status EXCEPT ![d] = "failed"]
    /\ UNCHANGED <<ensureVars, sent, from, hookVars, seen, purged, fwdVars, cursor, sweepVars, tried, hurt, boots>>

\* GitHub gives up on a request: the attempt failed and the request context
\* of the handler is cancelled.
TimeOut(h) ==
    /\ hpc[h] # "idle" /\ h \notin late /\ Fail
    /\ late' = late \cup {h}
    /\ status' = [status EXCEPT ![hd[h]] = "failed"]
    /\ UNCHANGED <<ensureVars, sent, from, wire, hpc, hd, hleft, seen, purged, fwdVars, cursor, sweepVars,
                   tried, hurt, boots>>

----------------------------------------------------------------------------
(* handleWebhook, for a request whose signature verifies. *)

Accept(h, d) ==
    /\ hpc[h] = "idle" /\ wire[d] > 0
    /\ wire' = [wire EXCEPT ![d] = @ - 1]
    /\ hpc' = [hpc EXCEPT ![h] = "seen"]
    /\ hd' = [hd EXCEPT ![h] = d]
    /\ UNCHANGED <<ensureVars, sent, from, status, hleft, late, seen, purged, fwdVars, cursor, sweepVars,
                   tried, hurt, boots, errs>>

\* The handler returns; GitHub records the answer unless it gave up before.
Answer(h, st) ==
    /\ hpc' = [hpc EXCEPT ![h] = "idle"]
    /\ hd' = [hd EXCEPT ![h] = 0]
    /\ hleft' = [hleft EXCEPT ![h] = {}]
    /\ late' = late \ {h}
    /\ status' = IF h \in late THEN status ELSE [status EXCEPT ![hd[h]] = st]
    /\ UNCHANGED <<sent, from, wire>>

\* A statement of h succeeds, or fails: the database does, or the context is
\* cancelled.
StatementOK == UNCHANGED <<errs, hurt>>
StatementFails(h) ==
    /\ hurt' = hurt \cup {hd[h]}
    /\ IF h \in late THEN UNCHANGED errs ELSE Fail

\* deliverySeen: a known id is answered 200 at once.
SeenBefore(h) ==
    /\ hpc[h] = "seen" /\ hd[h] \in seen
    /\ Answer(h, "OK")
    /\ StatementOK
    /\ UNCHANGED <<ensureVars, seen, purged, fwdVars, cursor, sweepVars, tried, boots>>

\* An unknown id, or a failed query: the request is processed.
NotSeen(h) ==
    /\ hpc[h] = "seen"
    /\ IF hd[h] \in seen THEN StatementFails(h) ELSE StatementOK
    /\ hpc' = [hpc EXCEPT ![h] = "mark"]
    /\ UNCHANGED <<ensureVars, ghVars, hd, hleft, late, seen, purged, fwdVars, cursor, sweepVars,
                   tried, boots>>

\* markDelivery, before the purge and whatever becomes of it; an error is
\* ignored. A delivery without an addressable object is then done.
MarkDelivery(h) ==
    /\ hpc[h] = "mark"
    /\ \/ seen' = seen \cup {hd[h]} /\ StatementOK
       \/ seen' = seen /\ StatementFails(h)
    /\ IF KeyOf[hd[h]] = NoKey
       THEN Answer(h, "OK")
       ELSE hpc' = [hpc EXCEPT ![h] = "purge"] /\ UNCHANGED <<ghVars, hd, hleft, late>>
    /\ UNCHANGED <<ensureVars, purged, fwdVars, cursor, sweepVars, tried, boots>>

\* The primary key is purged and github.node.purged emitted.
PurgePrimary(h) ==
    /\ hpc[h] = "purge"
    /\ purged' = [purged EXCEPT ![hd[h]] = @ \cup {KeyOf[hd[h]]}]
    /\ hpc' = [hpc EXCEPT ![h] = "related"]
    /\ hleft' = [hleft EXCEPT ![h] = Related[hd[h]] \ {KeyOf[hd[h]]}]
    /\ StatementOK
    /\ UNCHANGED <<ensureVars, ghVars, hd, late, seen, fwdVars, cursor, sweepVars, tried, boots>>

\* The purge failed: 500.
PurgeFails(h) ==
    /\ hpc[h] = "purge" /\ StatementFails(h)
    /\ Answer(h, "failed")
    /\ UNCHANGED <<ensureVars, seen, purged, fwdVars, cursor, sweepVars, tried, boots>>

\* A related pr key is purged; an error is logged and the loop goes on.
PurgeRelated(h, k) ==
    /\ hpc[h] = "related" /\ k \in hleft[h]
    /\ \/ purged' = [purged EXCEPT ![hd[h]] = @ \cup {k}] /\ StatementOK
       \/ purged' = purged /\ StatementFails(h)
    /\ hleft' = [hleft EXCEPT ![h] = @ \ {k}]
    /\ UNCHANGED <<ensureVars, ghVars, hpc, hd, late, seen, fwdVars, cursor, sweepVars, tried, boots>>

DoneBeforeRelated(h) ==
    /\ hpc[h] = "related"
    /\ Answer(h, "OK")
    /\ UNCHANGED <<ensureVars, seen, purged, fwdVars, cursor, sweepVars, tried, hurt, boots, errs>>

WebhookDone(h) ==
    /\ hpc[h] = "related" /\ hleft[h] = {}
    /\ Answer(h, "OK")
    /\ UNCHANGED <<ensureVars, seen, purged, fwdVars, cursor, sweepVars, tried, hurt, boots, errs>>

\* pruneDeliveries, in the reconcile pass: the row of a delivery that has
\* rested for seven days is dropped, so that a late replay would be new.
PruneDelivery(d) ==
    /\ d \in seen /\ wire[d] = 0 /\ \A h \in Handlers : hd[h] # d
    /\ seen' = seen \ {d}
    /\ UNCHANGED <<ensureVars, ghVars, hookVars, purged, fwdVars, cursor, sweepVars, tried, hurt, boots, errs>>

----------------------------------------------------------------------------
(* redeliver and forwardSupervisor. *)

\* The deliveries of hook h after d, up to c.
Between(h, d, c) == {e \in Deliveries : d < e /\ e <= c /\ from[e] = h}

\* The newest deliveries of the stored hook, as many as one request lists.
OnPage(d) == from[d] = row /\ Cardinality(Between(row, d, sent)) < PageSize

\* The first page of deliveries of the stored hook, if there is one, and how
\* their last attempt went; the ones at or below the cursor are passed over.
SweepList ==
    /\ child = "sweep" /\ sweep = "list"
    /\ listed' = [d \in Deliveries |-> IF row # 0 /\ OnPage(d) /\ d > cursor THEN status[d] ELSE "none"]
    /\ sweep' = "post"
    /\ UNCHANGED <<ensureVars, ghVars, hookVars, seen, purged, fwdVars, cursor, tried, hurt, boots, errs>>

\* The listing failed: the hook is skipped, its cursor stays.
SweepSkips ==
    /\ child = "sweep" /\ sweep = "list" /\ row # 0 /\ Fail
    /\ child' = "start"
    /\ UNCHANGED <<ensureVars, ghVars, hookVars, seen, purged, backoff, cursor, sweepVars, tried, hurt, boots>>

\* Deliveries of the listing the sweep has to ask for again.
Undelivered == {d \in Deliveries : listed[d] \in {"pending", "failed"}}

\* POST .../attempts for one of them; the answer is ignored, so a request
\* that never reached GitHub passes for one that did.
SweepPost(d) ==
    /\ child = "sweep" /\ sweep = "post" /\ d \in Undelivered
    /\ listed' = [listed EXCEPT ![d] = "OK"]
    /\ tried' = tried \cup {d}
    /\ \/ /\ wire[d] < 2                        \* bound on attempts in flight
          /\ wire' = [wire EXCEPT ![d] = @ + 1]
          /\ status' = [status EXCEPT ![d] = "pending"]
          /\ UNCHANGED errs
       \/ Fail /\ UNCHANGED <<status, wire>>
    /\ UNCHANGED <<ensureVars, sent, from, hookVars, seen, purged, fwdVars, cursor, sweep, hurt, boots>>

SweepSavesEarly ==
    /\ child = "sweep" /\ sweep = "post"
    /\ cursor' = LET ids == {d \in Deliveries : listed[d] # "none"}
                 IN  IF ids = {} THEN cursor ELSE CHOOSE d \in ids : \A e \in ids : e <= d
    /\ listed' = Nothing
    /\ sweep' = "list"
    /\ child' = "start"
    /\ UNCHANGED <<ensureVars, ghVars, hookVars, seen, purged, backoff, tried, hurt, boots, errs>>

\* Every listed id is handled: the cursor moves to the newest of them.
SweepSave ==
    /\ child = "sweep" /\ sweep = "post" /\ Undelivered = {}
    /\ cursor' = LET ids == {d \in Deliveries : listed[d] # "none"}
                 IN  IF ids = {} THEN cursor ELSE CHOOSE d \in ids : \A e \in ids : e <= d
    /\ listed' = Nothing
    /\ sweep' = "list"
    /\ child' = "start"
    /\ UNCHANGED <<ensureVars, ghVars, hookVars, seen, purged, backoff, tried, hurt, boots, errs>>

StartChild ==
    /\ child = "start"
    /\ child' = "up"
    /\ UNCHANGED <<ensureVars, ghVars, hookVars, seen, purged, backoff, cursor, sweepVars, tried, hurt, boots, errs>>

ChildExits ==
    /\ child = "up"
    /\ child' = "sleep"
    /\ UNCHANGED <<ensureVars, ghVars, hookVars, seen, purged, backoff, cursor, sweepVars, tried, hurt, boots, errs>>

\* The delay is over: it doubles for the next time, and the loop starts
\* again with a sweep.
Wake ==
    /\ child = "sleep"
    /\ child' = "sweep"
    /\ backoff' = IF 2 * backoff > BackoffMax THEN BackoffMax ELSE 2 * backoff
    /\ UNCHANGED <<ensureVars, ghVars, hookVars, seen, purged, cursor, sweepVars, tried, hurt, boots, errs>>

----------------------------------------------------------------------------
(* ensureHook, once in every reconcile pass. *)

EnsureAgain ==
    /\ epc = "idle" /\ epc' = "post"
    /\ UNCHANGED <<hooks, row, ingestVars>>

\* A stored hook is enough; one that cannot be read counts as none.
EnsureHook ==
    /\ epc = "idle"
    /\ \/ row = 0 /\ UNCHANGED errs
       \/ row # 0 /\ Fail
    /\ epc' = "post"
    /\ UNCHANGED <<hooks, row, ghVars, hookVars, seen, purged, fwdVars, cursor, sweepVars, tried, hurt, boots>>

\* The POST creates a hook and the answer names it; the answer or the
\* request may be lost, and then the next pass starts again.
CreateHook ==
    /\ epc = "post"
    /\ \/ hooks < MaxHooks /\ hooks' = hooks + 1 /\ epc' = "put" /\ UNCHANGED errs
       \/ hooks < MaxHooks /\ hooks' = hooks + 1 /\ epc' = "idle" /\ Fail
       \/ hooks' = hooks /\ epc' = "idle" /\ Fail
    /\ UNCHANGED <<row, ghVars, hookVars, seen, purged, fwdVars, cursor, sweepVars, tried, hurt, boots>>

\* putHook; its error is ignored.
PutHook ==
    /\ epc = "put" /\ epc' = "idle"
    /\ \/ row' = hooks /\ UNCHANGED errs
       \/ row' = row /\ Fail
    /\ UNCHANGED <<hooks, ghVars, hookVars, seen, purged, fwdVars, cursor, sweepVars, tried, hurt, boots>>

\* The process dies and comes back: requests under way fail at GitHub, the
\* tables survive, the supervisor and the reconcile loop start over.
Restart ==
    /\ boots < MaxBoots
    /\ boots' = boots + 1
    /\ status' = [d \in Deliveries |->
                    IF \E h \in Handlers : hpc[h] # "idle" /\ hd[h] = d THEN "failed" ELSE status[d]]
    /\ hpc' = [h \in Handlers |-> "idle"]
    /\ hd' = [h \in Handlers |-> 0]
    /\ hleft' = [h \in Handlers |-> {}]
    /\ hurt' = hurt \cup {hd[h] : h \in {x \in Handlers : hpc[x] # "idle"}}
    /\ late' = {} /\ epc' = "idle"
    /\ child' = "sweep" /\ backoff' = 1
    /\ listed' = Nothing /\ sweep' = "list"
    /\ UNCHANGED <<hooks, row, sent, from, wire, seen, purged, cursor, tried, errs>>

----------------------------------------------------------------------------

HookStep(h) ==
    \/ SeenBefore(h)
    \/ NotSeen(h)
    \/ MarkDelivery(h)
    \/ PurgePrimary(h)
    \/ PurgeFails(h)
    \/ \E k \in Keys : PurgeRelated(h, k)
    \/ WebhookDone(h)

SweepStep ==
    \/ SweepList
    \/ SweepSkips
    \/ \E d \in Deliveries : SweepPost(d)
    \/ SweepSave

ForwardStep == StartChild \/ Wake

Next ==
    \/ Deliver
    \/ \E d \in Deliveries : Lose(d)
    \/ \E h \in Handlers : TimeOut(h)
    \/ \E h \in Handlers, d \in Deliveries : Accept(h, d)
    \/ \E h \in Handlers : HookStep(h)
    \/ \E d \in Deliveries : PruneDelivery(d)
    \/ SweepStep
    \/ ForwardStep
    \/ ChildExits
    \/ EnsureHook
    \/ CreateHook
    \/ PutHook
    \/ Restart

Spec == Init /\ [][Next]_vars

----------------------------------------------------------------------------
(* Properties. *)

\* redeliver saves its cursor last: with one hook, a delivery of it at or
\* below the cursor that is not delivered was asked for again at least once,
\* unless a page of newer ones had pushed it off the listing. A crash in the
\* middle of a sweep repeats attempts and never skips one, and neither does a
\* delivery that is created or fails while the sweep is under way.
CursorTrailsAttempts ==
    hooks = 1 => \A d \in Deliveries :
        /\ from[d] = 1 /\ d <= cursor /\ status[d] # "OK"
        /\ Cardinality(Between(1, d, cursor)) < PageSize
        => d \in tried

\* The pull requests and issues a payload is about.
Objects(p) ==
    CASE p.event = "check_run" -> {<<"pr", n>> : n \in p.prs}
      [] p.event = "issues" \/ (p.event = "issue_comment" /\ ~p.isPR) -> {<<"issue", p.disc>>}
      [] \/ p.event = "issue_comment" /\ p.isPR
         \/ p.event \in {"pull_request", "pull_request_review", "pull_request_review_comment"} -> {<<"pr", p.disc>>}
      [] OTHER -> {}

\* Key k is that object's for all who use it: the resolvers, which check it,
\* search by it and split it, the refetch, and the purge, which evicts the
\* repo's lists of that kind with it.
Addresses(k, kind, p, disc) ==
    /\ safeKey(k) /\ k \in nodesByKind(Keys, kind, p.owner, p.repo)
    /\ parseKey(k) = [owner |-> p.owner, repo |-> p.repo, disc |-> disc]
    /\ restPath(k) = <<"/repos/">> \o p.owner \o <<"/">> \o p.repo
                        \o <<"/", IF kind = "pr" THEN "pulls" ELSE "issues", "/">> \o disc
    /\ composite(k) = <<"repo", ":">> \o p.owner \o <<"/">> \o p.repo \o <<"|", kind>>

\* For each object of a delivery, the keys that address it.
Addressing ==
    [d \in Deliveries |->
        {{k \in Keys : Addresses(k, o[1], Payload[d], o[2])} : o \in Objects(Payload[d])}]

\* The keys handleWebhook purges for a delivery, if nothing fails.
Touched ==
    [d \in Deliveries |-> IF KeyOf[d] = NoKey THEN {} ELSE {KeyOf[d]} \cup Related[d]]

\* The payloads about such objects as GitHub makes them: names of its grammar,
\* and numbers.
PayloadsArePlain ==
    \A d \in Deliveries : LET p == Payload[d] IN Objects(p) # {} =>
        /\ safeName(p.owner) /\ safeName(p.repo)
        /\ \A s \in {p.owner, p.repo, p.disc} \cup p.prs : PlainText(s) /\ s # <<>>

\* handleWebhook: what GitHub counts as delivered has purged its objects, the
\* pull requests of a check run and of a comment on one included, each under
\* a key that addresses it, if no request of it failed in the plugin. Lost
\* requests, repeated and simultaneous attempts, late answers and crashes at
\* any other time change nothing of it.
PurgedUnlessFailed ==
    \A d \in Deliveries \ hurt :
        status[d] = "OK" => \/ \E h \in Handlers : hd[h] = d
                            \/ \A ks \in Addressing[d] : ks \cap purged[d] # {}

\* ensureHook: GitHub has one hook of ours, and another only for a failed
\* request or statement or a crash; a stored id is that of a hook there.
OneHookPerFailure == hooks <= 1 + errs + (boots - 1) /\ row <= hooks
=============================================================================
