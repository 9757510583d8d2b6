---------------------------- MODULE GithubCache ----------------------------
(***************************************************************************)
(* The github plugin's event-invalidated cache: the read-through resolve   *)
(* of point operations with its singleflight, the conditional REST fetch   *)
(* followed by the canonical GraphQL re-read, list operations and the tag  *)
(* index, purges by webhook, and the hourly reconcile (since pull, then    *)
(* revalidation of every non-pinned row).                                  *)
(*                                                                         *)
(* A body is abstracted to the version of the object it shows; an ETag to  *)
(* the version it validates. Every upstream request and every SQL          *)
(* statement is a step of its own: the store has no transaction around     *)
(* them and the handlers run concurrently.                                 *)
(***************************************************************************)
EXTENDS Integers, FiniteSets

CONSTANTS
    Keys,           \* object keys
    Canonical,      \* keys of a kind with a GraphQL point op (issue, pr)
    Issues,         \* open issues of one repository: what openIssues lists
    Pinnable,       \* <<key, version>> pairs whose body evalPin pins
    Expiring,       \* keys of a kind with a TTL
    Readers,        \* concurrent point-operation requests
    Listers,        \* concurrent list-operation requests
    Pass,           \* the reconcile loop
    None,           \* no row, no worker
    MaxVersion,     \* bound: versions an object goes through upstream
    MaxErrors       \* bound: upstream or database failures

Workers  == Readers \cup {Pass}
Version  == 1 .. MaxVersion

\* A github_nodes row: the version its body shows, the version its ETag
\* validates (0 for the empty ETag), and whether the body has GraphQL shape.
Row == [ver : Version, etag : 0 .. MaxVersion, gql : BOOLEAN]

\* A list result: the member versions it shows, 0 for a member it lacks.
ListBody == [Issues -> 0 .. MaxVersion]

ASSUME CacheAssumption ==
    /\ MaxVersion \in Nat \ {0} /\ MaxErrors \in Nat
    /\ Issues \subseteq Canonical /\ Canonical \subseteq Keys /\ Expiring \subseteq Keys
    /\ Pinnable \subseteq Keys \X Version
    /\ Pass \notin Readers
    /\ None \notin Row /\ None \notin Workers /\ None \notin ListBody
    /\ None \notin Keys

VARIABLES
    origin,     \* origin[k]: GitHub's current version of k
    node,       \* node[k]: the cached row of k, or None
    list,       \* the cached openIssues result, or None
    tagged,     \* github_tags has the row that lets a purge find the list
    hooks,      \* keys with a webhook on its way
    flight,     \* flight[k]: the reader fetching k, or None
    pc,         \* pc[x]: "idle", "read", "wait", "get", "canon", "put"
    key,        \* key[x]: the key worker x is fetching
    stored,     \* stored[x]: the row x read before its fetch, or None
    got,        \* got[x]: the row x is about to upsert
    pass,       \* the reconcile pass: "idle", "since", "store", "scan", "reval"
    pull,       \* what the since pull answered
    todo,       \* members the pass has still to store
    queue,      \* rows the pass has still to revalidate
    lpc,        \* lpc[l]: "idle", "query", "store", "tag"
    ldata,      \* ldata[l]: the list body l works on
    ltodo,      \* ltodo[l]: members l has still to store
    hpc,        \* the webhook handler: "idle", "list", "untag", "node"
    hkey,       \* the key it purges
    errs        \* failures so far

upVars    == <<origin, hooks>>
fetchVars == <<flight, pc, key, stored, got>>
passVars  == <<pass, pull, todo, queue>>
listVars  == <<list, tagged>>
lopVars   == <<lpc, ldata, ltodo>>
hookVars  == <<hpc, hkey>>
vars == <<upVars, node, listVars, fetchVars, passVars, lopVars, hookVars, errs>>

Pinned(k, row) == <<k, row.ver>> \in Pinnable

Init ==
    /\ origin = [k \in Keys |-> 1]
    /\ node = [k \in Keys |-> None]
    /\ list = None
    /\ tagged = FALSE
    /\ hooks = {}
    /\ flight = [k \in Keys |-> None]
    /\ pc = [x \in Workers |-> "idle"]
    /\ key = [x \in Workers |-> None]
    /\ stored = [x \in Workers |-> None]
    /\ got = [x \in Workers |-> None]
    /\ pass = "idle"
    /\ pull = None
    /\ todo = {}
    /\ queue = {}
    /\ lpc = [l \in Listers |-> "idle"]
    /\ ldata = [l \in Listers |-> None]
    /\ ltodo = [l \in Listers |-> {}]
    /\ hpc = "idle"
    /\ hkey = None
    /\ errs = 0

----------------------------------------------------------------------------
(* GitHub: an object changes and a webhook may be sent for it; it may also *)
(* be lost (tunnel down, no hook on the repository).                       *)

Change(k) ==
    /\ origin[k] < MaxVersion
    /\ origin' = [origin EXCEPT ![k] = @ + 1]
    /\ \/ hooks' = hooks \cup {k}
       \/ UNCHANGED hooks
    /\ UNCHANGED <<node, listVars, fetchVars, passVars, lopVars, hookVars, errs>>

Fail == errs < MaxErrors /\ errs' = errs + 1

----------------------------------------------------------------------------
(* resolve, singleflight and fetchNode. *)

\* The row a hit serves: pinned rows always, others until their TTL (off
\* unless the kind has one) has passed.
Hit(k) == node[k] # None /\ (Pinned(k, node[k]) \/ k \notin Expiring)

\* resolve reads the row; a hit is served and changes nothing, so only the
\* miss (or the expired row) is a step.
Resolve(r, k) ==
    /\ pc[r] = "idle"
    /\ ~Hit(k)
    /\ pc' = [pc EXCEPT ![r] = "read"]
    /\ key' = [key EXCEPT ![r] = k]
    /\ stored' = [stored EXCEPT ![r] = node[k]]
    /\ UNCHANGED <<upVars, node, listVars, flight, got, passVars, lopVars, hookVars, errs>>

\* singleflight without its map lookup.
EnterFlightUnchecked(r) ==
    /\ pc[r] = "read"
    /\ flight' = [flight EXCEPT ![key[r]] = r]
    /\ pc' = [pc EXCEPT ![r] = "get"]
    /\ UNCHANGED <<upVars, node, listVars, key, stored, got, passVars, lopVars, hookVars, errs>>

\* singleflight: lead the fetch of this key or wait for the one under way.
EnterFlight(r) ==
    /\ pc[r] = "read"
    /\ IF flight[key[r]] = None
       THEN /\ flight' = [flight EXCEPT ![key[r]] = r]
            /\ pc' = [pc EXCEPT ![r] = "get"]
       ELSE /\ pc' = [pc EXCEPT ![r] = "wait"]
            /\ UNCHANGED flight
    /\ UNCHANGED <<upVars, node, listVars, key, stored, got, passVars, lopVars, hookVars, errs>>

\* The goroutines that leave fetchNode, the flight they led and their locals.
Return(back) ==
    /\ pc' = [y \in Workers |-> IF y \in back THEN "idle" ELSE pc[y]]
    /\ flight' = [k \in Keys |-> IF flight[k] \in back THEN None ELSE flight[k]]
    /\ key' = [y \in Workers |-> IF y \in back THEN None ELSE key[y]]
    /\ stored' = [y \in Workers |-> IF y \in back THEN None ELSE stored[y]]
    /\ got' = [y \in Workers |-> IF y \in back THEN None ELSE got[y]]

\* The leader forgets its flight but never closes the call's channel.
LandForgetsWaiters(x) == Return({x})

\* fetchNode returns in x: a leader drops its flight and its waiters return
\* with its result.
Land(x) ==
    Return({x} \cup {y \in Workers : pc[y] = "wait" /\ key[y] = key[x] /\ flight[key[x]] = x})

\* GitHub answers 304 exactly when the ETag sent names the current version.
NotModified(x) == stored[x] # None /\ stored[x].etag = origin[key[x]]

\* 304: bumpFetched touches only fetched_at, the stored row is served.
Fetch304(x) ==
    /\ pc[x] = "get" /\ NotModified(x)
    /\ Land(x)
    /\ UNCHANGED <<upVars, node, listVars, passVars, lopVars, hookVars, errs>>

\* 200: the REST body and its ETag; an issue or pr is then read again.
Fetch200(x) ==
    /\ pc[x] = "get" /\ ~NotModified(x)
    /\ got' = [got EXCEPT ![x] = [ver |-> origin[key[x]], etag |-> origin[key[x]], gql |-> FALSE]]
    /\ pc' = [pc EXCEPT ![x] = IF key[x] \in Canonical THEN "canon" ELSE "put"]
    /\ UNCHANGED <<upVars, node, listVars, flight, key, stored, passVars, lopVars, hookVars, errs>>

\* Network error or any other status: what was stored is served.
FetchFails(x) ==
    /\ pc[x] = "get" /\ Fail
    /\ Land(x)
    /\ UNCHANGED <<upVars, node, listVars, passVars, lopVars, hookVars>>

\* canonicalBody merged into a REST fetch that keeps the stored body but
\* takes the new ETag.
CanonKeepsBody(x) ==
    /\ pc[x] = "canon"
    /\ got' = [got EXCEPT ![x] = IF stored[x] = None THEN [@ EXCEPT !.gql = TRUE]
                                 ELSE [stored[x] EXCEPT !.etag = got[x].etag]]
    /\ pc' = [pc EXCEPT ![x] = "put"]
    /\ UNCHANGED <<upVars, node, listVars, flight, key, stored, passVars, lopVars, hookVars, errs>>

\* canonicalBody: the GraphQL body, read after the ETag was.
Canon(x) ==
    /\ pc[x] = "canon"
    /\ got' = [got EXCEPT ![x] = [@ EXCEPT !.ver = origin[key[x]], !.gql = TRUE]]
    /\ pc' = [pc EXCEPT ![x] = "put"]
    /\ UNCHANGED <<upVars, node, listVars, flight, key, stored, passVars, lopVars, hookVars, errs>>

\* canonicalBody failed: a stored GraphQL body is kept and nothing written,
\* otherwise the REST body goes in.
CanonFails(x) ==
    /\ pc[x] = "canon" /\ Fail
    /\ IF stored[x] # None /\ stored[x].gql
       THEN Land(x)
       ELSE pc' = [pc EXCEPT ![x] = "put"] /\ UNCHANGED <<flight, key, stored, got>>
    /\ UNCHANGED <<upVars, node, listVars, passVars, lopVars, hookVars>>

\* upsert. The event that follows if the row read before shows another body
\* is left out, like the other events of this plugin: nothing here reads them.
Put(x) ==
    /\ pc[x] = "put"
    /\ node' = [node EXCEPT ![key[x]] = got[x]]
    /\ Land(x)
    /\ UNCHANGED <<upVars, listVars, passVars, lopVars, hookVars, errs>>

\* upsert failed: the error goes to the reader (and its waiters), the pass
\* ignores it.
PutFails(x) ==
    /\ pc[x] = "put" /\ Fail
    /\ Land(x)
    /\ UNCHANGED <<upVars, node, listVars, passVars, lopVars, hookVars>>

----------------------------------------------------------------------------
(* List operations: runOp with a scope, and extractAndStore. *)

\* The row extractAndStore writes for a member: GraphQL body, empty ETag.
Member(v) == [ver |-> v, etag |-> 0, gql |-> TRUE]

StoreMember(k, v) == node' = [node EXCEPT ![k] = Member(v)]

\* A cached list is used as it is; otherwise GitHub is asked.
ListRead(l) ==
    /\ lpc[l] = "idle"
    /\ IF list = None
       THEN /\ lpc' = [lpc EXCEPT ![l] = "query"]
            /\ UNCHANGED <<ldata, ltodo>>
       ELSE /\ lpc' = [lpc EXCEPT ![l] = "store"]
            /\ ldata' = [ldata EXCEPT ![l] = list]
            /\ ltodo' = [ltodo EXCEPT ![l] = {k \in Issues : list[k] # 0}]
    /\ UNCHANGED <<upVars, node, listVars, fetchVars, passVars, hookVars, errs>>

ListAnswer(l) ==
    /\ lpc[l] = "query"
    /\ lpc' = [lpc EXCEPT ![l] = "store"]
    /\ ldata' = [ldata EXCEPT ![l] = [k \in Issues |-> origin[k]]]
    /\ ltodo' = [ltodo EXCEPT ![l] = Issues]
    /\ UNCHANGED <<upVars, node, listVars, fetchVars, passVars, hookVars, errs>>

\* No connection: the operation fails. An HTTP error is not one: graphqlAt
\* ignores the status, and a body without data is a list without members.
ListFails(l) ==
    /\ lpc[l] = "query" /\ Fail
    /\ \/ lpc' = [lpc EXCEPT ![l] = "idle"] /\ UNCHANGED ldata
       \/ /\ lpc' = [lpc EXCEPT ![l] = "store"]
          /\ ldata' = [ldata EXCEPT ![l] = [k \in Issues |-> 0]]
    /\ UNCHANGED <<upVars, node, listVars, fetchVars, passVars, ltodo, hookVars>>

ListStore(l, k) ==
    /\ lpc[l] = "store" /\ k \in ltodo[l]
    /\ StoreMember(k, ldata[l][k])
    /\ ltodo' = [ltodo EXCEPT ![l] = @ \ {k}]
    /\ UNCHANGED <<upVars, listVars, fetchVars, passVars, lpc, ldata, hookVars, errs>>

\* putList: the list row, then the tag row.
ListPut(l) ==
    /\ lpc[l] = "store" /\ ltodo[l] = {}
    /\ list' = ldata[l]
    /\ lpc' = [lpc EXCEPT ![l] = "tag"]
    /\ UNCHANGED <<upVars, node, tagged, fetchVars, passVars, ldata, ltodo, hookVars, errs>>

ListTag(l) ==
    /\ lpc[l] = "tag"
    /\ tagged' = TRUE
    /\ lpc' = [lpc EXCEPT ![l] = "idle"]
    /\ ldata' = [ldata EXCEPT ![l] = None]
    /\ UNCHANGED <<upVars, node, list, fetchVars, passVars, ltodo, hookVars, errs>>

----------------------------------------------------------------------------
(* Webhook: handleWebhook's purge of one key. *)

\* SELECT of the list keys tagged with the composite of k.
HookScan(k) ==
    /\ hpc = "idle" /\ k \in hooks
    /\ hooks' = hooks \ {k}
    /\ hkey' = k
    /\ hpc' = IF tagged /\ k \in Issues THEN "list" ELSE "node"
    /\ UNCHANGED <<origin, node, listVars, fetchVars, passVars, lopVars, errs>>

HookDropList ==
    /\ hpc = "list"
    /\ list' = None
    /\ hpc' = "untag"
    /\ UNCHANGED <<upVars, node, tagged, fetchVars, passVars, lopVars, hkey, errs>>

HookUntag ==
    /\ hpc = "untag"
    /\ tagged' = FALSE
    /\ hpc' = "node"
    /\ UNCHANGED <<upVars, node, list, fetchVars, passVars, lopVars, hkey, errs>>

\* DELETE of the node row.
HookDropNode ==
    /\ hpc = "node"
    /\ node' = [node EXCEPT ![hkey] = None]
    /\ hpc' = "idle"
    /\ hkey' = None
    /\ UNCHANGED <<upVars, listVars, fetchVars, passVars, lopVars, errs>>

----------------------------------------------------------------------------
(* Reconcile: sinceReconcile, then revalidate. *)

PassBegins ==
    /\ pass = "idle"
    /\ pass' = "since"
    /\ UNCHANGED <<upVars, node, listVars, fetchVars, pull, todo, queue, lopVars, hookVars, errs>>

\* The openIssues pull answers with the members' current bodies.
PassPull ==
    /\ pass = "since"
    /\ pass' = "store"
    /\ pull' = [k \in Issues |-> origin[k]]
    /\ todo' = Issues
    /\ UNCHANGED <<upVars, node, listVars, fetchVars, queue, lopVars, hookVars, errs>>

\* No answer, or one without data: nothing is stored.
PassPullFails ==
    /\ pass = "since" /\ Fail
    /\ pass' = "scan"
    /\ UNCHANGED <<upVars, node, listVars, fetchVars, pull, todo, queue, lopVars, hookVars>>

PassStore(k) ==
    /\ pass = "store" /\ k \in todo
    /\ StoreMember(k, pull[k])
    /\ todo' = todo \ {k}
    /\ UNCHANGED <<upVars, listVars, fetchVars, pass, pull, queue, lopVars, hookVars, errs>>

PassStored ==
    /\ pass = "store" /\ todo = {}
    /\ pass' = "scan"
    /\ pull' = None
    /\ UNCHANGED <<upVars, node, listVars, fetchVars, todo, queue, lopVars, hookVars, errs>>

\* nonPinnedNodes: the rows as they are now; lists are not among them.
PassScan ==
    /\ pass = "scan"
    /\ pass' = "reval"
    /\ queue' = {<<k, node[k]>> : k \in {i \in Keys : node[i] # None /\ ~Pinned(i, node[i])}}
    /\ UNCHANGED <<upVars, node, listVars, fetchVars, pull, todo, lopVars, hookVars, errs>>

\* fetchNode of the next row, with the row of the scan as stored; no flight.
PassFetch ==
    /\ pass = "reval" /\ pc[Pass] = "idle"
    /\ \E e \in queue :
        /\ queue' = queue \ {e}
        /\ key' = [key EXCEPT ![Pass] = e[1]]
        /\ stored' = [stored EXCEPT ![Pass] = e[2]]
    /\ pc' = [pc EXCEPT ![Pass] = "get"]
    /\ UNCHANGED <<upVars, node, listVars, flight, got, pass, pull, todo, lopVars, hookVars, errs>>

\* A timer that fires once in place of the ticker.
PassEndsForGood ==
    /\ pass = "reval" /\ pc[Pass] = "idle" /\ queue = {}
    /\ UNCHANGED vars

PassEnds ==
    /\ pass = "reval" /\ pc[Pass] = "idle" /\ queue = {}
    /\ pass' = "idle"
    /\ UNCHANGED <<upVars, node, listVars, fetchVars, pull, todo, queue, lopVars, hookVars, errs>>

----------------------------------------------------------------------------

FetchStep(x) ==
    \/ Fetch304(x)
    \/ Fetch200(x)
    \/ FetchFails(x)
    \/ Canon(x)
    \/ CanonFails(x)
    \/ Put(x)
    \/ PutFails(x)

ListStep(l) ==
    \/ ListAnswer(l)
    \/ ListFails(l)
    \/ \E k \in Issues : ListStore(l, k)
    \/ ListPut(l)
    \/ ListTag(l)

HookStep == HookDropList \/ HookUntag \/ HookDropNode

PassStep ==
    \/ PassBegins
    \/ PassPull
    \/ PassPullFails
    \/ \E k \in Issues : PassStore(k)
    \/ PassStored
    \/ PassScan
    \/ PassFetch
    \/ PassEnds

Next ==
    \/ \E k \in Keys : Change(k)
    \/ \E r \in Readers, k \in Keys : Resolve(r, k)
    \/ \E r \in Readers : EnterFlight(r)
    \/ \E x \in Workers : FetchStep(x)
    \/ \E l \in Listers : ListRead(l)
    \/ \E l \in Listers : ListStep(l)
    \/ \E k \in Keys : HookScan(k)
    \/ HookStep
    \/ PassStep

Spec == Init /\ [][Next]_vars

\* The HTTP client's timeout ends every request, the reconcile ticker fires,
\* and started handlers run on. Nothing obliges a client to ask, an object
\* to change, or a webhook to arrive.
Fairness ==
    /\ \A r \in Readers : WF_vars(EnterFlight(r))
    /\ \A x \in Workers : WF_vars(FetchStep(x))
    /\ \A l \in Listers : WF_vars(ListStep(l))
    /\ WF_vars(HookStep)
    /\ WF_vars(PassStep)

FairSpec == Spec /\ Fairness

----------------------------------------------------------------------------
(* Properties. *)

\* fetchNode's 304 path: whenever GitHub would answer 304 to a request under
\* way, the body the plugin then keeps serving is GitHub's current one, even
\* though body and ETag come from two requests and rows are overwritten by
\* concurrent fetches, list results and the pass.
NotModifiedIsCurrent ==
    \A x \in Workers :
        pc[x] = "get" /\ NotModified(x) => stored[x].ver = origin[key[x]]

\* singleflight: the readers that miss on a key have at most one fetch of it
\* under way between them, and every waiter has a leader.
OneFetchPerKey ==
    /\ \A r, q \in Readers :
         pc[r] \in {"get", "canon", "put"} /\ pc[q] \in {"get", "canon", "put"}
            /\ key[r] = key[q] => r = q
    /\ \A r \in Readers : pc[r] = "wait" => flight[key[r]] # None

\* A read returns: nobody waits for a flight that is over.
ReadersReturn == \A r \in Readers : pc[r] # "idle" ~> pc[r] = "idle"

\* The reconcile floor: once objects stop changing, every cached body that is
\* not pinned becomes and stays current, whatever webhooks were lost and
\* whatever fetches raced a purge.
NodesHeal ==
    <>[](\A k \in Keys : node[k] = None \/ Pinned(k, node[k]) \/ node[k].ver = origin[k])

(* What a document says, refuted by a run. *)

\* docs/edr/github.md: "Worst-case staleness window = the reconcile interval
\* [...] the guaranteed upper bound when webhooks and notifications both miss,
\* holding for every non-pinned mutable kind". With list operations running.
StalenessIsBounded == NodesHeal
=============================================================================
