------------------------- MODULE GithubCacheProofs -------------------------
(***************************************************************************)
(* Proofs about module GithubCache, for any number of keys, concurrent     *)
(* readers and list requests, versions and failures.                       *)
(***************************************************************************)
EXTENDS GithubCache, TLAPS

(* Versions: the inductive invariant of the 304 path. *)

\* A row of k shows a version that is no older than the one its ETag
\* validates (the body is read after the ETag) and that GitHub had.
Fits(k, r) == r.etag <= r.ver /\ r.ver <= origin[k]

OriginOK == origin \in [Keys -> Version]

NodeOK ==
    /\ node \in [Keys -> Row \cup {None}]
    /\ \A k \in Keys : node[k] # None => Fits(k, node[k])

FetchTypeOK ==
    /\ pc \in [Workers -> {"idle", "read", "wait", "get", "canon", "put"}]
    /\ key \in [Workers -> Keys \cup {None}]
    /\ stored \in [Workers -> Row \cup {None}]
    /\ got \in [Workers -> Row \cup {None}]
    /\ flight \in [Keys -> Readers \cup {None}]

\* What a fetch works on: the row it read before, and the one it will write.
FetchOK ==
    \A x \in Workers :
        /\ pc[x] # "idle" => key[x] \in Keys
        /\ pc[x] # "idle" /\ stored[x] # None => Fits(key[x], stored[x])
        /\ pc[x] \in {"canon", "put"} => got[x] \in Row /\ Fits(key[x], got[x])

PassOK ==
    /\ \A e \in queue : e[1] \in Keys /\ e[2] \in Row /\ Fits(e[1], e[2])
    /\ todo \subseteq Issues
    /\ pass = "store" => /\ pull \in [Issues -> Version]
                         /\ \A k \in Issues : pull[k] <= origin[k]

\* A list result that may be stored from.
Shows(body) == body \in ListBody /\ \A k \in Issues : body[k] <= origin[k]

ListOK == list # None => Shows(list)

LopTypeOK ==
    /\ lpc \in [Listers -> {"idle", "query", "store", "tag"}]
    /\ ldata \in [Listers -> ListBody \cup {None}]
    /\ ltodo \in [Listers -> SUBSET Issues]

LopOK ==
    \A l \in Listers :
        /\ lpc[l] \in {"store", "tag"} => Shows(ldata[l])
        /\ ltodo[l] # {} => lpc[l] = "store"
        /\ \A k \in ltodo[l] : ldata[l][k] # 0

HookOK == hpc \in {"list", "untag", "node"} => hkey \in Keys

CacheInv ==
    /\ OriginOK /\ NodeOK /\ FetchTypeOK /\ FetchOK /\ PassOK /\ ListOK
    /\ LopTypeOK /\ LopOK /\ HookOK

(* Flights: the inductive invariant of singleflight. *)

Fetching == {"get", "canon", "put"}

\* A reader that fetches leads the flight of its key, a flight is led by the
\* reader that fetches its key, and a waiter waits for a flight. The pass
\* takes no part in it.
FlightOK ==
    /\ pc[Pass] \notin {"read", "wait"}
    /\ \A r \in Readers : pc[r] \in Fetching => flight[key[r]] = r
    /\ \A k \in Keys : flight[k] # None =>
          flight[k] \in Readers /\ pc[flight[k]] \in Fetching /\ key[flight[k]] = k
    /\ \A r \in Readers : pc[r] = "wait" => flight[key[r]] # None

----------------------------------------------------------------------------
(* Versions only grow, so what nobody touches keeps fitting. *)

Grows == OriginOK /\ OriginOK' /\ \A k \in Keys : origin[k] <= origin'[k]

LEMMA VersionNat == Version \subseteq Nat /\ 0 .. MaxVersion \subseteq Nat
  BY CacheAssumption DEF Version

LEMMA SameOriginGrows ==
    ASSUME OriginOK, UNCHANGED origin
    PROVE  Grows
  <1>1. ASSUME NEW k \in Keys PROVE origin[k] <= origin'[k]
    <2>1. origin[k] \in Nat /\ origin'[k] = origin[k]
      BY VersionNat DEF OriginOK
    <2> QED
      BY <2>1
  <1>2. OriginOK'
    BY DEF OriginOK
  <1> QED
    BY <1>1, <1>2 DEF Grows

LEMMA RowNumbers ==
    ASSUME NEW r \in Row
    PROVE  r.ver \in Nat /\ r.etag \in Nat
  BY VersionNat DEF Row

LEMMA StillFits ==
    ASSUME Grows, NEW k \in Keys, NEW r \in Row, Fits(k, r)
    PROVE  Fits(k, r)'
  <1>1. origin[k] \in Nat /\ origin'[k] \in Nat /\ origin[k] <= origin'[k]
    BY VersionNat DEF Grows, OriginOK
  <1> QED
    BY <1>1, RowNumbers DEF Fits

LEMMA StillShows ==
    ASSUME Grows, NEW b, Shows(b)
    PROVE  Shows(b)'
  <1>1. ASSUME NEW k \in Issues PROVE b[k] <= origin'[k]
    <2>1. k \in Keys /\ b[k] \in Nat /\ b[k] <= origin[k]
      BY VersionNat, CacheAssumption DEF Shows, ListBody
    <2>2. origin[k] \in Nat /\ origin'[k] \in Nat /\ origin[k] <= origin'[k]
      BY <2>1, VersionNat DEF Grows, OriginOK
    <2> QED
      BY <2>1, <2>2
  <1> QED
    BY <1>1 DEF Shows

LEMMA KeepsNode ==
    ASSUME NodeOK, Grows, UNCHANGED node
    PROVE  NodeOK'
  <1>1. ASSUME NEW k \in Keys, node[k] # None PROVE Fits(k, node[k])'
    BY <1>1, StillFits DEF NodeOK, Fits
  <1> QED
    BY <1>1 DEF NodeOK

LEMMA KeepsFetch ==
    ASSUME FetchTypeOK, FetchOK, Grows, UNCHANGED fetchVars
    PROVE  FetchTypeOK' /\ FetchOK'
  <1>1. FetchTypeOK'
    BY DEF FetchTypeOK, fetchVars
  <1>2. ASSUME NEW x \in Workers, pc[x] # "idle", stored[x] # None PROVE Fits(key[x], stored[x])'
    BY <1>2, StillFits DEF FetchTypeOK, FetchOK, Fits, fetchVars
  <1>3. ASSUME NEW x \in Workers, pc[x] \in {"canon", "put"} PROVE Fits(key[x], got[x])'
    BY <1>3, StillFits DEF FetchOK, Fits, fetchVars
  <1> QED
    BY <1>1, <1>2, <1>3 DEF FetchOK, fetchVars

LEMMA KeepsPass ==
    ASSUME PassOK, Grows, UNCHANGED <<pass, pull, todo, queue>>
    PROVE  PassOK'
  <1>1. ASSUME NEW e \in queue PROVE Fits(e[1], e[2])'
    BY StillFits DEF PassOK, Fits
  <1>2. ASSUME pass = "store", NEW k \in Issues PROVE pull[k] <= origin'[k]
    <2>1. k \in Keys /\ pull[k] \in Nat /\ pull[k] <= origin[k]
      BY <1>2, VersionNat, CacheAssumption DEF PassOK
    <2>2. origin[k] \in Nat /\ origin'[k] \in Nat /\ origin[k] <= origin'[k]
      BY <2>1, VersionNat DEF Grows, OriginOK
    <2> QED
      BY <2>1, <2>2
  <1> QED
    BY <1>1, <1>2 DEF PassOK

LEMMA KeepsList ==
    ASSUME ListOK, Grows, UNCHANGED list
    PROVE  ListOK'
  <1>1. ASSUME list # None PROVE Shows(list)'
    BY <1>1, StillShows DEF ListOK, Shows
  <1> QED
    BY <1>1 DEF ListOK

LEMMA KeepsLop ==
    ASSUME LopTypeOK, LopOK, Grows, UNCHANGED lopVars
    PROVE  LopTypeOK' /\ LopOK'
  <1>1. ASSUME NEW l \in Listers, lpc[l] \in {"store", "tag"} PROVE Shows(ldata[l])'
    <2>1. Shows(ldata[l])
      BY <1>1 DEF LopOK
    <2> QED
      BY <2>1, StillShows DEF Shows, lopVars
  <1> QED
    BY <1>1 DEF LopTypeOK, LopOK, lopVars

LEMMA KeepsHook ==
    ASSUME HookOK, UNCHANGED hookVars
    PROVE  HookOK'
  BY DEF HookOK, hookVars

----------------------------------------------------------------------------

LEMMA CacheInit == Init => CacheInv
  <1> SUFFICES ASSUME Init PROVE CacheInv
    OBVIOUS
  <1>1. OriginOK
    BY CacheAssumption DEF Init, OriginOK, Version
  <1> QED
    BY <1>1 DEF Init, CacheInv, NodeOK, FetchTypeOK, FetchOK, PassOK, ListOK, LopTypeOK, LopOK,
                HookOK

\* A row of the version GitHub has now fits.
LEMMA CurrentFits ==
    ASSUME OriginOK, NEW k \in Keys
    PROVE  /\ [ver |-> origin[k], etag |-> origin[k], gql |-> FALSE] \in Row
           /\ Fits(k, [ver |-> origin[k], etag |-> origin[k], gql |-> FALSE])
  <1>1. origin[k] \in Version /\ origin[k] \in 0 .. MaxVersion /\ origin[k] \in Nat
    BY VersionNat DEF OriginOK, Version
  <1> QED
    BY <1>1 DEF Row, Fits

\* A list member's row has no ETag, so it fits if its version does.
LEMMA MemberFits ==
    ASSUME OriginOK, NEW k \in Keys, NEW v \in Version, v <= origin[k]
    PROVE  Member(v) \in Row /\ Fits(k, Member(v))
  <1>1. v \in Nat /\ 0 \in 0 .. MaxVersion /\ 0 <= v
    BY VersionNat, CacheAssumption
  <1> QED
    BY <1>1 DEF Member, Row, Fits

\* Writing a row that fits keeps the table in order.
LEMMA StoreKeepsNode ==
    ASSUME NodeOK, UNCHANGED origin, NEW k \in Keys, NEW r,
           r = None \/ (r \in Row /\ Fits(k, r)), node' = [node EXCEPT ![k] = r]
    PROVE  NodeOK'
  BY DEF NodeOK, Fits

\* The goroutines that return leave nothing behind.
LEMMA ReturnKeeps ==
    ASSUME FetchTypeOK, FetchOK, UNCHANGED origin, NEW back, Return(back)
    PROVE  FetchTypeOK' /\ FetchOK'
  <1>1. FetchTypeOK'
    BY DEF FetchTypeOK, Return
  <1>2. ASSUME NEW x \in Workers
        PROVE  \/ pc'[x] = "idle"
               \/ pc'[x] = pc[x] /\ key'[x] = key[x] /\ stored'[x] = stored[x] /\ got'[x] = got[x]
    BY DEF Return
  <1>3. FetchOK'
    BY <1>2 DEF FetchOK, Fits
  <1> QED
    BY <1>1, <1>3

LEMMA FetchStepInv ==
    ASSUME CacheInv, NEW x \in Workers, FetchStep(x)
    PROVE  CacheInv'
  <1>0. UNCHANGED <<origin, hooks, listVars, passVars, lopVars, hookVars>>
    BY DEF FetchStep, Fetch304, Fetch200, FetchFails, Canon, CanonFails, Put, PutFails, upVars
  <1>1. OriginOK' /\ Grows
    BY <1>0, SameOriginGrows DEF CacheInv, OriginOK
  <1>2. PassOK' /\ ListOK' /\ LopTypeOK' /\ LopOK' /\ HookOK'
    BY <1>0, <1>1, KeepsPass, KeepsList, KeepsLop, KeepsHook DEF CacheInv, listVars, passVars
  <1>3. ASSUME UNCHANGED node, FetchTypeOK', FetchOK' PROVE CacheInv'
    BY <1>1, <1>2, <1>3, KeepsNode DEF CacheInv
  <1>4. CASE Fetch304(x) \/ FetchFails(x) \/ PutFails(x)
    BY <1>0, <1>3, <1>4, ReturnKeeps DEF CacheInv, Fetch304, FetchFails, PutFails, Land
  <1>5. CASE Fetch200(x)
    <2> DEFINE r == [ver |-> origin[key[x]], etag |-> origin[key[x]], gql |-> FALSE]
    <2>1. key[x] \in Keys
      BY <1>5 DEF Fetch200, CacheInv, FetchOK
    <2>2. r \in Row /\ Fits(key[x], r)
      BY <2>1, CurrentFits DEF CacheInv
    <2>3. /\ got' = [got EXCEPT ![x] = r]
          /\ pc' = [pc EXCEPT ![x] = IF key[x] \in Canonical THEN "canon" ELSE "put"]
          /\ UNCHANGED <<node, flight, key, stored>>
      BY <1>5 DEF Fetch200
    <2>4. FetchTypeOK'
      BY <2>2, <2>3 DEF CacheInv, FetchTypeOK
    <2>5. ASSUME NEW y \in Workers
          PROVE  /\ pc'[y] # "idle" => key'[y] \in Keys
                 /\ pc'[y] # "idle" /\ stored'[y] # None => Fits(key[y], stored[y])
                 /\ pc'[y] \in {"canon", "put"} => got'[y] \in Row /\ Fits(key[y], got'[y])
      <3>1. CASE y = x
        BY <1>5, <2>1, <2>2, <2>3, <3>1 DEF CacheInv, FetchTypeOK, FetchOK, Fetch200
      <3>2. CASE y # x
        BY <2>3, <3>2 DEF CacheInv, FetchTypeOK, FetchOK
      <3> QED
        BY <3>1, <3>2
    <2>6. FetchOK'
      BY <1>0, <2>3, <2>5 DEF FetchOK, Fits
    <2> QED
      BY <1>3, <2>3, <2>4, <2>6
  <1>6. CASE Canon(x)
    <2> DEFINE r == [got[x] EXCEPT !.ver = origin[key[x]], !.gql = TRUE]
    <2>1. key[x] \in Keys /\ got[x] \in Row /\ Fits(key[x], got[x])
      BY <1>6 DEF Canon, CacheInv, FetchOK
    <2>2. r \in Row /\ Fits(key[x], r)
      <3>1. origin[key[x]] \in Version /\ origin[key[x]] \in Nat
        BY <2>1, VersionNat DEF CacheInv, OriginOK
      <3>2. got[x].etag \in Nat /\ got[x].ver \in Nat
        BY <2>1, RowNumbers
      <3>3. r \in Row /\ r.ver = origin[key[x]] /\ r.etag = got[x].etag
        BY <2>1, <3>1 DEF Row
      <3> QED
        BY <2>1, <3>1, <3>2, <3>3 DEF Fits
    <2>3. /\ got' = [got EXCEPT ![x] = r]
          /\ pc' = [pc EXCEPT ![x] = "put"]
          /\ UNCHANGED <<node, flight, key, stored>>
      BY <1>6 DEF Canon
    <2>4. FetchTypeOK'
      BY <2>2, <2>3 DEF CacheInv, FetchTypeOK
    <2>5. ASSUME NEW y \in Workers
          PROVE  /\ pc'[y] # "idle" => key'[y] \in Keys
                 /\ pc'[y] # "idle" /\ stored'[y] # None => Fits(key[y], stored[y])
                 /\ pc'[y] \in {"canon", "put"} => got'[y] \in Row /\ Fits(key[y], got'[y])
      <3>1. CASE y = x
        BY <1>6, <2>1, <2>2, <2>3, <3>1 DEF CacheInv, FetchTypeOK, FetchOK, Canon
      <3>2. CASE y # x
        BY <2>3, <3>2 DEF CacheInv, FetchTypeOK, FetchOK
      <3> QED
        BY <3>1, <3>2
    <2>6. FetchOK'
      BY <1>0, <2>3, <2>5 DEF FetchOK, Fits
    <2> QED
      BY <1>3, <2>3, <2>4, <2>6
  <1>7. CASE CanonFails(x)
    <2>1. CASE Land(x)
      BY <1>0, <1>3, <1>7, <2>1, ReturnKeeps DEF CacheInv, CanonFails, Land
    <2>2. CASE pc' = [pc EXCEPT ![x] = "put"] /\ UNCHANGED <<flight, key, stored, got>>
      <3>1. pc[x] = "canon" /\ UNCHANGED node
        BY <1>7 DEF CanonFails
      <3>2. FetchTypeOK'
        BY <2>2 DEF CacheInv, FetchTypeOK
      <3>3. FetchOK'
        BY <1>0, <2>2, <3>1 DEF CacheInv, FetchTypeOK, FetchOK, Fits
      <3> QED
        BY <1>3, <3>1, <3>2, <3>3
    <2> QED
      BY <1>7, <2>1, <2>2 DEF CanonFails
  <1>8. CASE Put(x)
    <2>1. key[x] \in Keys /\ got[x] \in Row /\ Fits(key[x], got[x])
      BY <1>8 DEF Put, CacheInv, FetchOK
    <2>2. NodeOK'
      BY <1>0, <1>8, <2>1, StoreKeepsNode DEF Put, CacheInv
    <2>3. FetchTypeOK' /\ FetchOK'
      BY <1>0, <1>8, ReturnKeeps DEF CacheInv, Put, Land
    <2> QED
      BY <1>1, <1>2, <2>2, <2>3 DEF CacheInv
  <1> QED
    BY <1>4, <1>5, <1>6, <1>7, <1>8 DEF FetchStep

LEMMA ReaderStepInv ==
    ASSUME CacheInv, NEW r \in Readers, EnterFlight(r) \/ \E k \in Keys : Resolve(r, k)
    PROVE  CacheInv'
  <1>0. UNCHANGED <<origin, hooks, node, listVars, passVars, lopVars, hookVars>> /\ r \in Workers
    BY DEF EnterFlight, Resolve, upVars, Workers
  <1>1. OriginOK' /\ Grows
    BY <1>0, SameOriginGrows DEF CacheInv, OriginOK
  <1>2. NodeOK' /\ PassOK' /\ ListOK' /\ LopTypeOK' /\ LopOK' /\ HookOK'
    BY <1>0, <1>1, KeepsNode, KeepsPass, KeepsList, KeepsLop, KeepsHook
       DEF CacheInv, listVars, passVars
  <1>3. FetchTypeOK' /\ FetchOK'
    <2>1. ASSUME NEW k \in Keys, Resolve(r, k) PROVE FetchTypeOK' /\ FetchOK'
      <3>1. /\ pc' = [pc EXCEPT ![r] = "read"] /\ key' = [key EXCEPT ![r] = k]
            /\ stored' = [stored EXCEPT ![r] = node[k]] /\ UNCHANGED <<flight, got>>
        BY <2>1 DEF Resolve
      <3>2. node[k] \in Row \cup {None} /\ (node[k] # None => Fits(k, node[k]))
        BY DEF CacheInv, NodeOK
      <3>3. FetchTypeOK'
        BY <1>0, <3>1, <3>2 DEF CacheInv, FetchTypeOK
      <3>4. FetchOK'
        BY <1>0, <3>1, <3>2 DEF CacheInv, FetchTypeOK, FetchOK, Fits
      <3> QED
        BY <3>3, <3>4
    <2>2. ASSUME EnterFlight(r) PROVE FetchTypeOK' /\ FetchOK'
      <3>1. /\ pc[r] = "read" /\ UNCHANGED <<key, stored, got>>
            /\ pc' \in {[pc EXCEPT ![r] = "get"], [pc EXCEPT ![r] = "wait"]}
            /\ flight' \in {flight, [flight EXCEPT ![key[r]] = r]}
        BY <2>2 DEF EnterFlight
      <3>2. FetchTypeOK'
        BY <1>0, <3>1 DEF CacheInv, FetchTypeOK
      <3>3. FetchOK'
        BY <1>0, <3>1 DEF CacheInv, FetchTypeOK, FetchOK, Fits
      <3> QED
        BY <3>2, <3>3
    <2> QED
      BY <2>1, <2>2
  <1> QED
    BY <1>1, <1>2, <1>3 DEF CacheInv

\* The steps that leave the fetches alone: what each of them may write.
LEMMA RestInv ==
    ASSUME CacheInv, Grows, UNCHANGED fetchVars, NodeOK', PassOK', ListOK', LopTypeOK', LopOK',
           HookOK'
    PROVE  CacheInv'
  BY KeepsFetch DEF CacheInv, Grows

LEMMA ListStepInv ==
    ASSUME CacheInv, NEW l \in Listers, ListRead(l) \/ ListStep(l)
    PROVE  CacheInv'
  <1>0. UNCHANGED <<upVars, fetchVars, passVars, hookVars>>
    BY DEF ListRead, ListStep, ListAnswer, ListFails, ListStore, ListPut, ListTag
  <1>1. Grows /\ UNCHANGED origin
    BY <1>0, SameOriginGrows DEF CacheInv, upVars
  <1>2. PassOK' /\ HookOK'
    BY <1>0, <1>1, KeepsPass, KeepsHook DEF CacheInv, passVars
  <1>3. ASSUME NEW b, Shows(b) PROVE Shows(b)'
    BY <1>1, <1>3, StillShows
  <1>4. ASSUME LopTypeOK', LopOK', UNCHANGED <<node, list>> PROVE CacheInv'
    BY <1>0, <1>1, <1>2, <1>4, KeepsNode, KeepsList, RestInv DEF CacheInv
  <1>5. CASE ListRead(l)
    <2>1. CASE list = None
      <3>1. /\ lpc[l] = "idle" /\ lpc' = [lpc EXCEPT ![l] = "query"]
            /\ UNCHANGED <<ldata, ltodo, node, list>>
        BY <1>5, <2>1 DEF ListRead, listVars
      <3>2. LopTypeOK'
        BY <3>1 DEF CacheInv, LopTypeOK
      <3>3. LopOK'
        BY <1>1, <3>1 DEF CacheInv, LopTypeOK, LopOK, Shows
      <3> QED
        BY <1>4, <3>1, <3>2, <3>3
    <2>2. CASE list # None
      <3>1. /\ lpc[l] = "idle" /\ lpc' = [lpc EXCEPT ![l] = "store"]
            /\ ldata' = [ldata EXCEPT ![l] = list]
            /\ ltodo' = [ltodo EXCEPT ![l] = {k \in Issues : list[k] # 0}]
            /\ UNCHANGED <<node, list>>
        BY <1>5, <2>2 DEF ListRead, listVars
      <3>2. Shows(list)
        BY <2>2 DEF CacheInv, ListOK
      <3>3. LopTypeOK'
        BY <3>1, <3>2 DEF CacheInv, LopTypeOK, Shows
      <3>4. LopOK'
        BY <1>1, <3>1, <3>2 DEF CacheInv, LopTypeOK, LopOK, Shows
      <3> QED
        BY <1>4, <3>1, <3>3, <3>4
    <2> QED
      BY <2>1, <2>2
  <1>6. CASE ListAnswer(l)
    <2> DEFINE b == [k \in Issues |-> origin[k]]
    <2>1. /\ lpc' = [lpc EXCEPT ![l] = "store"] /\ ldata' = [ldata EXCEPT ![l] = b]
          /\ ltodo' = [ltodo EXCEPT ![l] = Issues] /\ UNCHANGED <<node, list>>
      BY <1>6 DEF ListAnswer, listVars
    <2>2. ASSUME NEW k \in Issues
          PROVE  b[k] \in 0 .. MaxVersion /\ b[k] <= origin[k] /\ b[k] # 0
      <3>1. origin[k] \in Version /\ b[k] = origin[k]
        BY CacheAssumption DEF CacheInv, OriginOK
      <3> QED
        BY <3>1, CacheAssumption DEF Version
    <2>3. Shows(b)
      BY <2>2 DEF Shows, ListBody
    <2>4. LopTypeOK'
      BY <2>1, <2>3 DEF CacheInv, LopTypeOK, Shows
    <2>5. LopOK'
      BY <1>1, <2>1, <2>2, <2>3 DEF CacheInv, LopTypeOK, LopOK, Shows
    <2> QED
      BY <1>4, <2>1, <2>4, <2>5
  <1>7. CASE ListFails(l)
    <2> DEFINE b == [k \in Issues |-> 0]
    <2>1. /\ lpc[l] = "query" /\ UNCHANGED <<ltodo, node, list>>
          /\ \/ lpc' = [lpc EXCEPT ![l] = "idle"] /\ UNCHANGED ldata
             \/ lpc' = [lpc EXCEPT ![l] = "store"] /\ ldata' = [ldata EXCEPT ![l] = b]
      BY <1>7 DEF ListFails, listVars
    <2>2. Shows(b)
      <3>1. ASSUME NEW k \in Issues PROVE 0 <= origin[k]
        <4>1. origin[k] \in Nat
          BY CacheAssumption, VersionNat DEF CacheInv, OriginOK
        <4> QED
          BY <4>1
      <3> QED
        BY <3>1, CacheAssumption DEF Shows, ListBody
    <2>3. LopTypeOK'
      BY <2>1, <2>2 DEF CacheInv, LopTypeOK, Shows
    <2>4. ltodo[l] = {}
      BY <2>1 DEF CacheInv, LopOK
    <2>5. LopOK'
      <3>1. CASE lpc' = [lpc EXCEPT ![l] = "idle"] /\ UNCHANGED ldata
        BY <1>1, <2>1, <2>4, <3>1 DEF CacheInv, LopTypeOK, LopOK, Shows
      <3>2. CASE lpc' = [lpc EXCEPT ![l] = "store"] /\ ldata' = [ldata EXCEPT ![l] = b]
        BY <1>1, <2>1, <2>2, <2>4, <3>2 DEF CacheInv, LopTypeOK, LopOK, Shows
      <3> QED
        BY <2>1, <3>1, <3>2
    <2> QED
      BY <1>4, <2>1, <2>3, <2>5
  <1>8. CASE \E k \in Issues : ListStore(l, k)
    <2>1. PICK k \in Issues : ListStore(l, k)
      BY <1>8
    <2>2. /\ lpc[l] = "store" /\ k \in ltodo[l] /\ node' = [node EXCEPT ![k] = Member(ldata[l][k])]
          /\ ltodo' = [ltodo EXCEPT ![l] = @ \ {k}] /\ UNCHANGED <<list, lpc, ldata>>
      BY <2>1 DEF ListStore, StoreMember, listVars
    <2>3. k \in Keys /\ ldata[l][k] \in Version /\ ldata[l][k] <= origin[k]
      <3>1. ldata[l][k] \in 0 .. MaxVersion /\ ldata[l][k] <= origin[k] /\ ldata[l][k] # 0
        BY <2>2 DEF CacheInv, LopOK, Shows, ListBody
      <3> QED
        BY <3>1, CacheAssumption DEF Version
    <2>4. NodeOK'
      BY <1>1, <2>2, <2>3, MemberFits, StoreKeepsNode DEF CacheInv
    <2>5. LopTypeOK'
      BY <2>2 DEF CacheInv, LopTypeOK
    <2>6. LopOK'
      BY <1>1, <2>2 DEF CacheInv, LopTypeOK, LopOK, Shows
    <2> QED
      BY <1>0, <1>1, <1>2, <2>2, <2>4, <2>5, <2>6, KeepsList, RestInv DEF CacheInv
  <1>9. CASE ListPut(l)
    <2>1. /\ lpc[l] = "store" /\ ltodo[l] = {} /\ list' = ldata[l]
          /\ lpc' = [lpc EXCEPT ![l] = "tag"] /\ UNCHANGED <<node, ldata, ltodo>>
      BY <1>9 DEF ListPut
    <2>2. ListOK'
      BY <1>1, <2>1 DEF CacheInv, LopOK, ListOK, Shows
    <2>3. LopTypeOK'
      BY <2>1 DEF CacheInv, LopTypeOK
    <2>4. LopOK'
      BY <1>1, <2>1 DEF CacheInv, LopTypeOK, LopOK, Shows
    <2> QED
      BY <1>0, <1>1, <1>2, <2>1, <2>2, <2>3, <2>4, KeepsNode, RestInv DEF CacheInv
  <1>10. CASE ListTag(l)
    <2>1. /\ lpc[l] = "tag" /\ lpc' = [lpc EXCEPT ![l] = "idle"]
          /\ ldata' = [ldata EXCEPT ![l] = None] /\ UNCHANGED <<node, list, ltodo>>
      BY <1>10 DEF ListTag
    <2>2. LopTypeOK'
      BY <2>1 DEF CacheInv, LopTypeOK
    <2>3. LopOK'
      BY <1>1, <2>1 DEF CacheInv, LopTypeOK, LopOK, Shows
    <2> QED
      BY <1>4, <2>1, <2>2, <2>3
  <1> QED
    BY <1>5, <1>6, <1>7, <1>8, <1>9, <1>10 DEF ListStep

LEMMA HookStepInv ==
    ASSUME CacheInv, HookStep \/ \E k \in Keys : HookScan(k)
    PROVE  CacheInv'
  <1>0. UNCHANGED <<origin, fetchVars, passVars, lopVars>>
    BY DEF HookStep, HookDropList, HookUntag, HookDropNode, HookScan, upVars
  <1>1. Grows
    BY <1>0, SameOriginGrows DEF CacheInv
  <1>2. PassOK' /\ LopTypeOK' /\ LopOK'
    BY <1>0, <1>1, KeepsPass, KeepsLop DEF CacheInv, passVars
  <1>3. HookOK'
    BY DEF CacheInv, HookOK, HookStep, HookDropList, HookUntag, HookDropNode, HookScan
  <1>4. ListOK'
    <2>1. CASE UNCHANGED list
      BY <1>1, <2>1, KeepsList DEF CacheInv
    <2>2. CASE list' = None
      BY <2>2 DEF ListOK
    <2> QED
      BY <2>1, <2>2
         DEF HookStep, HookDropList, HookUntag, HookDropNode, HookScan, listVars
  <1>5. NodeOK'
    <2>1. CASE UNCHANGED node
      BY <1>1, <2>1, KeepsNode DEF CacheInv
    <2>2. CASE HookDropNode
      BY <1>0, <2>2, StoreKeepsNode DEF CacheInv, HookDropNode, HookOK
    <2> QED
      BY <2>1, <2>2 DEF HookStep, HookDropList, HookUntag, HookScan
  <1> QED
    BY <1>0, <1>1, <1>2, <1>3, <1>4, <1>5, RestInv

LEMMA PassStepInv ==
    ASSUME CacheInv, PassStep
    PROVE  CacheInv'
  <1>0. UNCHANGED <<origin, listVars, lopVars, hookVars>>
    BY DEF PassStep, PassBegins, PassPull, PassPullFails, PassStore, PassStored, PassScan,
           PassFetch, PassEnds, upVars
  <1>1. Grows
    BY <1>0, SameOriginGrows DEF CacheInv
  <1>2. ListOK' /\ LopTypeOK' /\ LopOK' /\ HookOK'
    BY <1>0, <1>1, KeepsList, KeepsLop, KeepsHook DEF CacheInv, listVars
  <1>3. ASSUME UNCHANGED <<node, fetchVars>>, PassOK' PROVE CacheInv'
    BY <1>1, <1>2, <1>3, KeepsNode, RestInv DEF CacheInv
  <1>4. CASE PassBegins \/ PassPullFails \/ PassStored \/ PassEnds
    <2>1. UNCHANGED <<node, fetchVars, todo, queue>> /\ pass' # "store"
      BY <1>4 DEF PassBegins, PassPullFails, PassStored, PassEnds
    <2>2. PassOK'
      BY <1>0, <2>1 DEF CacheInv, PassOK, Fits
    <2> QED
      BY <1>3, <2>1, <2>2
  <1>5. CASE PassPull
    <2>1. /\ UNCHANGED <<node, fetchVars, queue>> /\ todo' = Issues
          /\ pull' = [k \in Issues |-> origin[k]]
      BY <1>5 DEF PassPull
    <2>2. ASSUME NEW k \in Issues PROVE origin[k] \in Version /\ origin[k] <= origin[k]
      <3>1. origin[k] \in Version /\ origin[k] \in Nat
        BY CacheAssumption, VersionNat DEF CacheInv, OriginOK
      <3> QED
        BY <3>1
    <2>3. PassOK'
      BY <1>0, <2>1, <2>2 DEF CacheInv, PassOK, Fits
    <2> QED
      BY <1>3, <2>1, <2>3
  <1>6. CASE \E k \in Issues : PassStore(k)
    <2>1. PICK k \in Issues : PassStore(k)
      BY <1>6
    <2>2. /\ pass = "store" /\ node' = [node EXCEPT ![k] = Member(pull[k])] /\ todo' = todo \ {k}
          /\ UNCHANGED <<fetchVars, pass, pull, queue>>
      BY <2>1 DEF PassStore, StoreMember
    <2>3. k \in Keys /\ pull[k] \in Version /\ pull[k] <= origin[k]
      BY <2>2, CacheAssumption DEF CacheInv, PassOK
    <2>4. NodeOK'
      BY <1>0, <2>2, <2>3, MemberFits, StoreKeepsNode DEF CacheInv
    <2>5. PassOK'
      BY <1>0, <2>2 DEF CacheInv, PassOK, Fits
    <2> QED
      BY <1>1, <1>2, <2>2, <2>4, <2>5, RestInv
  <1>7. CASE PassScan
    <2>1. /\ UNCHANGED <<node, fetchVars, todo>> /\ pass' = "reval"
          /\ queue' = {<<k, node[k]>> : k \in {i \in Keys : node[i] # None /\ ~Pinned(i, node[i])}}
      BY <1>7 DEF PassScan
    <2>2. ASSUME NEW e \in queue' PROVE e[1] \in Keys /\ e[2] \in Row /\ Fits(e[1], e[2])
      BY <2>1 DEF CacheInv, NodeOK
    <2>3. PassOK'
      BY <1>0, <2>1, <2>2 DEF CacheInv, PassOK, Fits
    <2> QED
      BY <1>3, <2>1, <2>3
  <1>8. CASE PassFetch
    <2>1. PICK e \in queue : /\ queue' = queue \ {e}
                             /\ key' = [key EXCEPT ![Pass] = e[1]]
                             /\ stored' = [stored EXCEPT ![Pass] = e[2]]
      BY <1>8 DEF PassFetch
    <2>2. /\ pc' = [pc EXCEPT ![Pass] = "get"] /\ UNCHANGED <<node, flight, got, pass, pull, todo>>
      BY <1>8 DEF PassFetch
    <2>3. e[1] \in Keys /\ e[2] \in Row /\ Fits(e[1], e[2]) /\ Pass \in Workers
      BY DEF CacheInv, PassOK, Workers
    <2>4. PassOK'
      BY <1>0, <2>1, <2>2 DEF CacheInv, PassOK, Fits
    <2>5. FetchTypeOK'
      BY <2>1, <2>2, <2>3 DEF CacheInv, FetchTypeOK
    <2>6. FetchOK'
      BY <1>0, <2>1, <2>2, <2>3 DEF CacheInv, FetchTypeOK, FetchOK, Fits
    <2>7. NodeOK'
      BY <1>1, <2>2, KeepsNode DEF CacheInv
    <2> QED
      BY <1>1, <1>2, <2>4, <2>5, <2>6, <2>7 DEF CacheInv, Grows
  <1> QED
    BY <1>4, <1>5, <1>6, <1>7, <1>8 DEF PassStep

LEMMA ChangeInv ==
    ASSUME CacheInv, NEW k \in Keys, Change(k)
    PROVE  CacheInv'
  <1>1. origin[k] < MaxVersion /\ origin' = [origin EXCEPT ![k] = @ + 1]
    BY DEF Change
  <1>2. UNCHANGED <<node, listVars, fetchVars, passVars, lopVars, hookVars>>
    BY DEF Change
  <1>3. ASSUME NEW i \in Keys PROVE origin'[i] \in Version /\ origin[i] <= origin'[i]
    <2>1. origin[i] \in Version /\ (i = k \/ origin'[i] = origin[i])
      BY <1>1 DEF CacheInv, OriginOK
    <2>2. i = k => origin'[i] = origin[i] + 1
      BY <1>1 DEF CacheInv, OriginOK
    <2> QED
      BY <1>1, <2>1, <2>2, CacheAssumption DEF Version
  <1>4. Grows
    BY <1>1, <1>3 DEF CacheInv, OriginOK, Grows
  <1> QED
    BY <1>2, <1>4, KeepsNode, KeepsPass, KeepsList, KeepsLop, KeepsHook, RestInv
       DEF CacheInv, listVars, passVars

LEMMA CacheNext == CacheInv /\ [Next]_vars => CacheInv'
  <1> SUFFICES ASSUME CacheInv, [Next]_vars PROVE CacheInv'
    OBVIOUS
  <1>1. CASE Next
    BY <1>1, FetchStepInv, ReaderStepInv, ListStepInv, HookStepInv, PassStepInv, ChangeInv DEF Next
  <1>2. CASE UNCHANGED vars
    <2>1. /\ UNCHANGED <<origin, node, list, fetchVars, lopVars, hookVars>>
          /\ UNCHANGED <<pass, pull, todo, queue>>
      BY <1>2 DEF vars, upVars, listVars, passVars
    <2>2. Grows
      BY <2>1, SameOriginGrows DEF CacheInv
    <2> QED
      BY <2>1, <2>2, KeepsNode, KeepsPass, KeepsList, KeepsLop, KeepsHook, RestInv DEF CacheInv
  <1> QED
    BY <1>1, <1>2

\* The invariant behind the 304 path: whatever the interleaving of readers,
\* list requests, webhooks and the reconcile pass, every row in the table, in
\* a request or in the pass's queue shows a version at least as new as its
\* ETag's (fetchNode reads the canonical body after the REST answer, and
\* extractAndStore writes no ETag).
THEOREM CacheConsistent == Spec => []CacheInv
  <1>1. Init => CacheInv
    BY CacheInit
  <1>2. CacheInv /\ [Next]_vars => CacheInv'
    BY CacheNext
  <1> QED
    BY <1>1, <1>2, PTL DEF Spec

\* fetchNode: a 304 answer means that the body kept is GitHub's current one.
THEOREM NotModifiedHolds == Spec => []NotModifiedIsCurrent
  <1>1. CacheInv => NotModifiedIsCurrent
    <2> SUFFICES ASSUME CacheInv, NEW x \in Workers, pc[x] = "get", NotModified(x)
                 PROVE  stored[x].ver = origin[key[x]]
      BY DEF NotModifiedIsCurrent
    <2>1. key[x] \in Keys /\ stored[x] \in Row /\ Fits(key[x], stored[x])
      BY DEF CacheInv, FetchTypeOK, FetchOK, NotModified
    <2>2. origin[key[x]] \in Nat /\ stored[x].ver \in Nat /\ stored[x].etag \in Nat
      BY <2>1, RowNumbers, VersionNat DEF CacheInv, OriginOK
    <2> QED
      BY <2>1, <2>2 DEF Fits, NotModified
  <1> QED
    BY <1>1, CacheConsistent, PTL

----------------------------------------------------------------------------
(* Singleflight. *)

LEMMA FlightInit == Init => FlightOK
  BY DEF Init, FlightOK, Workers, Fetching

\* A step of one worker inside its fetch changes nobody's flight.
LEMMA FlightAdvance ==
    ASSUME FetchTypeOK, FlightOK, NEW x \in Workers, NEW p \in Fetching, pc[x] \in Fetching,
           pc' = [pc EXCEPT ![x] = p], UNCHANGED <<flight, key>>
    PROVE  FlightOK'
  <1>1. ASSUME NEW y \in Workers
        PROVE  /\ pc'[y] \in Fetching <=> pc[y] \in Fetching
               /\ pc'[y] = "wait" <=> pc[y] = "wait"
               /\ pc'[y] = "read" <=> pc[y] = "read"
    BY DEF FetchTypeOK, Fetching
  <1>2. Pass \in Workers /\ Readers \subseteq Workers
    BY DEF Workers
  <1> QED
    BY <1>1, <1>2 DEF FlightOK

\* A returning goroutine takes along its flight and everyone who waits for it.
LEMMA FlightLands ==
    ASSUME FetchTypeOK, FetchOK, FlightOK, NEW x \in Workers, pc[x] \in Fetching, Land(x)
    PROVE  FlightOK'
  <1> DEFINE back == {x} \cup {y \in Workers :
                         pc[y] = "wait" /\ key[y] = key[x] /\ flight[key[x]] = x}
  <1>0. Return(back) /\ Pass \in Workers /\ Readers \subseteq Workers /\ None \notin Workers
    BY CacheAssumption DEF Land, Workers
  <1>1. ASSUME NEW y \in Workers
        PROVE  /\ y \in back => pc'[y] = "idle"
               /\ y \notin back => pc'[y] = pc[y] /\ key'[y] = key[y]
    BY <1>0 DEF Return
  <1>2. ASSUME NEW k \in Keys PROVE flight'[k] = IF flight[k] \in back THEN None ELSE flight[k]
    BY <1>0 DEF Return
  <1>3. ASSUME NEW k \in Keys, flight[k] \in back PROVE flight[k] = x /\ key[x] = k
    <2>1. flight[k] \in Readers /\ pc[flight[k]] \in Fetching /\ key[flight[k]] = k
      BY <1>0, <1>3 DEF FlightOK
    <2>2. pc[flight[k]] # "wait"
      BY <2>1 DEF Fetching
    <2> QED
      BY <1>3, <2>1, <2>2
  <1>4. pc'[Pass] \notin {"read", "wait"}
    BY <1>0, <1>1 DEF FlightOK
  <1>5. ASSUME NEW r \in Readers, pc'[r] \in Fetching PROVE flight'[key'[r]] = r
    <2>1. r \notin back
      BY <1>0, <1>1, <1>5 DEF Fetching
    <2>2. pc[r] \in Fetching /\ key'[r] = key[r] /\ flight[key[r]] = r
      BY <1>0, <1>1, <1>5, <2>1 DEF FlightOK
    <2>3. key[r] \in Keys
      BY <1>0, <2>2 DEF FetchOK, Fetching
    <2> QED
      BY <1>2, <2>1, <2>2, <2>3
  <1>6. ASSUME NEW k \in Keys, flight'[k] # None
        PROVE  flight'[k] \in Readers /\ pc'[flight'[k]] \in Fetching /\ key'[flight'[k]] = k
    <2>1. flight[k] \notin back /\ flight'[k] = flight[k]
      BY <1>2, <1>6
    <2>2. flight[k] \in Readers /\ pc[flight[k]] \in Fetching /\ key[flight[k]] = k
      BY <1>6, <2>1 DEF FlightOK
    <2> QED
      BY <1>0, <1>1, <2>1, <2>2
  <1>7. ASSUME NEW r \in Readers, pc'[r] = "wait" PROVE flight'[key'[r]] # None
    <2>1. r \notin back /\ pc[r] = "wait" /\ key'[r] = key[r]
      BY <1>0, <1>1, <1>7
    <2>2. key[r] \in Keys /\ flight[key[r]] # None
      BY <1>0, <2>1 DEF FetchOK, FlightOK
    <2>3. flight[key[r]] \notin back
      <3> SUFFICES ASSUME flight[key[r]] \in back PROVE FALSE
        OBVIOUS
      <3>1. flight[key[r]] = x /\ key[x] = key[r]
        BY <1>3, <2>2
      <3> QED
        BY <1>0, <2>1, <3>1
    <2> QED
      BY <1>2, <2>1, <2>2, <2>3
  <1> QED
    BY <1>4, <1>5, <1>6, <1>7 DEF FlightOK

LEMMA FlightFetchStep ==
    ASSUME CacheInv, FlightOK, NEW x \in Workers, FetchStep(x)
    PROVE  FlightOK'
  <1>1. CASE Land(x)
    <2>1. pc[x] \in Fetching
      BY DEF FetchStep, Fetch304, Fetch200, FetchFails, Canon, CanonFails, Put, PutFails, Fetching
    <2> QED
      BY <1>1, <2>1, FlightLands DEF CacheInv
  <1>2. CASE ~Land(x)
    <2>1. /\ pc[x] \in Fetching /\ UNCHANGED <<flight, key>>
          /\ \E p \in Fetching : pc' = [pc EXCEPT ![x] = p]
      BY <1>2 DEF FetchStep, Fetch304, Fetch200, FetchFails, Canon, CanonFails, Put, PutFails,
                  Fetching
    <2> QED
      BY <2>1, FlightAdvance DEF CacheInv
  <1> QED
    BY <1>1, <1>2

\* A reader outside a fetch leads no flight, so it may start on any key.
LEMMA FlightResolve ==
    ASSUME CacheInv, FlightOK, NEW r \in Readers, NEW k \in Keys, Resolve(r, k)
    PROVE  FlightOK'
  <1>1. /\ pc[r] = "idle" /\ pc' = [pc EXCEPT ![r] = "read"] /\ key' = [key EXCEPT ![r] = k]
        /\ UNCHANGED flight
    BY DEF Resolve
  <1>2. pc \in [Workers -> {"idle", "read", "wait", "get", "canon", "put"}]
        /\ key \in [Workers -> Keys \cup {None}] /\ r \in Workers /\ Pass # r /\ Pass \in Workers
        /\ Readers \subseteq Workers
    BY CacheAssumption DEF CacheInv, FetchTypeOK, Workers
  <1>3. \A i \in Keys : flight[i] # r
    BY <1>1, <1>2, CacheAssumption DEF FlightOK, Fetching
  <1> QED
    BY <1>1, <1>2, <1>3 DEF FlightOK, Fetching

LEMMA FlightEnter ==
    ASSUME CacheInv, FlightOK, NEW r \in Readers, EnterFlight(r)
    PROVE  FlightOK'
  <1>1. /\ pc \in [Workers -> {"idle", "read", "wait", "get", "canon", "put"}]
        /\ flight \in [Keys -> Readers \cup {None}]
        /\ r \in Workers /\ Pass # r /\ Pass \in Workers /\ Readers \subseteq Workers /\ None # r
    BY CacheAssumption DEF CacheInv, FetchTypeOK, Workers
  <1>2. pc[r] = "read" /\ key[r] \in Keys /\ UNCHANGED key
    BY <1>1 DEF EnterFlight, CacheInv, FetchOK
  <1>3. \A k \in Keys : flight[k] # r
    BY <1>1, <1>2 DEF FlightOK, Fetching
  <1>4. CASE flight[key[r]] = None
    <2>1. flight' = [flight EXCEPT ![key[r]] = r] /\ pc' = [pc EXCEPT ![r] = "get"]
      BY <1>4 DEF EnterFlight
    <2>2. ASSUME NEW q \in Readers, pc'[q] \in Fetching PROVE flight'[key[q]] = q
      <3>1. CASE q = r
        BY <1>1, <1>2, <2>1, <3>1
      <3>2. CASE q # r
        <4>1. pc[q] \in Fetching /\ q \in Workers /\ None # q
          BY <1>1, <2>1, <2>2, <3>2, CacheAssumption
        <4>2. flight[key[q]] = q /\ key[q] \in Keys
          BY <4>1 DEF FlightOK, CacheInv, FetchOK, Fetching
        <4>3. key[q] # key[r]
          BY <1>4, <4>1, <4>2
        <4> QED
          BY <1>1, <1>2, <2>1, <4>2, <4>3
      <3> QED
        BY <3>1, <3>2
    <2>3. ASSUME NEW k \in Keys, flight'[k] # None
          PROVE  flight'[k] \in Readers /\ pc'[flight'[k]] \in Fetching /\ key[flight'[k]] = k
      <3>1. CASE k = key[r]
        BY <1>1, <1>2, <2>1, <3>1 DEF Fetching
      <3>2. CASE k # key[r]
        BY <1>1, <1>2, <1>3, <2>1, <2>3, <3>2 DEF FlightOK
      <3> QED
        BY <3>1, <3>2
    <2>4. ASSUME NEW q \in Readers, pc'[q] = "wait" PROVE flight'[key[q]] # None
      BY <1>1, <1>2, <2>1, <2>4 DEF FlightOK, CacheInv, FetchOK
    <2> QED
      BY <1>1, <1>2, <2>1, <2>2, <2>3, <2>4 DEF FlightOK
  <1>5. CASE flight[key[r]] # None
    <2>1. pc' = [pc EXCEPT ![r] = "wait"] /\ UNCHANGED flight
      BY <1>5 DEF EnterFlight
    <2> QED
      BY <1>1, <1>2, <1>3, <1>5, <2>1 DEF FlightOK, Fetching
  <1> QED
    BY <1>4, <1>5

LEMMA FlightPassStep ==
    ASSUME CacheInv, FlightOK, PassStep
    PROVE  FlightOK'
  <1>1. CASE PassFetch
    <2>1. PICK e \in queue : key' = [key EXCEPT ![Pass] = e[1]]
      BY <1>1 DEF PassFetch
    <2>2. pc' = [pc EXCEPT ![Pass] = "get"] /\ UNCHANGED flight
      BY <1>1 DEF PassFetch
    <2>3. pc \in [Workers -> {"idle", "read", "wait", "get", "canon", "put"}]
          /\ Pass \in Workers /\ Pass \notin Readers /\ key \in [Workers -> Keys \cup {None}]
          /\ Readers \subseteq Workers
      BY CacheAssumption DEF CacheInv, FetchTypeOK, Workers
    <2>4. \A r \in Readers : pc'[r] = pc[r] /\ key'[r] = key[r]
      BY <2>1, <2>2, <2>3
    <2>5. pc'[Pass] = "get"
      BY <2>2, <2>3
    <2> QED
      BY <2>2, <2>4, <2>5 DEF FlightOK
  <1>2. CASE UNCHANGED fetchVars
    BY <1>2 DEF FlightOK, fetchVars
  <1> QED
    BY <1>1, <1>2 DEF PassStep, PassBegins, PassPull, PassPullFails, PassStore, PassStored, PassScan,
                      PassEnds

LEMMA FlightNext == CacheInv /\ FlightOK /\ [Next]_vars => FlightOK'
  <1> SUFFICES ASSUME CacheInv, FlightOK, [Next]_vars PROVE FlightOK'
    OBVIOUS
  <1>1. CASE UNCHANGED fetchVars
    BY <1>1 DEF FlightOK, fetchVars
  <1>2. ASSUME NEW l \in Listers, ListRead(l) \/ ListStep(l) PROVE UNCHANGED fetchVars
    BY <1>2 DEF ListRead, ListStep, ListAnswer, ListFails, ListStore, ListPut, ListTag
  <1>3. ASSUME HookStep \/ \E k \in Keys : HookScan(k) \/ Change(k) PROVE UNCHANGED fetchVars
    BY <1>3 DEF HookStep, HookDropList, HookUntag, HookDropNode, HookScan, Change
  <1>4. CASE UNCHANGED vars
    BY <1>1, <1>4 DEF vars
  <1>5. CASE Next
    BY <1>1, <1>2, <1>3, <1>5, FlightFetchStep, FlightResolve, FlightEnter, FlightPassStep DEF Next
  <1> QED
    BY <1>4, <1>5

\* singleflight: the readers of a key share one fetch, and no reader waits
\* for a flight that is over.
THEOREM OneFetchHolds == Spec => []OneFetchPerKey
  <1>1. Init => FlightOK
    BY FlightInit
  <1>2. CacheInv /\ FlightOK /\ [Next]_vars => FlightOK'
    BY FlightNext
  <1>3. FlightOK => OneFetchPerKey
    BY DEF FlightOK, OneFetchPerKey, Fetching
  <1> QED
    BY <1>1, <1>2, <1>3, CacheConsistent, PTL DEF Spec
=============================================================================
