---------------------------- MODULE PeerMirror ----------------------------
(***************************************************************************)
(* The peer plugin, for one configured remote box: the liveness goroutine  *)
(* that keeps a pluginLag subscription open (runLiveness, subscribeLag),   *)
(* the peer_state row, and the pull-through executor whose refreshes proxy *)
(* an operation to the box and mirror the rows it answers with (handleOp,  *)
(* mirror). Both write the same peer_state row without coordination.       *)
(*                                                                         *)
(* A mirrored row is its key; a key is abstracted to the box that owns it. *)
(***************************************************************************)
EXTENDS Integers, FiniteSets

CONSTANTS
    Keys,           \* keys the remote's executor may answer with
    HostOf,         \* HostOf[k]: the @host of the key
    Remote, Local,  \* the remote's host id and ours
    Callers,        \* concurrent POST /plugins/peer/op requests
    None,
    TTL,            \* mirrorTTL in clock ticks, 0 for off
    MaxClock,       \* bound: ticks of the clock
    MaxFlips,       \* bound: restarts, token changes and lost connections
    MaxErrors       \* bound: failed SQL statements

ASSUME PeerAssumption ==
    /\ Remote \in {HostOf[k] : k \in Keys}
    /\ TTL \in Nat
    /\ MaxClock \in Nat /\ MaxFlips \in Nat /\ MaxErrors \in Nat
    /\ None \notin Nat

VARIABLES
    up,         \* the remote box answers
    auth,       \* it accepts our bearer token
    link,       \* runLiveness: "dial", "live", "drop", "sleep"
    denied,     \* the failure being handled is a 401
    everUp,
    stale,      \* peer_state.stale_since is set; nothing reads its times back
    row,        \* row[k]: last_seen_at of the mirrored row of k, or None
    pc,         \* pc[c]: "idle", "sent", "denied", "store", "purge"
    at,         \* at[c]: the time c read when the answer was there
    todo,       \* todo[c]: rows of the answer c has still to upsert
    kept,       \* kept[c]: rows c has upserted
    reply,      \* reply[c]: the rows c was answered with last (history)
    clock, flips, errs,
    drops,      \* live subscriptions lost in this process (history)
    told        \* peer.stale events emitted in this process (history)

boxVars  == <<up, auth>>
linkVars == <<link, denied, everUp>>
callVars == <<pc, at, todo, kept, reply>>
vars == <<boxVars, linkVars, stale, row, callVars, clock, flips, errs, drops, told>>

Init ==
    /\ up \in BOOLEAN /\ auth \in BOOLEAN
    /\ link = "dial" /\ denied = FALSE /\ everUp = FALSE
    /\ stale = FALSE
    /\ row = [k \in Keys |-> None]
    /\ pc = [c \in Callers |-> "idle"]
    /\ at = [c \in Callers |-> 0]
    /\ todo = [c \in Callers |-> {}]
    /\ kept = [c \in Callers |-> {}]
    /\ reply = [c \in Callers |-> {}]
    /\ clock = 0 /\ flips = 0 /\ errs = 0 /\ drops = 0 /\ told = 0

----------------------------------------------------------------------------
(* The remote box (external) and time. *)

Flip == flips < MaxFlips /\ flips' = flips + 1

BoxFlips ==
    /\ Flip
    /\ \/ up' = ~up /\ UNCHANGED auth
       \/ auth' = ~auth /\ UNCHANGED up
    /\ UNCHANGED <<linkVars, stale, row, callVars, clock, errs, drops, told>>

Tick ==
    /\ clock < MaxClock
    /\ clock' = clock + 1
    /\ UNCHANGED <<boxVars, linkVars, stale, row, callVars, flips, errs, drops, told>>

----------------------------------------------------------------------------
(* peer_state. *)

Fail == errs < MaxErrors /\ errs' = errs + 1

\* Every caller ignores the error of these updates.
MarkSeen ==
    \/ stale' = FALSE /\ UNCHANGED errs
    \/ Fail /\ UNCHANGED stale

MarkStale ==
    \/ stale' = TRUE /\ UNCHANGED errs
    \/ Fail /\ UNCHANGED stale

----------------------------------------------------------------------------
(* runLiveness. *)

\* The handshake is acknowledged and the subscription sent: onConnect. The
\* bearer token is checked here and never again on this socket.
Connect ==
    /\ link = "dial" /\ up /\ auth
    /\ link' = "live"
    /\ everUp' = TRUE
    /\ MarkSeen
    /\ UNCHANGED <<boxVars, denied, row, callVars, clock, flips, drops, told>>

\* No handshake: the box is down, the network lost us, or it answered 401.
DialFails ==
    /\ link = "dial"
    /\ IF up /\ auth THEN Flip ELSE UNCHANGED flips
    /\ link' = "drop"
    /\ denied' = (up /\ ~auth)
    /\ UNCHANGED <<boxVars, everUp, stale, row, callVars, clock, errs, drops, told>>

\* The remote pushes a lagging plugin; a healthy one pushes nothing.
LagFrame ==
    /\ link = "live" /\ up
    /\ MarkSeen
    /\ UNCHANGED <<boxVars, linkVars, row, callVars, clock, flips, drops, told>>

\* The read returns an error: the box stopped, or the network lost us.
Dropped ==
    /\ link = "live"
    /\ IF up THEN Flip ELSE UNCHANGED flips
    /\ link' = "drop"
    /\ denied' = FALSE
    /\ drops' = drops + 1
    /\ UNCHANGED <<boxVars, everUp, stale, row, callVars, clock, errs, told>>

SaysStaleUnseen == ~stale

\* An event is emitted for the transition of a peer that was up before.
SaysStale == ~stale /\ everUp

\* Marked stale, announced if that is news, then the backoff delay.
HandleDrop ==
    /\ link = "drop"
    /\ MarkStale
    /\ told' = IF SaysStale /\ stale' THEN told + 1 ELSE told
    /\ everUp' = (everUp /\ ~denied)
    /\ link' = "sleep"
    /\ UNCHANGED <<boxVars, denied, row, callVars, clock, flips, drops>>

GivesUp == FALSE

\* The backoff delay, of any length, is over.
Redial ==
    /\ link = "sleep"
    /\ link' = "dial"
    /\ UNCHANGED <<boxVars, denied, everUp, stale, row, callVars, clock, flips, errs, drops, told>>

----------------------------------------------------------------------------
(* handleOp and mirror. *)

Cached == {k \in Keys : row[k] # None}

Return(c, r) ==
    /\ pc' = [pc EXCEPT ![c] = "idle"]
    /\ at' = [at EXCEPT ![c] = 0]
    /\ todo' = [todo EXCEPT ![c] = {}]
    /\ kept' = [kept EXCEPT ![c] = {}]
    /\ reply' = [reply EXCEPT ![c] = r]

\* refresh=false: the mirrored rows, no upstream call.
WarmRead(c) ==
    /\ pc[c] = "idle"
    /\ Return(c, Cached)
    /\ UNCHANGED <<boxVars, linkVars, stale, row, clock, flips, errs, drops, told>>

\* refresh=true: the operation is POSTed to the source plugin of the box.
Refresh(c) ==
    /\ pc[c] = "idle"
    /\ pc' = [pc EXCEPT ![c] = "sent"]
    /\ UNCHANGED <<boxVars, linkVars, stale, row, at, todo, kept, reply, clock, flips, errs, drops, told>>

KeepForeign(ks) == {k \in ks : HostOf[k] # Local}

\* Loop guard 2: first-hop rows only, and no echo of our own.
FirstHop(ks) == {k \in ks : HostOf[k] = Remote /\ HostOf[k] # Local}

Answered(c) ==
    /\ pc[c] = "sent" /\ up /\ auth
    /\ pc' = [pc EXCEPT ![c] = "store"]
    /\ at' = [at EXCEPT ![c] = clock]
    /\ \E ks \in SUBSET Keys : todo' = [todo EXCEPT ![c] = FirstHop(ks)]
    /\ UNCHANGED <<boxVars, linkVars, stale, row, kept, reply, clock, flips, errs, drops, told>>

\* 401: the peer is marked stale before the request is answered.
Denied(c) ==
    /\ pc[c] = "sent" /\ up /\ ~auth
    /\ pc' = [pc EXCEPT ![c] = "denied"]
    /\ UNCHANGED <<boxVars, linkVars, stale, row, at, todo, kept, reply, clock, flips, errs, drops, told>>

\* A failed refresh: the error is discarded and no rows are returned.
ReplyDenied(c) ==
    /\ pc[c] = "denied"
    /\ MarkStale
    /\ Return(c, {})
    /\ UNCHANGED <<boxVars, linkVars, row, clock, flips, drops, told>>

\* Connection error, timeout, or any other status; or an upsert failed.
RefreshFails(c) ==
    /\ \/ pc[c] = "sent" /\ ~up /\ UNCHANGED <<flips, errs>>
       \/ pc[c] = "sent" /\ up /\ Flip /\ UNCHANGED errs
       \/ pc[c] = "store" /\ todo[c] # {} /\ Fail /\ UNCHANGED flips
    /\ Return(c, {})
    /\ UNCHANGED <<boxVars, linkVars, stale, row, clock, drops, told>>

Upsert(c, k) ==
    /\ pc[c] = "store" /\ k \in todo[c]
    /\ row' = [row EXCEPT ![k] = at[c]]
    /\ todo' = [todo EXCEPT ![c] = @ \ {k}]
    /\ kept' = [kept EXCEPT ![c] = @ \cup {k}]
    /\ UNCHANGED <<boxVars, linkVars, stale, pc, at, reply, clock, flips, errs, drops, told>>

\* The rows purgeStale leaves: those seen within the TTL.
AfterPurge(t) ==
    [k \in Keys |-> IF TTL > 0 /\ row[k] # None /\ row[k] < t - TTL THEN None ELSE row[k]]

\* All rows stored: a liveness signal.
Seen(c) ==
    /\ pc[c] = "store" /\ todo[c] = {}
    /\ MarkSeen
    /\ pc' = [pc EXCEPT ![c] = "purge"]
    /\ UNCHANGED <<boxVars, linkVars, row, at, todo, kept, reply, clock, flips, drops, told>>

\* The TTL purge, whose error is ignored; the kept rows are the reply.
Mirrored(c) ==
    /\ pc[c] = "purge"
    /\ \/ row' = AfterPurge(at[c]) /\ UNCHANGED errs
       \/ TTL > 0 /\ Fail /\ UNCHANGED row
    /\ Return(c, kept[c])
    /\ UNCHANGED <<boxVars, linkVars, stale, clock, flips, drops, told>>

\* A new process: both tables survive, the loop's locals do not.
Restart ==
    /\ Flip
    /\ link' = "dial" /\ denied' = FALSE /\ everUp' = FALSE
    /\ pc' = [c \in Callers |-> "idle"]
    /\ at' = [c \in Callers |-> 0]
    /\ todo' = [c \in Callers |-> {}]
    /\ kept' = [c \in Callers |-> {}]
    /\ drops' = 0 /\ told' = 0
    /\ UNCHANGED <<boxVars, stale, row, reply, clock, errs>>

----------------------------------------------------------------------------

LinkStep == Connect \/ DialFails \/ HandleDrop \/ Redial

CallStep(c) ==
    \/ Answered(c)
    \/ Denied(c)
    \/ ReplyDenied(c)
    \/ RefreshFails(c)
    \/ \E k \in Keys : Upsert(c, k)
    \/ Seen(c)
    \/ Mirrored(c)

Next ==
    \/ BoxFlips
    \/ Tick
    \/ LinkStep
    \/ LagFrame
    \/ Dropped
    \/ \E c \in Callers : WarmRead(c)
    \/ \E c \in Callers : Refresh(c)
    \/ \E c \in Callers : CallStep(c)
    \/ Restart

Spec == Init /\ [][Next]_vars

\* The liveness loop runs on; a stopped box breaks the read; a request ends
\* (the client's timeout). Nothing obliges a caller to ask or the remote to
\* push.
Fairness ==
    /\ WF_vars(LinkStep)
    /\ WF_vars(~up /\ Dropped)
    /\ \A c \in Callers : WF_vars(CallStep(c))

FairSpec == Spec /\ Fairness

----------------------------------------------------------------------------
(* Properties. *)

\* mirror's loop guards (PRD F8, "no peer-of-peer rows"): whatever the remote
\* answers with, no row of a third box or of our own is ever stored or
\* served, refreshed or warm.
NoPeerOfPeer ==
    /\ \A k \in Keys : row[k] # None => HostOf[k] = Remote
    /\ \A c \in Callers : \A k \in reply[c] : HostOf[k] = Remote

\* F8: a box that stays down ends up stale for good, although answers it gave
\* before it went may still be stored and clear the mark afterwards.
DownReadsStale == <>[](~up) => <>[]stale

\* peer.stale (AC-PEER-HEALTH): a process that never had a live subscription
\* emits none, however often the peer's mark is set and cleared.
NeverUpIsSilent == ~everUp /\ drops = 0 /\ link # "live" => told = 0
=============================================================================
