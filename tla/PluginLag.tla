----------------------------- MODULE PluginLag -----------------------------
(***************************************************************************)
(* The pluginLag subscription: server.go's lagStream goroutine reads the   *)
(* health aggregator of module Hub whenever an envelope arrives on its bus *)
(* channel or its one second ticker fires, and pushes every plugin whose   *)
(* lag exceeds the subscriber's threshold. Peers use it as the liveness    *)
(* signal of a remote box.                                                 *)
(***************************************************************************)
EXTENDS Hub

CONSTANT WatchThreshold     \* the thresholdSeconds argument, in clock ticks

ASSUME WatchAssumption == WatchThreshold \in Nat

VARIABLES
    pend,       \* pend[w]: plugins of the snapshot w has still to push
    ended,      \* watchers whose lagStream goroutine has returned
    shown       \* shown[w]: plugins pushed to w's client since their last
                \* recorded event (history)

watchVars == <<pend, ended, shown>>
lagVars   == <<vars, watchVars>>

LagInit ==
    /\ Init
    /\ pend = [w \in Watchers |-> {}]
    /\ ended = {}
    /\ shown = [w \in Watchers |-> {}]

Streaming(w) == Alive /\ sub[w] # "new" /\ w \notin ended

\* The plugins a snapshot taken now makes the stream push.
Lagging == {p \in Plugins : phase[p] # "unbuilt" /\ LagSeconds(p) > WatchThreshold}

\* push on a bus event: the envelope itself is discarded.
PushOnEvent(w) ==
    /\ Streaming(w) /\ pend[w] = {} /\ chan[w] # <<>>
    /\ chan' = [chan EXCEPT ![w] = Tail(@)]
    /\ pend' = [pend EXCEPT ![w] = Lagging]
    /\ UNCHANGED <<procVars, clock, healthVars, storeVars, emitVars, sub,
                   tailVars, ended, shown>>

NeverPolls(w) == FALSE

\* push on the ticker: staleness that only time brings still fires.
PushOnTick(w) ==
    /\ Streaming(w) /\ pend[w] = {}
    /\ pend' = [pend EXCEPT ![w] = Lagging]
    /\ UNCHANGED <<vars, ended, shown>>

\* The client takes the next status; the goroutine is blocked until it does.
TakeStatus(w) ==
    \E p \in pend[w] :
        /\ Streaming(w)
        /\ \A q \in pend[w] : p <= q
        /\ pend' = [pend EXCEPT ![w] = @ \ {p}]
        /\ shown' = [shown EXCEPT ![w] = @ \cup {p}]
        /\ UNCHANGED <<vars, ended>>

\* ctx.Done, in the loop or while blocked on the client.
StreamEnds(w) ==
    /\ Streaming(w) /\ sub[w] \in {"cancelled", "closed"}
    /\ ended' = ended \cup {w}
    /\ pend' = [pend EXCEPT ![w] = {}]
    /\ UNCHANGED <<vars, shown>>

\* A step of the hub: a fresh process has no streams, and a plugin that
\* records an event starts a new lag.
HubStep ==
    /\ Next
    /\ IF boots' = boots
       THEN UNCHANGED <<pend, ended>>
       ELSE /\ pend' = [w \in Watchers |-> {}]
            /\ ended' = {w \in Watchers : sub[w] # "new"}
    /\ shown' = [w \in Watchers |-> {p \in shown[w] : last'[p] = last[p]}]

LagNext ==
    \/ HubStep
    \/ \E w \in Watchers : PushOnEvent(w)
    \/ \E w \in Watchers : PushOnTick(w)
    \/ \E w \in Watchers : TakeStatus(w)
    \/ \E w \in Watchers : StreamEnds(w)

\* The ticker fires and the goroutine runs; the client owes nothing.
LagFairness == \A w \in Watchers : WF_lagVars(PushOnTick(w) \/ PushOnEvent(w))

LagSpec == LagInit /\ [][LagNext]_lagVars /\ Fairness /\ LagFairness

----------------------------------------------------------------------------

\* lagStream: a plugin that falls silent is pushed to every client that stays
\* subscribed and keeps reading, though no event is emitted any more and
\* though the client's bus channel may be full and dropping.
SilenceIsPushed ==
    \A w \in Watchers, p \in Plugins :
        WF_lagVars(TakeStatus(w)) =>
            (<>[](Alive /\ sub[w] = "live" /\ p \in Lagging) => <>[](p \in shown[w]))
=============================================================================
