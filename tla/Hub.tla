------------------------------- MODULE Hub -------------------------------
(***************************************************************************)
(* The core of supergraph: the supervisor that boots every plugin, the     *)
(* emit path it hands each of them (append to the plugin's event ring,     *)
(* stamp health, fan out on the bus), the health aggregator, the bus with  *)
(* its bounded per-subscriber channels, the EventsChannel pumps that feed  *)
(* GraphQL subscriptions, and the shutdown sequence of `serve`.            *)
(*                                                                         *)
(* The three parts of an emit are three steps: nothing in emitFor makes    *)
(* them atomic, so emits of different goroutines interleave between them.  *)
(***************************************************************************)
EXTENDS Integers, Sequences

CONSTANTS
    NumPlugins,     \* registered plugins, numbered in SortedFactoryNames order
    Tails,          \* EventsChannel subscriptions, one bus id each
    Watchers,       \* pluginLag subscriptions, one bus id each
    SourceOf,       \* SourceOf[s]: the source a tail filters on, 0 for all
    RingCapacity,   \* rows kept in a plugin's event ring
    SubBuffer,      \* depth of a subscriber's channel
    Threshold,      \* the lag threshold, in clock ticks
    NoTime,         \* lastEventAt before the first event
    NoEvent,        \* an EventsChannel pump holding nothing
    MaxEvents,      \* bound: events created over all boots
    MaxClock,       \* bound: ticks of the clock
    MaxBoots        \* bound: process starts

Plugins  == 1 .. NumPlugins
Subs     == Tails \cup Watchers

\* A plugin emits from its Start goroutine and from the goroutines it owns
\* beside it: HTTP handlers and the loops Start spawned.
Emitters == Plugins \X {"start", "other"}

Event == [src : Plugins, via : {"start", "other"},
          id : 1 .. MaxEvents, ts : 0 .. MaxClock]

ASSUME HubAssumption ==
    /\ NumPlugins \in Nat
    /\ SourceOf \in [Tails -> 0 .. NumPlugins]
    /\ RingCapacity \in Nat \ {0}
    /\ SubBuffer \in Nat
    /\ Threshold \in Nat
    /\ MaxEvents \in Nat /\ MaxClock \in Nat /\ MaxBoots \in Nat
    /\ NoTime \notin Nat
    /\ NoEvent \notin Event

VARIABLES
    phase,      \* phase[p]: where p is in startAll / runPlugin
    booting,    \* the plugin startAll handles next
    run,        \* Supervisor.Run: "booting", "stopped", "done"
    serve,      \* runServe: "up", "draining", "joining", "exited"
    joined,     \* waitSupervisor saw the supervisor exit (not its deadline)
    boots,      \* process starts so far
    clock,      \* wall clock
    forced,     \* forced[p]: pluginHealth.forcedStale
    last,       \* last[p]: pluginHealth.lastEventAt
    open,       \* plugins whose Store is open
    ring,       \* ring[p]: the rows of p's events table, oldest first
    log,        \* log[p]: every event ever committed to p's ring (history)
    pc,         \* pc[t]: where emitter t is in the emit closure
    ev,         \* ev[t]: the envelope emitter t is emitting
    created,    \* envelopes built so far: the next one's identity
    sub,        \* sub[s]: "new", "live", "cancelled", "closed"
    chan,       \* chan[s]: the buffered channel of subscription s
    pump,       \* pump[s]: the EventsChannel goroutine is running
    hold,       \* hold[s]: the envelope it is offering to the client
    received    \* received[s]: what the client of s has taken (history)

procVars  == <<phase, booting, run, serve, joined, boots>>
healthVars == <<forced, last>>
storeVars == <<open, ring, log>>
emitVars  == <<pc, ev, created>>
busVars   == <<sub, chan>>
tailVars  == <<pump, hold, received>>
vars == <<procVars, clock, healthVars, storeVars, emitVars, busVars, tailVars>>

Alive == serve # "exited"
CtxDone == serve # "up"         \* the signal context is cancelled

\* The states of a plugin that is in Supervisor.plugins.
Launched == {"running", "crashing", "dead", "returned"}

----------------------------------------------------------------------------
(* Initial state, and what every fresh process starts from. *)

Init ==
    /\ phase = [p \in Plugins |-> "unbuilt"]
    /\ booting = 1
    /\ run = "booting"
    /\ serve = "up"
    /\ joined = FALSE
    /\ boots = 1
    /\ clock = 0
    /\ forced = [p \in Plugins |-> FALSE]
    /\ last = [p \in Plugins |-> NoTime]
    /\ open = {}
    /\ ring = [p \in Plugins |-> <<>>]
    /\ log = [p \in Plugins |-> <<>>]
    /\ pc = [t \in Emitters |-> "idle"]
    /\ ev = [t \in Emitters |-> NoEvent]
    /\ created = 0
    /\ sub = [s \in Subs |-> "new"]
    /\ chan = [s \in Subs |-> <<>>]
    /\ pump = [s \in Tails |-> FALSE]
    /\ hold = [s \in Tails |-> NoEvent]
    /\ received = [s \in Tails |-> <<>>]

\* The process is killed: no handler runs, nothing is flushed.
Crash ==
    /\ Alive
    /\ serve' = "exited"
    /\ joined' = FALSE
    /\ UNCHANGED <<phase, booting, run, boots, clock, healthVars, storeVars,
                   emitVars, busVars, tailVars>>

\* A new process: health, bus, goroutines and open handles are gone, the
\* SQLite files and the clock are not. A client of the old process must
\* subscribe again, under a bus id of its own.
Reboot ==
    /\ ~Alive
    /\ boots < MaxBoots
    /\ boots' = boots + 1
    /\ phase' = [p \in Plugins |-> "unbuilt"]
    /\ booting' = 1
    /\ run' = "booting"
    /\ serve' = "up"
    /\ joined' = FALSE
    /\ forced' = [p \in Plugins |-> FALSE]
    /\ last' = [p \in Plugins |-> NoTime]
    /\ open' = {}
    /\ pc' = [t \in Emitters |-> "idle"]
    /\ ev' = [t \in Emitters |-> NoEvent]
    /\ sub' = [s \in Subs |-> IF sub[s] = "new" THEN "new" ELSE "closed"]
    /\ chan' = [s \in Subs |-> <<>>]
    /\ pump' = [s \in Tails |-> FALSE]
    /\ hold' = [s \in Tails |-> NoEvent]
    /\ UNCHANGED <<clock, ring, log, created, received>>

Tick ==
    /\ clock < MaxClock
    /\ clock' = clock + 1
    /\ UNCHANGED <<procVars, healthVars, storeVars, emitVars, busVars, tailVars>>

----------------------------------------------------------------------------
(* Health aggregator: state is derived, never stored. *)

\* pluginHealth of p as Snapshot classifies it at the current clock.
HealthState(p) ==
    CASE forced[p] -> "stale"
      [] ~forced[p] /\ last[p] = NoTime -> "starting"
      [] ~forced[p] /\ last[p] # NoTime ->
            IF clock - last[p] > Threshold THEN "stale" ELSE "ok"

\* The lagSeconds Snapshot reports: only the last case computes it.
LagSeconds(p) ==
    IF forced[p] \/ last[p] = NoTime THEN 0 ELSE clock - last[p]

RecordRevives(p, at) ==
    last' = [last EXCEPT ![p] = at] /\ forced' = [forced EXCEPT ![p] = FALSE]

Record(p, at) == last' = [last EXCEPT ![p] = at] /\ UNCHANGED forced

MarkStale(p) == forced' = [forced EXCEPT ![p] = TRUE] /\ UNCHANGED last

MarkStarting(p) == forced' = [forced EXCEPT ![p] = FALSE] /\ UNCHANGED last

----------------------------------------------------------------------------
(* Supervisor: startAll, one plugin at a time, and runPlugin. *)

BeginPlugin(p) ==
    /\ Alive /\ booting = p /\ phase[p] = "unbuilt"
    /\ phase' = [phase EXCEPT ![p] = "starting"]
    /\ MarkStarting(p)
    /\ UNCHANGED <<booting, run, serve, joined, boots, clock, storeVars,
                   emitVars, busVars, tailVars>>

\* The factory, OpenStore or Migrate failed: stale, no store kept, and the
\* loop goes on with the next plugin.
FailPlugin(p) ==
    /\ Alive /\ booting = p /\ phase[p] = "starting"
    /\ phase' = [phase EXCEPT ![p] = "failed"]
    /\ booting' = booting + 1
    /\ MarkStale(p)
    /\ UNCHANGED <<run, serve, joined, boots, clock, storeVars, emitVars,
                   busVars, tailVars>>

\* Migrate returned: the store and the plugin are published and the Start
\* goroutine is spawned.
LaunchPlugin(p) ==
    /\ Alive /\ booting = p /\ phase[p] = "starting"
    /\ phase' = [phase EXCEPT ![p] = "running"]
    /\ booting' = booting + 1
    /\ open' = open \cup {p}
    /\ UNCHANGED <<run, serve, joined, boots, clock, healthVars, ring, log,
                   emitVars, busVars, tailVars>>

\* Start panicked or returned an error; stopDead has not run yet.
StartDies(p) ==
    /\ Alive /\ phase[p] = "running" /\ pc[<<p, "start">>] = "idle"
    /\ phase' = [phase EXCEPT ![p] = "crashing"]
    /\ UNCHANGED <<booting, run, serve, joined, boots, clock, healthVars,
                   storeVars, emitVars, busVars, tailVars>>

StopDead(p) ==
    /\ Alive /\ phase[p] = "crashing"
    /\ phase' = [phase EXCEPT ![p] = "dead"]
    /\ MarkStale(p)
    /\ UNCHANGED <<booting, run, serve, joined, boots, clock, storeVars,
                   emitVars, busVars, tailVars>>

\* Start returned nil: a dormant plugin, or one that saw ctx cancelled.
StartReturns(p) ==
    /\ Alive /\ phase[p] = "running" /\ pc[<<p, "start">>] = "idle"
    /\ phase' = [phase EXCEPT ![p] = "returned"]
    /\ UNCHANGED <<booting, run, serve, joined, boots, clock, healthVars,
                   storeVars, emitVars, busVars, tailVars>>

----------------------------------------------------------------------------
(* The emit closure: AppendEvent, Record, publish. *)

\* The plugin builds an envelope (stamping it with the time it read) and
\* calls emit. The Start goroutine does so while it runs; handlers and
\* spawned loops for as long as the plugin is mounted.
BeginEmit(t) ==
    /\ Alive
    /\ pc[t] = "idle"
    /\ created < MaxEvents
    /\ IF t[2] = "start" THEN phase[t[1]] = "running" ELSE phase[t[1]] \in Launched
    /\ created' = created + 1
    /\ ev' = [ev EXCEPT ![t] = [src |-> t[1], via |-> t[2],
                                id |-> created + 1, ts |-> clock]]
    /\ pc' = [pc EXCEPT ![t] = "append"]
    /\ UNCHANGED <<procVars, clock, healthVars, storeVars, busVars, tailVars>>

\* The newest n elements of a sequence.
Newest(s, n) == IF Len(s) <= n THEN s ELSE SubSeq(s, Len(s) - n + 1, Len(s))

AppendPrunesFirst(t) ==
    LET p == t[1] IN
    /\ Alive /\ pc[t] = "append"
    /\ p \in open
    /\ t[2] = "start" => ~CtxDone
    /\ log' = [log EXCEPT ![p] = Append(@, ev[t])]
    /\ ring' = [ring EXCEPT ![p] = Append(Newest(@, RingCapacity), ev[t])]
    /\ pc' = [pc EXCEPT ![t] = "record"]
    /\ UNCHANGED <<procVars, clock, healthVars, open, ev, created, busVars, tailVars>>

\* Insert and prune commit as one transaction.
AppendEvent(t) ==
    LET p == t[1] IN
    /\ Alive /\ pc[t] = "append"
    /\ p \in open
    /\ t[2] = "start" => ~CtxDone       \* a cancelled ctx fails BeginTx
    /\ log' = [log EXCEPT ![p] = Append(@, ev[t])]
    /\ ring' = [ring EXCEPT ![p] = Newest(Append(@, ev[t]), RingCapacity)]
    /\ pc' = [pc EXCEPT ![t] = "record"]
    /\ UNCHANGED <<procVars, clock, healthVars, open, ev, created, busVars, tailVars>>

AppendErrorIgnored(t) ==
    /\ Alive /\ pc[t] = "append"
    /\ pc' = [pc EXCEPT ![t] = "record"]
    /\ UNCHANGED <<procVars, clock, healthVars, storeVars, ev, created, busVars, tailVars>>

\* AppendEvent failed (store closed, ctx cancelled, disk or lock error): the
\* transaction is rolled back and emit returns the error.
AppendError(t) ==
    /\ Alive /\ pc[t] = "append"
    /\ pc' = [pc EXCEPT ![t] = "idle"]
    /\ ev' = [ev EXCEPT ![t] = NoEvent]
    /\ UNCHANGED <<procVars, clock, healthVars, storeVars, created, busVars, tailVars>>

RecordHealth(t) ==
    /\ Alive /\ pc[t] = "record"
    /\ Record(t[1], ev[t].ts)
    /\ pc' = [pc EXCEPT ![t] = "publish"]
    /\ UNCHANGED <<procVars, clock, storeVars, ev, created, busVars, tailVars>>

\* Subscriptions on the bus: cancelled ones stay until their goroutine has
\* removed them.
OnBus == {s \in Subs : sub[s] \in {"live", "cancelled"}}

OfferGrows(s, e) == IF s \in OnBus THEN Append(chan[s], e) ELSE chan[s]

\* The channel of s after a non-blocking send: a full one is left as it is.
Offer(s, e) ==
    IF s \in OnBus /\ Len(chan[s]) < SubBuffer THEN Append(chan[s], e) ELSE chan[s]

PublishBlocks(t) ==
    /\ Alive /\ pc[t] = "publish"
    /\ \A s \in OnBus : Len(chan[s]) < SubBuffer
    /\ chan' = [s \in Subs |-> Offer(s, ev[t])]
    /\ pc' = [pc EXCEPT ![t] = "idle"]
    /\ ev' = [ev EXCEPT ![t] = NoEvent]
    /\ UNCHANGED <<procVars, clock, healthVars, storeVars, created, sub, tailVars>>

Publish(t) ==
    /\ Alive /\ pc[t] = "publish"
    /\ chan' = [s \in Subs |-> Offer(s, ev[t])]
    /\ pc' = [pc EXCEPT ![t] = "idle"]
    /\ ev' = [ev EXCEPT ![t] = NoEvent]
    /\ UNCHANGED <<procVars, clock, healthVars, storeVars, created, sub, tailVars>>

----------------------------------------------------------------------------
(* Bus subscriptions and the EventsChannel pump. *)

Subscribe(s) ==
    /\ Alive /\ sub[s] = "new"
    /\ sub' = [sub EXCEPT ![s] = "live"]
    /\ pump' = [x \in Tails |-> pump[x] \/ x = s]
    /\ UNCHANGED <<procVars, clock, healthVars, storeVars, emitVars, chan,
                   hold, received>>

\* The client goes away: its context is cancelled.
Cancel(s) ==
    /\ Alive /\ sub[s] = "live"
    /\ sub' = [sub EXCEPT ![s] = "cancelled"]
    /\ UNCHANGED <<procVars, clock, healthVars, storeVars, emitVars, chan, tailVars>>

\* The subscription's goroutine saw ctx.Done: off the bus, channel closed
\* (what it buffers can still be read).
Unsubscribe(s) ==
    /\ Alive /\ sub[s] = "cancelled"
    /\ sub' = [sub EXCEPT ![s] = "closed"]
    /\ UNCHANGED <<procVars, clock, healthVars, storeVars, emitVars, chan, tailVars>>

PullUnfiltered(s) ==
    /\ Alive /\ pump[s] /\ hold[s] = NoEvent /\ chan[s] # <<>>
    /\ chan' = [chan EXCEPT ![s] = Tail(@)]
    /\ hold' = [hold EXCEPT ![s] = Head(chan[s])]
    /\ UNCHANGED <<procVars, clock, healthVars, storeVars, emitVars, sub, pump, received>>

\* The pump takes an envelope off the bus channel and keeps it if it matches.
Pull(s) ==
    LET e == Head(chan[s]) IN
    /\ Alive /\ pump[s] /\ hold[s] = NoEvent /\ chan[s] # <<>>
    /\ chan' = [chan EXCEPT ![s] = Tail(@)]
    /\ hold' = [hold EXCEPT ![s] = IF SourceOf[s] \in {0, e.src} THEN e ELSE NoEvent]
    /\ UNCHANGED <<procVars, clock, healthVars, storeVars, emitVars, sub, pump, received>>

ReceiveKeeps(s) ==
    /\ Alive /\ pump[s] /\ hold[s] # NoEvent
    /\ received' = [received EXCEPT ![s] = Append(@, hold[s])]
    /\ UNCHANGED <<procVars, clock, healthVars, storeVars, emitVars, busVars, pump, hold>>

\* The client receives what the pump offers on the unbuffered channel.
Receive(s) ==
    /\ Alive /\ pump[s] /\ hold[s] # NoEvent
    /\ received' = [received EXCEPT ![s] = Append(@, hold[s])]
    /\ hold' = [hold EXCEPT ![s] = NoEvent]
    /\ UNCHANGED <<procVars, clock, healthVars, storeVars, emitVars, busVars, pump>>

\* ctx.Done, or the channel found closed and empty: the pump returns.
PumpExit(s) ==
    /\ Alive /\ pump[s] /\ sub[s] \in {"cancelled", "closed"}
    /\ pump' = [pump EXCEPT ![s] = FALSE]
    /\ hold' = [hold EXCEPT ![s] = NoEvent]
    /\ UNCHANGED <<procVars, clock, healthVars, storeVars, emitVars, busVars, received>>

----------------------------------------------------------------------------
(* Shutdown: runServe's two exits and Supervisor.Run after ctx.Done. *)

\* SIGTERM: the context is cancelled and srv.Shutdown starts to drain HTTP.
Signal ==
    /\ serve = "up"
    /\ serve' = "draining"
    /\ UNCHANGED <<phase, booting, run, joined, boots, clock, healthVars,
                   storeVars, emitVars, busVars, tailVars>>

\* ListenAndServe returned: stop() cancels the context, nothing to drain.
ListenFails ==
    /\ serve = "up"
    /\ serve' = "joining"
    /\ UNCHANGED <<phase, booting, run, joined, boots, clock, healthVars,
                   storeVars, emitVars, busVars, tailVars>>

\* srv.Shutdown returned: drained, or its five seconds are over.
HTTPShutdown ==
    /\ serve = "draining"
    /\ serve' = "joining"
    /\ UNCHANGED <<phase, booting, run, joined, boots, clock, healthVars,
                   storeVars, emitVars, busVars, tailVars>>

\* Run, startAll finished, sees ctx.Done: Stop closes every open store.
StopStores ==
    /\ Alive /\ CtxDone /\ run = "booting" /\ booting = NumPlugins + 1
    /\ run' = "stopped"
    /\ open' = {}
    /\ UNCHANGED <<phase, booting, serve, joined, boots, clock, healthVars,
                   ring, log, emitVars, busVars, tailVars>>

\* wg.Wait: every Start goroutine has returned.
JoinPlugins ==
    /\ Alive /\ run = "stopped"
    /\ \A p \in Plugins : phase[p] \notin {"running", "crashing"}
    /\ run' = "done"
    /\ UNCHANGED <<phase, booting, serve, joined, boots, clock, healthVars,
                   storeVars, emitVars, busVars, tailVars>>

\* waitSupervisor: the supervisor is done, or the deadline elapsed.
SupervisorExited ==
    /\ serve = "joining" /\ run = "done"
    /\ serve' = "exited"
    /\ joined' = TRUE
    /\ UNCHANGED <<phase, booting, run, boots, clock, healthVars, storeVars,
                   emitVars, busVars, tailVars>>

JoinForever == FALSE

JoinDeadline ==
    /\ serve = "joining"
    /\ serve' = "exited"
    /\ UNCHANGED <<phase, booting, run, joined, boots, clock, healthVars,
                   storeVars, emitVars, busVars, tailVars>>

----------------------------------------------------------------------------

PluginStep(p) ==
    \/ BeginPlugin(p)
    \/ FailPlugin(p)
    \/ LaunchPlugin(p)
    \/ StartDies(p)
    \/ StopDead(p)
    \/ StartReturns(p)

EmitStep(t) ==
    \/ AppendEvent(t)
    \/ AppendError(t)
    \/ RecordHealth(t)
    \/ Publish(t)

BusStep(s) ==
    \/ Subscribe(s)
    \/ Cancel(s)
    \/ Unsubscribe(s)

TailStep(s) ==
    \/ Pull(s)
    \/ Receive(s)
    \/ PumpExit(s)

ServeStep ==
    \/ Signal
    \/ ListenFails
    \/ HTTPShutdown
    \/ StopStores
    \/ JoinPlugins
    \/ SupervisorExited
    \/ JoinDeadline

Next ==
    \/ \E p \in Plugins : PluginStep(p)
    \/ \E t \in Emitters : BeginEmit(t) \/ EmitStep(t)
    \/ \E s \in Subs : BusStep(s)
    \/ \E s \in Tails : TailStep(s)
    \/ ServeStep
    \/ Tick
    \/ Crash
    \/ Reboot

Spec == Init /\ [][Next]_vars

\* What the Go scheduler and the deadlines give, and nothing a plugin or a
\* client decides: a started emit runs on; startAll runs on; the shutdown
\* timers fire. No fairness for Receive, StartReturns or the signal.
Fairness ==
    /\ \A t \in Emitters : WF_vars(EmitStep(t))
    /\ \A p \in Plugins : WF_vars(BeginPlugin(p) \/ FailPlugin(p) \/ LaunchPlugin(p))
    /\ \A p \in Plugins : WF_vars(StopDead(p))
    /\ WF_vars(HTTPShutdown \/ StopStores \/ JoinPlugins)
    /\ WF_vars(SupervisorExited \/ JoinDeadline)

----------------------------------------------------------------------------
(* Properties. *)

ProcTypeOK ==
    /\ phase \in [Plugins -> Launched \cup {"unbuilt", "starting", "failed"}]
    /\ booting \in 1 .. NumPlugins + 1
    /\ run \in {"booting", "stopped", "done"}
    /\ serve \in {"up", "draining", "joining", "exited"}
    /\ joined \in BOOLEAN
    /\ boots \in Nat

HealthTypeOK ==
    /\ forced \in [Plugins -> BOOLEAN]
    /\ last \in [Plugins -> (0 .. MaxClock) \cup {NoTime}]

StoreTypeOK ==
    /\ open \in SUBSET Plugins
    /\ ring \in [Plugins -> Seq(Event)]
    /\ log \in [Plugins -> Seq(Event)]

EmitTypeOK ==
    /\ pc \in [Emitters -> {"idle", "append", "record", "publish"}]
    /\ ev \in [Emitters -> Event \cup {NoEvent}]
    /\ \A t \in Emitters : pc[t] # "idle" => ev[t] \in Event
    /\ created \in 0 .. MaxEvents

BusTypeOK ==
    /\ sub \in [Subs -> {"new", "live", "cancelled", "closed"}]
    /\ chan \in [Subs -> Seq(Event)]
    /\ \A s \in Subs : Len(chan[s]) <= SubBuffer

TailTypeOK ==
    /\ pump \in [Tails -> BOOLEAN]
    /\ hold \in [Tails -> Event \cup {NoEvent}]
    /\ received \in [Tails -> Seq(Event)]

\* Every variable stays in its type, an emitting goroutine holds the envelope
\* it emits, and publish never lets a channel exceed its buffer.
TypeOK ==
    /\ ProcTypeOK
    /\ clock \in 0 .. MaxClock
    /\ HealthTypeOK
    /\ StoreTypeOK
    /\ EmitTypeOK
    /\ BusTypeOK
    /\ TailTypeOK

\* The events that were ever committed to a plugin's ring.
Durable == {e \in Event : \E p \in Plugins : \E i \in DOMAIN log[p] : log[p][i] = e}

\* AppendEvent: whatever was appended, by whichever goroutine, in whichever
\* boot, the events table holds exactly the newest RingCapacity of them in
\* commit order.
RingIsNewest == \A p \in Plugins : ring[p] = Newest(log[p], RingCapacity)

\* emitFor persists first: an event that a subscriber's channel, a pump or a
\* client holds was committed, and the time /health shows is that of a
\* committed event of that plugin. It holds across failed appends, closed
\* stores and shutdown.
NothingBeforeDurable ==
    /\ \A s \in Subs : \A i \in DOMAIN chan[s] : chan[s][i] \in Durable
    /\ \A s \in Tails : hold[s] # NoEvent => hold[s] \in Durable
    /\ \A s \in Tails : \A i \in DOMAIN received[s] : received[s][i] \in Durable
    /\ \A p \in Plugins : last[p] # NoTime =>
            \E e \in Durable : e.src = p /\ e.ts = last[p]

\* EventsChannel and the bus: a client sees the events of one emitting
\* goroutine in the order it emitted them, whatever was dropped in between.
TailKeepsEmitOrder ==
    \A s \in Tails : \A i, j \in DOMAIN received[s] :
        LET a == received[s][i]
            b == received[s][j]
        IN  i < j /\ a.src = b.src /\ a.via = b.via => a.id < b.id

\* MarkStarting alone clears a forced stale: a plugin whose boot failed or
\* whose Start died reads stale for the rest of the process, whatever late
\* emits of its other goroutines still record (PRD section 6, no false green).
DeadReadsStale ==
    \A p \in Plugins : phase[p] \in {"dead", "failed"} => HealthState(p) = "stale"

\* Run joins before it returns: when serve exits because the supervisor is
\* done, no Start goroutine is left running to orphan its children.
CleanExitJoins ==
    ~Alive /\ joined => \A p \in Plugins : phase[p] \notin {"running", "crashing"}

\* The bus never blocks an emit: a call of emit returns even if no client
\* ever reads and every channel is full.
EmitReturns ==
    \A t \in Emitters : pc[t] # "idle" ~> (pc[t] = "idle" \/ ~Alive)

\* waitSupervisor's deadline: once stopping, serve exits even if some
\* plugin's Start never returns.
ShutdownCompletes == CtxDone ~> ~Alive

\* The event stream is a durable tail (module DurableTail): commits are
\* unique, deliveries are committed, of the right source, at most once.
DT == INSTANCE DurableTail WITH log <- log, received <- received, Plugins <- Plugins, Tails <- Tails,
                                SourceOf <- SourceOf, Event <- Event
ImplementsDurableTail == DT!Spec
=============================================================================
