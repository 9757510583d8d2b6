----------------------------- MODULE HubProofs -----------------------------
(***************************************************************************)
(* Proofs about module Hub, for every number of plugins, subscriptions,    *)
(* events, boots, and every capacity of ring and channels; and about the   *)
(* composition of module PluginLag, the core with lag streams on its bus.  *)
(***************************************************************************)
EXTENDS PluginLag, SequenceTheorems, TLAPS

(* What the actions leave alone keeps its type. *)

LEMMA KeepsProc == ProcTypeOK /\ UNCHANGED procVars => ProcTypeOK'
  BY DEF ProcTypeOK, procVars

LEMMA KeepsHealth == HealthTypeOK /\ UNCHANGED healthVars => HealthTypeOK'
  BY DEF HealthTypeOK, healthVars

LEMMA KeepsStore == StoreTypeOK /\ UNCHANGED storeVars => StoreTypeOK'
  BY DEF StoreTypeOK, storeVars

LEMMA KeepsEmit == EmitTypeOK /\ UNCHANGED emitVars => EmitTypeOK'
  BY DEF EmitTypeOK, emitVars

LEMMA KeepsBus == BusTypeOK /\ UNCHANGED busVars => BusTypeOK'
  BY DEF BusTypeOK, busVars

LEMMA KeepsTail == TailTypeOK /\ UNCHANGED tailVars => TailTypeOK'
  BY DEF TailTypeOK, tailVars

----------------------------------------------------------------------------

\* The newest n elements of a sequence over S are a sequence over S.
LEMMA NewestType ==
    ASSUME NEW S, NEW s \in Seq(S), NEW n \in Nat
    PROVE  Newest(s, n) \in Seq(S)
  BY DEF Newest

LEMMA NumPluginsType == NumPlugins \in Nat
  BY HubAssumption

LEMMA TypeInit == Init => TypeOK
  <1> SUFFICES ASSUME Init PROVE TypeOK
    OBVIOUS
  <1>1. ProcTypeOK
    <2>1. booting \in 1 .. NumPlugins + 1
      BY NumPluginsType DEF Init
    <2>2. phase \in [Plugins -> Launched \cup {"unbuilt", "starting", "failed"}]
      BY DEF Init, Launched
    <2> QED
      BY <2>1, <2>2 DEF Init, ProcTypeOK
  <1>2. HealthTypeOK
    BY DEF Init, HealthTypeOK
  <1>3. StoreTypeOK
    BY DEF Init, StoreTypeOK
  <1>4. EmitTypeOK
    BY HubAssumption DEF Init, EmitTypeOK
  <1>5. BusTypeOK
    BY HubAssumption DEF Init, BusTypeOK
  <1>6. TailTypeOK
    BY DEF Init, TailTypeOK
  <1>7. clock \in 0 .. MaxClock
    BY HubAssumption DEF Init
  <1> QED
    BY <1>1, <1>2, <1>3, <1>4, <1>5, <1>6, <1>7 DEF TypeOK

LEMMA PluginStepType ==
    ASSUME TypeOK, NEW p \in Plugins, PluginStep(p)
    PROVE  TypeOK'
  <1> USE DEF TypeOK
  <1>1. CASE BeginPlugin(p)
    <2>1. ProcTypeOK'
      BY <1>1 DEF BeginPlugin, ProcTypeOK
    <2>2. HealthTypeOK'
      BY <1>1 DEF BeginPlugin, MarkStarting, HealthTypeOK
    <2> QED
      BY <1>1, <2>1, <2>2, KeepsStore, KeepsEmit, KeepsBus, KeepsTail DEF BeginPlugin
  <1>2. CASE FailPlugin(p)
    <2>1. ProcTypeOK'
      BY <1>2, HubAssumption DEF FailPlugin, ProcTypeOK, Plugins
    <2>2. HealthTypeOK'
      BY <1>2 DEF FailPlugin, MarkStale, HealthTypeOK
    <2> QED
      BY <1>2, <2>1, <2>2, KeepsStore, KeepsEmit, KeepsBus, KeepsTail DEF FailPlugin
  <1>3. CASE LaunchPlugin(p)
    <2>1. ProcTypeOK'
      BY <1>3, HubAssumption DEF LaunchPlugin, ProcTypeOK, Plugins, Launched
    <2>2. StoreTypeOK'
      BY <1>3 DEF LaunchPlugin, StoreTypeOK
    <2> QED
      BY <1>3, <2>1, <2>2, KeepsHealth, KeepsEmit, KeepsBus, KeepsTail DEF LaunchPlugin
  <1>4. CASE StartDies(p)
    <2>1. ProcTypeOK'
      BY <1>4 DEF StartDies, ProcTypeOK, Launched
    <2> QED
      BY <1>4, <2>1, KeepsHealth, KeepsStore, KeepsEmit, KeepsBus, KeepsTail DEF StartDies
  <1>5. CASE StopDead(p)
    <2>1. ProcTypeOK'
      BY <1>5 DEF StopDead, ProcTypeOK, Launched
    <2>2. HealthTypeOK'
      BY <1>5 DEF StopDead, MarkStale, HealthTypeOK
    <2> QED
      BY <1>5, <2>1, <2>2, KeepsStore, KeepsEmit, KeepsBus, KeepsTail DEF StopDead
  <1>6. CASE StartReturns(p)
    <2>1. ProcTypeOK'
      BY <1>6 DEF StartReturns, ProcTypeOK, Launched
    <2> QED
      BY <1>6, <2>1, KeepsHealth, KeepsStore, KeepsEmit, KeepsBus, KeepsTail DEF StartReturns
  <1> QED
    BY <1>1, <1>2, <1>3, <1>4, <1>5, <1>6 DEF PluginStep

LEMMA EmitStepType ==
    ASSUME TypeOK, NEW t \in Emitters, BeginEmit(t) \/ EmitStep(t)
    PROVE  TypeOK'
  <1> USE DEF TypeOK
  <1>0. t[1] \in Plugins /\ t[2] \in {"start", "other"}
    BY DEF Emitters
  <1>1. CASE BeginEmit(t)
    <2> DEFINE e == [src |-> t[1], via |-> t[2], id |-> created + 1, ts |-> clock]
    <2>1. created + 1 \in 1 .. MaxEvents
      BY <1>1, HubAssumption DEF BeginEmit, EmitTypeOK
    <2>2. e \in Event
      BY <1>0, <2>1 DEF Event
    <2>3. EmitTypeOK'
      BY <1>1, <2>1, <2>2 DEF BeginEmit, EmitTypeOK
    <2> QED
      BY <1>1, <2>3, KeepsProc, KeepsHealth, KeepsStore, KeepsBus, KeepsTail DEF BeginEmit
  <1>2. CASE AppendEvent(t)
    <2>1. ev[t] \in Event
      BY <1>2 DEF AppendEvent, EmitTypeOK
    <2>2. Append(log[t[1]], ev[t]) \in Seq(Event) /\ Append(ring[t[1]], ev[t]) \in Seq(Event)
      BY <1>0, <2>1 DEF StoreTypeOK
    <2>3. Newest(Append(ring[t[1]], ev[t]), RingCapacity) \in Seq(Event)
      BY <2>2, NewestType, HubAssumption
    <2>4. StoreTypeOK'
      BY <1>0, <1>2, <2>2, <2>3 DEF AppendEvent, StoreTypeOK
    <2>5. EmitTypeOK'
      BY <1>2, <2>1 DEF AppendEvent, EmitTypeOK
    <2> QED
      BY <1>2, <2>4, <2>5, KeepsProc, KeepsHealth, KeepsBus, KeepsTail DEF AppendEvent
  <1>3. CASE AppendError(t)
    <2>1. EmitTypeOK'
      BY <1>3 DEF AppendError, EmitTypeOK
    <2> QED
      BY <1>3, <2>1, KeepsProc, KeepsHealth, KeepsStore, KeepsBus, KeepsTail DEF AppendError
  <1>4. CASE RecordHealth(t)
    <2>1. ev[t] \in Event /\ ev[t].ts \in 0 .. MaxClock
      BY <1>4 DEF RecordHealth, EmitTypeOK, Event
    <2>2. HealthTypeOK'
      BY <1>0, <1>4, <2>1 DEF RecordHealth, Record, HealthTypeOK
    <2>3. EmitTypeOK'
      BY <1>4, <2>1 DEF RecordHealth, EmitTypeOK
    <2> QED
      BY <1>4, <2>2, <2>3, KeepsProc, KeepsStore, KeepsBus, KeepsTail DEF RecordHealth
  <1>5. CASE Publish(t)
    <2>1. ev[t] \in Event
      BY <1>5 DEF Publish, EmitTypeOK
    <2>2. ASSUME NEW s \in Subs
          PROVE  Offer(s, ev[t]) \in Seq(Event) /\ Len(Offer(s, ev[t])) <= SubBuffer
      BY <2>1, HubAssumption DEF Offer, BusTypeOK
    <2>3. BusTypeOK'
      BY <1>5, <2>2 DEF Publish, BusTypeOK
    <2>4. EmitTypeOK'
      BY <1>5 DEF Publish, EmitTypeOK
    <2> QED
      BY <1>5, <2>3, <2>4, KeepsProc, KeepsHealth, KeepsStore, KeepsTail DEF Publish
  <1> QED
    BY <1>1, <1>2, <1>3, <1>4, <1>5 DEF EmitStep

LEMMA BusStepType ==
    ASSUME TypeOK, NEW s \in Subs, BusStep(s)
    PROVE  TypeOK'
  <1> USE DEF TypeOK
  <1>1. BusTypeOK'
    BY DEF BusStep, Subscribe, Cancel, Unsubscribe, BusTypeOK
  <1>2. TailTypeOK'
    BY DEF BusStep, Subscribe, Cancel, Unsubscribe, TailTypeOK, tailVars
  <1>3. UNCHANGED <<procVars, clock, healthVars, storeVars, emitVars>>
    BY DEF BusStep, Subscribe, Cancel, Unsubscribe
  <1> QED
    BY <1>1, <1>2, <1>3, KeepsProc, KeepsHealth, KeepsStore, KeepsEmit

LEMMA TailStepType ==
    ASSUME TypeOK, NEW s \in Tails, TailStep(s)
    PROVE  TypeOK'
  <1> USE DEF TypeOK
  <1>0. s \in Subs
    BY DEF Subs
  <1>1. CASE Pull(s)
    <2>1. chan[s] \in Seq(Event) /\ chan[s] # <<>> /\ Len(chan[s]) <= SubBuffer
      BY <1>0, <1>1 DEF Pull, BusTypeOK
    <2>2. Tail(chan[s]) \in Seq(Event) /\ Len(Tail(chan[s])) <= SubBuffer
          /\ Head(chan[s]) \in Event
      BY <2>1, HubAssumption
    <2>3. BusTypeOK'
      BY <1>0, <1>1, <2>2 DEF Pull, BusTypeOK
    <2>4. TailTypeOK'
      BY <1>1, <2>2 DEF Pull, TailTypeOK
    <2> QED
      BY <1>1, <2>3, <2>4, KeepsProc, KeepsHealth, KeepsStore, KeepsEmit DEF Pull
  <1>2. CASE Receive(s)
    <2>1. TailTypeOK'
      BY <1>2 DEF Receive, TailTypeOK
    <2> QED
      BY <1>2, <2>1, KeepsProc, KeepsHealth, KeepsStore, KeepsEmit, KeepsBus DEF Receive
  <1>3. CASE PumpExit(s)
    <2>1. TailTypeOK'
      BY <1>3 DEF PumpExit, TailTypeOK
    <2> QED
      BY <1>3, <2>1, KeepsProc, KeepsHealth, KeepsStore, KeepsEmit, KeepsBus DEF PumpExit
  <1> QED
    BY <1>1, <1>2, <1>3 DEF TailStep

LEMMA ServeStepType ==
    ASSUME TypeOK, ServeStep
    PROVE  TypeOK'
  <1> USE DEF TypeOK
  <1>1. ProcTypeOK'
    BY DEF ServeStep, Signal, ListenFails, HTTPShutdown, StopStores, JoinPlugins,
           SupervisorExited, JoinDeadline, ProcTypeOK
  <1>2. StoreTypeOK'
    BY DEF ServeStep, Signal, ListenFails, HTTPShutdown, StopStores, JoinPlugins,
           SupervisorExited, JoinDeadline, StoreTypeOK, storeVars
  <1>3. UNCHANGED <<clock, healthVars, emitVars, busVars, tailVars>>
    BY DEF ServeStep, Signal, ListenFails, HTTPShutdown, StopStores, JoinPlugins,
           SupervisorExited, JoinDeadline
  <1> QED
    BY <1>1, <1>2, <1>3, KeepsHealth, KeepsEmit, KeepsBus, KeepsTail

LEMMA ProcessStepType ==
    ASSUME TypeOK, Tick \/ Crash \/ Reboot
    PROVE  TypeOK'
  <1> USE DEF TypeOK
  <1>1. CASE Tick
    <2>1. clock' \in 0 .. MaxClock
      BY <1>1, HubAssumption DEF Tick
    <2> QED
      BY <1>1, <2>1, KeepsProc, KeepsHealth, KeepsStore, KeepsEmit, KeepsBus, KeepsTail DEF Tick
  <1>2. CASE Crash
    <2>1. ProcTypeOK'
      BY <1>2 DEF Crash, ProcTypeOK
    <2> QED
      BY <1>2, <2>1, KeepsHealth, KeepsStore, KeepsEmit, KeepsBus, KeepsTail DEF Crash
  <1>3. CASE Reboot
    <2>1. ProcTypeOK'
      <3>1. phase' \in [Plugins -> Launched \cup {"unbuilt", "starting", "failed"}]
        BY <1>3 DEF Reboot, Launched
      <3>2. booting' \in 1 .. NumPlugins + 1
        BY <1>3, NumPluginsType DEF Reboot
      <3>3. boots' \in Nat
        BY <1>3 DEF Reboot, ProcTypeOK
      <3>4. run' = "booting" /\ serve' = "up" /\ joined' = FALSE
        BY <1>3 DEF Reboot
      <3> QED
        BY <3>1, <3>2, <3>3, <3>4 DEF ProcTypeOK
    <2>2. HealthTypeOK'
      BY <1>3 DEF Reboot, HealthTypeOK
    <2>3. StoreTypeOK'
      BY <1>3 DEF Reboot, StoreTypeOK
    <2>4. EmitTypeOK'
      BY <1>3 DEF Reboot, EmitTypeOK
    <2>5. BusTypeOK'
      BY <1>3, HubAssumption DEF Reboot, BusTypeOK
    <2>6. TailTypeOK'
      BY <1>3 DEF Reboot, TailTypeOK
    <2> QED
      BY <1>3, <2>1, <2>2, <2>3, <2>4, <2>5, <2>6 DEF Reboot
  <1> QED
    BY <1>1, <1>2, <1>3

LEMMA TypeNext == TypeOK /\ [Next]_vars => TypeOK'
  <1> SUFFICES ASSUME TypeOK, [Next]_vars PROVE TypeOK'
    OBVIOUS
  <1>1. CASE UNCHANGED vars
    BY <1>1, KeepsProc, KeepsHealth, KeepsStore, KeepsEmit, KeepsBus, KeepsTail DEF TypeOK, vars
  <1> QED
    BY <1>1, PluginStepType, EmitStepType, BusStepType, TailStepType, ServeStepType,
       ProcessStepType DEF Next

\* Type correctness of the core, for every size: in particular publish never
\* lets a subscriber's channel grow past its buffer, and an emit in progress
\* always holds an envelope.
THEOREM TypeCorrect == Spec => []TypeOK
  BY TypeInit, TypeNext, PTL DEF Spec

----------------------------------------------------------------------------
(* A dead plugin reads stale. *)

\* Boot failure and stopDead force the state; nothing but MarkStarting, which
\* runs before the plugin can die, lifts it.
DeadIsForced == \A p \in Plugins : phase[p] \in {"dead", "failed"} => forced[p]

LEMMA DeadIsForcedNext == TypeOK /\ DeadIsForced /\ [Next]_vars => DeadIsForced'
  <1> SUFFICES ASSUME TypeOK, DeadIsForced, [Next]_vars PROVE DeadIsForced'
    OBVIOUS
  <1> USE DEF TypeOK, ProcTypeOK, HealthTypeOK, DeadIsForced
  <1>1. ASSUME NEW p \in Plugins, PluginStep(p) PROVE DeadIsForced'
    BY <1>1 DEF PluginStep, BeginPlugin, FailPlugin, LaunchPlugin, StartDies, StopDead,
                StartReturns, MarkStarting, MarkStale, healthVars
  <1>2. ASSUME NEW t \in Emitters, BeginEmit(t) \/ EmitStep(t) PROVE DeadIsForced'
    BY <1>2 DEF EmitStep, BeginEmit, AppendEvent, AppendError, RecordHealth, Record,
                Publish, procVars, healthVars
  <1>3. ASSUME NEW s \in Subs, BusStep(s) PROVE DeadIsForced'
    BY <1>3 DEF BusStep, Subscribe, Cancel, Unsubscribe, procVars, healthVars
  <1>4. ASSUME NEW s \in Tails, TailStep(s) PROVE DeadIsForced'
    BY <1>4 DEF TailStep, Pull, Receive, PumpExit, procVars, healthVars
  <1>5. CASE ServeStep
    BY <1>5 DEF ServeStep, Signal, ListenFails, HTTPShutdown, StopStores, JoinPlugins,
                SupervisorExited, JoinDeadline, healthVars
  <1>6. CASE Tick \/ Crash \/ Reboot
    BY <1>6 DEF Tick, Crash, Reboot, procVars, healthVars
  <1>7. CASE UNCHANGED vars
    BY <1>7 DEF vars, procVars, healthVars
  <1> QED
    BY <1>1, <1>2, <1>3, <1>4, <1>5, <1>6, <1>7 DEF Next

\* No false green (PRD section 6): once a plugin's boot failed or its Start
\* died, /health shows it stale until the process ends, whatever its surviving
\* goroutines still emit and whatever other plugins do.
THEOREM DeadStaysStale == Spec => []DeadReadsStale
  <1>1. Init => DeadIsForced
    BY DEF Init, DeadIsForced
  <1>2. DeadIsForced => DeadReadsStale
    BY DEF DeadIsForced, DeadReadsStale, HealthState
  <1> QED
    BY <1>1, <1>2, DeadIsForcedNext, TypeCorrect, PTL DEF Spec

----------------------------------------------------------------------------
(* A clean exit has joined every plugin. *)

\* The supervisor stops only after startAll, so no plugin is launched behind
\* its back; it is done only when no Start goroutine is left; and only then
\* does serve record a join, in its last step.
JoinOrder ==
    /\ run # "booting" => booting = NumPlugins + 1
    /\ run = "done" => \A p \in Plugins : phase[p] \notin {"running", "crashing"}
    /\ joined => serve = "exited" /\ run = "done"

LEMMA JoinOrderNext == TypeOK /\ JoinOrder /\ [Next]_vars => JoinOrder'
  <1> SUFFICES ASSUME TypeOK, JoinOrder, [Next]_vars PROVE JoinOrder'
    OBVIOUS
  <1> USE DEF TypeOK, ProcTypeOK, JoinOrder, Alive
  <1>1. ASSUME NEW p \in Plugins, PluginStep(p) PROVE JoinOrder'
    <2>1. UNCHANGED <<run, serve, joined>> /\ Alive
      BY <1>1 DEF PluginStep, BeginPlugin, FailPlugin, LaunchPlugin, StartDies, StopDead,
                  StartReturns
    <2>2. CASE run = "booting"
      BY <2>1, <2>2
    <2>3. CASE run # "booting"
      <3>1. booting # p
        BY <2>3, NumPluginsType DEF Plugins
      <3>2. UNCHANGED booting
        BY <1>1, <3>1 DEF PluginStep, BeginPlugin, FailPlugin, LaunchPlugin, StartDies,
                          StopDead, StartReturns
      <3>3. \A q \in Plugins : phase'[q] \in {"running", "crashing"} =>
                                  phase[q] \in {"running", "crashing"}
        BY <1>1, <3>1 DEF PluginStep, BeginPlugin, FailPlugin, LaunchPlugin, StartDies,
                          StopDead, StartReturns
      <3> QED
        BY <2>1, <3>2, <3>3
    <2> QED
      BY <2>2, <2>3
  <1>2. ASSUME NEW t \in Emitters, BeginEmit(t) \/ EmitStep(t) PROVE JoinOrder'
    BY <1>2 DEF EmitStep, BeginEmit, AppendEvent, AppendError, RecordHealth, Publish, procVars
  <1>3. ASSUME NEW s \in Subs, BusStep(s) PROVE JoinOrder'
    BY <1>3 DEF BusStep, Subscribe, Cancel, Unsubscribe, procVars
  <1>4. ASSUME NEW s \in Tails, TailStep(s) PROVE JoinOrder'
    BY <1>4 DEF TailStep, Pull, Receive, PumpExit, procVars
  <1>5. CASE ServeStep
    BY <1>5 DEF ServeStep, Signal, ListenFails, HTTPShutdown, StopStores, JoinPlugins,
                SupervisorExited, JoinDeadline
  <1>6. CASE Tick \/ Crash \/ Reboot
    BY <1>6 DEF Tick, Crash, Reboot, procVars
  <1>7. CASE UNCHANGED vars
    BY <1>7 DEF vars, procVars
  <1> QED
    BY <1>1, <1>2, <1>3, <1>4, <1>5, <1>6, <1>7 DEF Next

\* When serve exits because the supervisor is done, and not because the
\* deadline of waitSupervisor elapsed, every Start goroutine has returned.
THEOREM ExitJoins == Spec => []CleanExitJoins
  <1>1. Init => JoinOrder
    BY DEF Init, JoinOrder
  <1>2. JoinOrder => CleanExitJoins
    BY DEF JoinOrder, CleanExitJoins
  <1> QED
    BY <1>1, <1>2, JoinOrderNext, TypeCorrect, PTL DEF Spec

----------------------------------------------------------------------------
(* The ring holds the newest rows. *)

\* Appending to the kept rows and pruning again keeps what pruning the whole
\* history would keep.
LEMMA NewestAppend ==
    ASSUME NEW S, NEW s \in Seq(S), NEW e \in S, NEW n \in Nat \ {0}
    PROVE  Newest(Append(Newest(s, n), e), n) = Newest(Append(s, e), n)
  <1>1. CASE Len(s) <= n
    BY <1>1 DEF Newest
  <1>2. CASE Len(s) > n
    <2> DEFINE L == Len(s)
               w == SubSeq(s, L - n + 1, L)
               a == SubSeq(Append(w, e), 2, n + 1)
               b == SubSeq(Append(s, e), L - n + 2, L + 1)
    <2>1. /\ L \in Nat /\ w \in Seq(S) /\ Len(w) = n
          /\ \A i \in 1 .. n : w[i] = s[L - n + i]
      BY <1>2, SubSeqProperties
    <2>2. /\ Append(w, e) \in Seq(S) /\ Len(Append(w, e)) = n + 1
          /\ \A i \in 1 .. n : Append(w, e)[i] = w[i]
          /\ Append(w, e)[n + 1] = e
      BY <2>1
    <2>3. /\ Append(s, e) \in Seq(S) /\ Len(Append(s, e)) = L + 1
          /\ \A i \in 1 .. L : Append(s, e)[i] = s[i]
          /\ Append(s, e)[L + 1] = e
      BY <2>1
    <2>4. a \in Seq(S) /\ Len(a) = n /\ \A i \in 1 .. n : a[i] = Append(w, e)[i + 1]
      BY <2>2, SubSeqProperties
    <2>5. b \in Seq(S) /\ Len(b) = n /\ \A i \in 1 .. n : b[i] = Append(s, e)[L - n + 1 + i]
      BY <1>2, <2>1, <2>3, SubSeqProperties
    <2>6. ASSUME NEW i \in 1 .. n PROVE a[i] = b[i]
      <3>1. CASE i = n
        BY <2>1, <2>2, <2>3, <2>4, <2>5, <3>1
      <3>2. CASE i < n
        <4>1. i + 1 \in 1 .. n /\ L - n + 1 + i \in 1 .. L
          BY <1>2, <2>1, <3>2
        <4> QED
          BY <2>1, <2>2, <2>3, <2>4, <2>5, <4>1
      <3>3. i = n \/ i < n
        OBVIOUS
      <3> QED
        BY <3>1, <3>2, <3>3
    <2>7. a = b
      BY <2>4, <2>5, <2>6, SeqEqual
    <2>8. Newest(s, n) = w
      BY <1>2, <2>1 DEF Newest
    <2>9. Newest(Append(w, e), n) = a
      BY <2>2 DEF Newest
    <2>10. Newest(Append(s, e), n) = b
      <3>1. ~(Len(Append(s, e)) <= n) /\ Len(Append(s, e)) - n + 1 = L - n + 2
        BY <1>2, <2>1, <2>3
      <3> QED
        BY <2>3, <3>1 DEF Newest
    <2> QED
      BY <2>7, <2>8, <2>9, <2>10
  <1> QED
    BY <1>1, <1>2

\* Only a commit of AppendEvent changes the events tables.
LEMMA OnlyAppendWrites ==
    ASSUME [Next]_vars
    PROVE  UNCHANGED <<ring, log>> \/ \E t \in Emitters : AppendEvent(t)
  <1>1. ASSUME NEW p \in Plugins, PluginStep(p) PROVE UNCHANGED <<ring, log>>
    BY <1>1 DEF PluginStep, BeginPlugin, FailPlugin, LaunchPlugin, StartDies, StopDead,
                StartReturns, storeVars
  <1>2. ASSUME NEW t \in Emitters, BeginEmit(t) \/ EmitStep(t), ~AppendEvent(t)
        PROVE  UNCHANGED <<ring, log>>
    BY <1>2 DEF EmitStep, BeginEmit, AppendError, RecordHealth, Publish, storeVars
  <1>3. ASSUME NEW s \in Subs, BusStep(s) PROVE UNCHANGED <<ring, log>>
    BY <1>3 DEF BusStep, Subscribe, Cancel, Unsubscribe, storeVars
  <1>4. ASSUME NEW s \in Tails, TailStep(s) PROVE UNCHANGED <<ring, log>>
    BY <1>4 DEF TailStep, Pull, Receive, PumpExit, storeVars
  <1>5. CASE ServeStep
    BY <1>5 DEF ServeStep, Signal, ListenFails, HTTPShutdown, StopStores, JoinPlugins,
                SupervisorExited, JoinDeadline, storeVars
  <1>6. CASE Tick \/ Crash \/ Reboot
    BY <1>6 DEF Tick, Crash, Reboot, storeVars
  <1>7. CASE UNCHANGED vars
    BY <1>7 DEF vars, storeVars
  <1> QED
    BY <1>1, <1>2, <1>3, <1>4, <1>5, <1>6, <1>7 DEF Next

LEMMA RingNext == TypeOK /\ RingIsNewest /\ [Next]_vars => RingIsNewest'
  <1> SUFFICES ASSUME TypeOK, RingIsNewest, [Next]_vars PROVE RingIsNewest'
    OBVIOUS
  <1>1. CASE UNCHANGED <<ring, log>>
    BY <1>1 DEF RingIsNewest
  <1>2. ASSUME NEW t \in Emitters, AppendEvent(t) PROVE RingIsNewest'
    <2> DEFINE p == t[1]
    <2>1. p \in Plugins /\ ev[t] \in Event /\ log[p] \in Seq(Event)
      BY <1>2 DEF AppendEvent, Emitters, TypeOK, EmitTypeOK, StoreTypeOK
    <2>2. /\ ring' = [ring EXCEPT ![p] = Newest(Append(ring[p], ev[t]), RingCapacity)]
          /\ log' = [log EXCEPT ![p] = Append(log[p], ev[t])]
      BY <1>2 DEF AppendEvent
    <2>3. Newest(Append(ring[p], ev[t]), RingCapacity)
             = Newest(Append(log[p], ev[t]), RingCapacity)
      BY <2>1, NewestAppend, HubAssumption DEF RingIsNewest
    <2>4. ASSUME NEW q \in Plugins PROVE ring'[q] = Newest(log'[q], RingCapacity)
      BY <2>1, <2>2, <2>3 DEF RingIsNewest, TypeOK, StoreTypeOK
    <2> QED
      BY <2>4 DEF RingIsNewest
  <1> QED
    BY <1>1, <1>2, OnlyAppendWrites

\* AppendEvent's insert and prune: after any sequence of appends by any of a
\* plugin's goroutines, over any number of crashes and boots, its events table
\* holds exactly the newest RingCapacity events ever committed, in order.
THEOREM RingKeepsNewest == Spec => []RingIsNewest
  <1>1. Init => RingIsNewest
    BY HubAssumption DEF Init, RingIsNewest, Newest
  <1> QED
    BY <1>1, RingNext, TypeCorrect, PTL DEF Spec

----------------------------------------------------------------------------
(* Nothing is shown before it is durable. *)

\* The parts of NothingBeforeDurable, and what makes them inductive: an emit
\* past its append holds a committed envelope of its own plugin.
EmitDurable ==
    \A t \in Emitters : /\ pc[t] # "idle" => ev[t].src = t[1]
                        /\ pc[t] \in {"record", "publish"} => ev[t] \in Durable
ChanDurable == \A s \in Subs : \A i \in DOMAIN chan[s] : chan[s][i] \in Durable
HoldDurable == \A s \in Tails : hold[s] # NoEvent => hold[s] \in Durable
ReceivedDurable == \A s \in Tails : \A i \in DOMAIN received[s] : received[s][i] \in Durable
LastDurable ==
    \A p \in Plugins : last[p] # NoTime => \E e \in Durable : e.src = p /\ e.ts = last[p]

Durability == EmitDurable /\ ChanDurable /\ HoldDurable /\ ReceivedDurable /\ LastDurable

LEMMA AppendCommits ==
    ASSUME TypeOK, NEW t \in Emitters, AppendEvent(t)
    PROVE  Durable \subseteq Durable' /\ ev[t] \in Durable'
  <1> DEFINE p == t[1]
  <1>1. p \in Plugins /\ ev[t] \in Event /\ log \in [Plugins -> Seq(Event)]
    BY DEF AppendEvent, Emitters, TypeOK, EmitTypeOK, StoreTypeOK
  <1>2. log' = [log EXCEPT ![p] = Append(log[p], ev[t])]
    BY DEF AppendEvent
  <1>3. log'[p] = Append(log[p], ev[t])
    BY <1>1, <1>2
  <1>4. /\ Len(log[p]) + 1 \in DOMAIN log'[p]
        /\ log'[p][Len(log[p]) + 1] = ev[t]
    BY <1>1, <1>3
  <1>5. ev[t] \in Durable'
    BY <1>1, <1>4 DEF Durable
  <1>6. ASSUME NEW e \in Durable PROVE e \in Durable'
    <2>1. PICK q \in Plugins : \E i \in DOMAIN log[q] : log[q][i] = e
      BY <1>6 DEF Durable
    <2>2. PICK i \in DOMAIN log[q] : log[q][i] = e
      BY <2>1
    <2>3. i \in DOMAIN log'[q] /\ log'[q][i] = e
      <3>1. CASE q = p
        BY <1>1, <1>3, <2>2, <3>1
      <3>2. CASE q # p
        BY <1>1, <1>2, <2>2, <3>2
      <3> QED
        BY <3>1, <3>2
    <2> QED
      BY <1>6, <2>3 DEF Durable
  <1> QED
    BY <1>5, <1>6

LEMMA DurableGrows ==
    ASSUME TypeOK, [Next]_vars
    PROVE  Durable \subseteq Durable'
  <1>1. CASE UNCHANGED log
    BY <1>1 DEF Durable
  <1> QED
    BY <1>1, AppendCommits, OnlyAppendWrites

LEMMA KeepsEmitDurable ==
    ASSUME EmitDurable, Durable \subseteq Durable', UNCHANGED <<pc, ev>>
    PROVE  EmitDurable'
  BY DEF EmitDurable

LEMMA KeepsChanDurable ==
    ASSUME ChanDurable, Durable \subseteq Durable', UNCHANGED chan
    PROVE  ChanDurable'
  BY DEF ChanDurable

LEMMA KeepsHoldDurable ==
    ASSUME HoldDurable, Durable \subseteq Durable', UNCHANGED hold
    PROVE  HoldDurable'
  BY DEF HoldDurable

LEMMA KeepsReceivedDurable ==
    ASSUME ReceivedDurable, Durable \subseteq Durable', UNCHANGED received
    PROVE  ReceivedDurable'
  BY DEF ReceivedDurable

LEMMA KeepsLastDurable ==
    ASSUME LastDurable, Durable \subseteq Durable', UNCHANGED last
    PROVE  LastDurable'
  BY DEF LastDurable

LEMMA EmitStepDurable ==
    ASSUME TypeOK, Durability, Durable \subseteq Durable',
           NEW t \in Emitters, BeginEmit(t) \/ EmitStep(t)
    PROVE  Durability'
  <1> USE DEF Durability
  <1>0. pc \in [Emitters -> {"idle", "append", "record", "publish"}]
        /\ ev \in [Emitters -> Event \cup {NoEvent}]
    BY DEF TypeOK, EmitTypeOK
  <1>1. CASE BeginEmit(t)
    <2>1. EmitDurable'
      BY <1>0, <1>1 DEF BeginEmit, EmitDurable
    <2> QED
      BY <1>1, <2>1, KeepsChanDurable, KeepsHoldDurable, KeepsReceivedDurable,
         KeepsLastDurable DEF BeginEmit, busVars, tailVars, healthVars
  <1>2. CASE AppendEvent(t)
    <2>1. ev[t] \in Durable'
      BY <1>2, AppendCommits
    <2>2. EmitDurable'
      BY <1>0, <1>2, <2>1 DEF AppendEvent, EmitDurable
    <2> QED
      BY <1>2, <2>2, KeepsChanDurable, KeepsHoldDurable, KeepsReceivedDurable,
         KeepsLastDurable DEF AppendEvent, busVars, tailVars, healthVars
  <1>3. CASE AppendError(t)
    <2>1. EmitDurable'
      BY <1>0, <1>3 DEF AppendError, EmitDurable
    <2> QED
      BY <1>3, <2>1, KeepsChanDurable, KeepsHoldDurable, KeepsReceivedDurable,
         KeepsLastDurable DEF AppendError, busVars, tailVars, healthVars
  <1>4. CASE RecordHealth(t)
    <2>1. EmitDurable'
      BY <1>0, <1>4 DEF RecordHealth, EmitDurable
    <2>2. LastDurable'
      <3>1. ev[t] \in Durable' /\ ev[t].src = t[1] /\ t[1] \in Plugins
        BY <1>4 DEF RecordHealth, EmitDurable, Emitters
      <3>2. last' = [last EXCEPT ![t[1]] = ev[t].ts] /\ last \in [Plugins -> (0 .. MaxClock) \cup {NoTime}]
        BY <1>4 DEF RecordHealth, Record, TypeOK, HealthTypeOK
      <3>3. ASSUME NEW p \in Plugins, last'[p] # NoTime
            PROVE  \E e \in Durable' : e.src = p /\ e.ts = last'[p]
        <4>1. CASE p = t[1]
          BY <3>1, <3>2, <4>1
        <4>2. CASE p # t[1]
          BY <3>2, <3>3, <4>2 DEF LastDurable
        <4> QED
          BY <4>1, <4>2
      <3> QED
        BY <3>3 DEF LastDurable
    <2> QED
      BY <1>4, <2>1, <2>2, KeepsChanDurable, KeepsHoldDurable, KeepsReceivedDurable
         DEF RecordHealth, busVars, tailVars
  <1>5. CASE Publish(t)
    <2>1. EmitDurable'
      BY <1>0, <1>5 DEF Publish, EmitDurable
    <2>2. ev[t] \in Durable' /\ ev[t] \in Event
      BY <1>5 DEF Publish, EmitDurable, TypeOK, EmitTypeOK
    <2>3. ASSUME NEW s \in Subs, NEW i \in DOMAIN chan'[s] PROVE chan'[s][i] \in Durable'
      <3>1. chan[s] \in Seq(Event) /\ chan'[s] = Offer(s, ev[t])
        BY <1>5 DEF Publish, TypeOK, BusTypeOK
      <3>2. CASE chan'[s] = chan[s]
        BY <2>3, <3>2 DEF ChanDurable
      <3>3. CASE chan'[s] = Append(chan[s], ev[t])
        <4>1. CASE i \in DOMAIN chan[s]
          BY <2>2, <3>1, <3>3, <4>1 DEF ChanDurable
        <4>2. CASE i = Len(chan[s]) + 1
          BY <2>2, <3>1, <3>3, <4>2
        <4> QED
          BY <2>2, <2>3, <3>1, <3>3, <4>1, <4>2
      <3> QED
        BY <3>1, <3>2, <3>3 DEF Offer
    <2>4. ChanDurable'
      BY <2>3 DEF ChanDurable
    <2> QED
      BY <1>5, <2>1, <2>4, KeepsHoldDurable, KeepsReceivedDurable, KeepsLastDurable
         DEF Publish, tailVars, healthVars
  <1> QED
    BY <1>1, <1>2, <1>3, <1>4, <1>5 DEF EmitStep

LEMMA TailStepDurable ==
    ASSUME TypeOK, Durability, Durable \subseteq Durable', NEW s \in Tails, TailStep(s)
    PROVE  Durability'
  <1> USE DEF Durability
  <1>0. s \in Subs /\ hold \in [Tails -> Event \cup {NoEvent}]
        /\ received \in [Tails -> Seq(Event)] /\ chan \in [Subs -> Seq(Event)]
    BY DEF Subs, TypeOK, TailTypeOK, BusTypeOK
  <1>1. CASE Pull(s)
    <2>1. /\ chan[s] \in Seq(Event) /\ chan[s] # <<>>
          /\ chan' = [chan EXCEPT ![s] = Tail(chan[s])]
          /\ hold' = [hold EXCEPT ![s] = IF SourceOf[s] \in {0, Head(chan[s]).src}
                                         THEN Head(chan[s]) ELSE NoEvent]
      BY <1>0, <1>1 DEF Pull
    <2>2. Head(chan[s]) \in Durable
      BY <1>0, <2>1 DEF ChanDurable
    <2>3. HoldDurable'
      BY <1>0, <2>1, <2>2 DEF HoldDurable
    <2>4. ASSUME NEW x \in Subs, NEW i \in DOMAIN chan'[x] PROVE chan'[x][i] \in Durable'
      <3>1. CASE x = s
        <4>1. chan'[x] = Tail(chan[s])
          BY <1>0, <2>1, <3>1
        <4>2. /\ Tail(chan[s]) \in Seq(Event)
              /\ Len(Tail(chan[s])) = Len(chan[s]) - 1
              /\ \A j \in 1 .. Len(Tail(chan[s])) : Tail(chan[s])[j] = chan[s][j + 1]
          BY <2>1, HeadTailProperties
        <4>3. i \in 1 .. Len(Tail(chan[s])) /\ i + 1 \in DOMAIN chan[s]
          <5>1. i \in DOMAIN Tail(chan[s])
            BY <2>4, <4>1
          <5>2. i \in 1 .. Len(Tail(chan[s]))
            BY <4>2, <5>1, LenProperties
          <5>3. DOMAIN chan[s] = 1 .. Len(chan[s]) /\ Len(chan[s]) \in Nat
            BY <2>1, LenProperties
          <5> QED
            BY <4>2, <5>2, <5>3
        <4>4. chan'[x][i] = chan[s][i + 1]
          BY <4>1, <4>2, <4>3
        <4> QED
          BY <1>0, <4>3, <4>4 DEF ChanDurable
      <3>2. CASE x # s
        BY <1>0, <2>1, <2>4, <3>2 DEF ChanDurable
      <3> QED
        BY <3>1, <3>2
    <2>5. ChanDurable'
      BY <2>4 DEF ChanDurable
    <2> QED
      BY <1>1, <2>3, <2>5, KeepsEmitDurable, KeepsReceivedDurable, KeepsLastDurable
         DEF Pull, emitVars, healthVars
  <1>2. CASE Receive(s)
    <2>1. hold[s] \in Durable /\ hold[s] \in Event
      BY <1>0, <1>2 DEF Receive, HoldDurable
    <2>2. HoldDurable'
      BY <1>0, <1>2 DEF Receive, HoldDurable
    <2>3. ASSUME NEW x \in Tails, NEW i \in DOMAIN received'[x] PROVE received'[x][i] \in Durable'
      <3>1. CASE x = s
        <4>1. received'[x] = Append(received[s], hold[s]) /\ received[s] \in Seq(Event)
          BY <1>0, <1>2, <3>1 DEF Receive
        <4>2. CASE i \in DOMAIN received[s]
          BY <2>1, <4>1, <4>2 DEF ReceivedDurable
        <4>3. CASE i = Len(received[s]) + 1
          BY <2>1, <4>1, <4>3
        <4> QED
          BY <2>1, <2>3, <4>1, <4>2, <4>3
      <3>2. CASE x # s
        BY <1>0, <1>2, <2>3, <3>2 DEF Receive, ReceivedDurable
      <3> QED
        BY <3>1, <3>2
    <2>4. ReceivedDurable'
      BY <2>3 DEF ReceivedDurable
    <2> QED
      BY <1>2, <2>2, <2>4, KeepsEmitDurable, KeepsChanDurable, KeepsLastDurable
         DEF Receive, emitVars, healthVars, busVars
  <1>3. CASE PumpExit(s)
    <2>1. HoldDurable'
      BY <1>0, <1>3 DEF PumpExit, HoldDurable
    <2> QED
      BY <1>3, <2>1, KeepsEmitDurable, KeepsChanDurable, KeepsReceivedDurable, KeepsLastDurable
         DEF PumpExit, emitVars, healthVars, busVars
  <1> QED
    BY <1>1, <1>2, <1>3 DEF TailStep

LEMMA DurabilityNext == TypeOK /\ Durability /\ [Next]_vars => Durability'
  <1> SUFFICES ASSUME TypeOK, Durability, [Next]_vars PROVE Durability'
    OBVIOUS
  <1>0. Durable \subseteq Durable'
    BY DurableGrows
  <1>1. ASSUME UNCHANGED <<pc, ev, chan, hold, received, last>> PROVE Durability'
    BY <1>0, <1>1, KeepsEmitDurable, KeepsChanDurable, KeepsHoldDurable,
       KeepsReceivedDurable, KeepsLastDurable DEF Durability
  <1>2. ASSUME NEW p \in Plugins, PluginStep(p) PROVE Durability'
    BY <1>1, <1>2 DEF PluginStep, BeginPlugin, FailPlugin, LaunchPlugin, StartDies, StopDead,
       StartReturns, MarkStarting, MarkStale, healthVars, emitVars, busVars, tailVars
  <1>3. ASSUME NEW t \in Emitters, BeginEmit(t) \/ EmitStep(t) PROVE Durability'
    BY <1>0, <1>3, EmitStepDurable
  <1>4. ASSUME NEW s \in Subs, BusStep(s) PROVE Durability'
    BY <1>1, <1>4 DEF BusStep, Subscribe, Cancel, Unsubscribe, healthVars, emitVars,
       busVars, tailVars
  <1>5. ASSUME NEW s \in Tails, TailStep(s) PROVE Durability'
    BY <1>0, <1>5, TailStepDurable
  <1>6. CASE ServeStep
    BY <1>1, <1>6 DEF ServeStep, Signal, ListenFails, HTTPShutdown, StopStores, JoinPlugins,
       SupervisorExited, JoinDeadline, healthVars, emitVars, busVars, tailVars
  <1>7. CASE Tick \/ Crash
    BY <1>1, <1>7 DEF Tick, Crash, healthVars, emitVars, busVars, tailVars
  <1>8. CASE Reboot
    <2>1. EmitDurable'
      BY <1>8 DEF Reboot, EmitDurable
    <2>2. ChanDurable'
      BY <1>8 DEF Reboot, ChanDurable
    <2>3. HoldDurable'
      BY <1>8 DEF Reboot, HoldDurable
    <2>4. LastDurable'
      BY <1>8 DEF Reboot, LastDurable
    <2> QED
      BY <1>0, <1>8, <2>1, <2>2, <2>3, <2>4, KeepsReceivedDurable DEF Reboot, Durability
  <1>9. CASE UNCHANGED vars
    BY <1>1, <1>9 DEF vars, healthVars, emitVars, busVars, tailVars
  <1> QED
    BY <1>2, <1>3, <1>4, <1>5, <1>6, <1>7, <1>8, <1>9 DEF Next

LEMMA DurabilityInit == Init => Durability
  BY DEF Init, Durability, EmitDurable, ChanDurable, HoldDurable, ReceivedDurable, LastDurable

\* emitFor's order (append, then health, then bus): whatever interleaving of
\* emits, failures, shutdowns and crashes, no subscriber channel, pump, client
\* or health entry ever shows an event that was not committed before.
THEOREM DurableFirst == Spec => []NothingBeforeDurable
  <1>1. Durability => NothingBeforeDurable
    BY DEF Durability, ChanDurable, HoldDurable, ReceivedDurable, LastDurable, NothingBeforeDurable
  <1> QED
    BY <1>1, DurabilityInit, DurabilityNext, TypeCorrect, PTL DEF Spec

----------------------------------------------------------------------------
(* A tail keeps the order of each emitting goroutine. *)

\* Of two events of one goroutine, a was emitted before b.
Earlier(a, b) == a.src = b.src /\ a.via = b.via => a.id < b.id

\* Envelopes are numbered as they are built: an emit in progress holds one of
\* its own goroutine that no other holds, and nothing committed is numbered
\* past the counter. An envelope not yet appended is not committed.
Numbered ==
    /\ \A t \in Emitters : pc[t] # "idle" =>
          ev[t].src = t[1] /\ ev[t].via = t[2] /\ ev[t].id <= created
    /\ \A t, u \in Emitters :
          pc[t] # "idle" /\ pc[u] # "idle" /\ ev[t].id = ev[u].id => t = u
    /\ \A e \in Durable : e.id <= created
    /\ \A t \in Emitters : pc[t] = "append" => \A e \in Durable : e.id # ev[t].id

\* From the client back to the emitters: what was received is earlier than
\* what the pump holds, that earlier than what the channel holds, and that
\* earlier than what is being emitted.
ChanOrder ==
    \A s \in Subs : \A i \in DOMAIN chan[s] :
        /\ \A j \in DOMAIN chan[s] : i < j => Earlier(chan[s][i], chan[s][j])
        /\ \A t \in Emitters : pc[t] # "idle" => Earlier(chan[s][i], ev[t])
HoldOrder ==
    \A s \in Tails : hold[s] # NoEvent =>
        /\ SourceOf[s] \in {0, hold[s].src}
        /\ \A j \in DOMAIN chan[s] : Earlier(hold[s], chan[s][j])
        /\ \A t \in Emitters : pc[t] # "idle" => Earlier(hold[s], ev[t])
ReceivedOrder ==
    \A s \in Tails : \A i \in DOMAIN received[s] :
        /\ \A j \in DOMAIN received[s] : i < j => Earlier(received[s][i], received[s][j])
        /\ hold[s] # NoEvent => Earlier(received[s][i], hold[s])
        /\ \A j \in DOMAIN chan[s] : Earlier(received[s][i], chan[s][j])
        /\ \A t \in Emitters : pc[t] # "idle" => Earlier(received[s][i], ev[t])

EmitOrder == Numbered /\ ChanOrder /\ HoldOrder /\ ReceivedOrder

\* No goroutine starts an emit.
NoNewEmit == \A u \in Emitters : pc'[u] # "idle" => pc[u] # "idle" /\ ev'[u] = ev[u]

LEMMA KeepsChanOrder ==
    ASSUME ChanOrder, NoNewEmit, UNCHANGED chan
    PROVE  ChanOrder'
  BY DEF ChanOrder, NoNewEmit, Earlier

LEMMA KeepsHoldOrder ==
    ASSUME HoldOrder, NoNewEmit, UNCHANGED <<chan, hold>>
    PROVE  HoldOrder'
  BY DEF HoldOrder, NoNewEmit, Earlier

LEMMA KeepsReceivedOrder ==
    ASSUME ReceivedOrder, NoNewEmit, UNCHANGED <<chan, hold, received>>
    PROVE  ReceivedOrder'
  BY DEF ReceivedOrder, NoNewEmit, Earlier

\* Without a commit and without a new envelope the numbering stays.
LEMMA KeepsNumbered ==
    ASSUME Numbered, UNCHANGED <<log, created>>, NoNewEmit,
           \A u \in Emitters : pc'[u] = "append" => pc[u] = "append"
    PROVE  Numbered'
  <1>1. Durable' = Durable
    BY DEF Durable
  <1> QED
    BY <1>1 DEF Numbered, NoNewEmit

\* What is committed is numbered by a natural number, and so is the envelope
\* of an emit in progress.
LEMMA NumbersAreNat ==
    ASSUME TypeOK
    PROVE  /\ created \in Nat
           /\ \A e \in Durable : e.id \in Nat
           /\ \A t \in Emitters : pc[t] # "idle" => ev[t] \in Event /\ ev[t].id \in Nat
  BY HubAssumption DEF TypeOK, EmitTypeOK, Durable, Event

LEMMA BeginEmitOrder ==
    ASSUME TypeOK, Durability, EmitOrder, NEW t \in Emitters, BeginEmit(t)
    PROVE  EmitOrder'
  <1> DEFINE n == [src |-> t[1], via |-> t[2], id |-> created + 1, ts |-> clock]
  <1>1. /\ pc' = [pc EXCEPT ![t] = "append"] /\ ev' = [ev EXCEPT ![t] = n]
        /\ created' = created + 1
        /\ UNCHANGED <<log, chan, hold, received>>
    BY DEF BeginEmit, storeVars, busVars, tailVars
  <1>2. pc \in [Emitters -> {"idle", "append", "record", "publish"}]
        /\ ev \in [Emitters -> Event \cup {NoEvent}] /\ pc[t] = "idle"
    BY DEF TypeOK, EmitTypeOK, BeginEmit
  <1>3. ASSUME NEW e \in Durable PROVE Earlier(e, n)
    BY NumbersAreNat DEF Earlier, EmitOrder, Numbered
  <1>4. ASSUME NEW u \in Emitters, pc'[u] # "idle"
        PROVE  \/ u = t /\ ev'[u] = n
               \/ u # t /\ pc[u] # "idle" /\ pc'[u] = pc[u] /\ ev'[u] = ev[u]
    BY <1>1, <1>2, <1>4
  <1>5. Numbered'
    <2>1. Durable' = Durable
      BY <1>1 DEF Durable
    <2>2. \A u \in Emitters : pc'[u] # "idle" =>
             ev'[u].src = u[1] /\ ev'[u].via = u[2] /\ ev'[u].id <= created'
      BY <1>1, <1>4, NumbersAreNat DEF EmitOrder, Numbered
    <2>3. ASSUME NEW u \in Emitters, NEW v \in Emitters, pc'[u] # "idle", pc'[v] # "idle",
                 ev'[u].id = ev'[v].id
          PROVE  u = v
      BY <1>4, <2>3, NumbersAreNat DEF EmitOrder, Numbered
    <2>4. \A e \in Durable : e.id <= created'
      BY <1>1, NumbersAreNat DEF EmitOrder, Numbered
    <2>5. ASSUME NEW u \in Emitters, pc'[u] = "append", NEW e \in Durable
          PROVE  e.id # ev'[u].id
      BY <1>4, <2>5, NumbersAreNat DEF EmitOrder, Numbered
    <2> QED
      BY <2>1, <2>2, <2>3, <2>4, <2>5 DEF Numbered
  <1>6. ChanOrder'
    BY <1>1, <1>3, <1>4 DEF EmitOrder, ChanOrder, Durability, ChanDurable
  <1>7. HoldOrder'
    BY <1>1, <1>3, <1>4 DEF EmitOrder, HoldOrder, Durability, HoldDurable
  <1>8. ReceivedOrder'
    BY <1>1, <1>3, <1>4 DEF EmitOrder, ReceivedOrder, Durability, ReceivedDurable
  <1> QED
    BY <1>5, <1>6, <1>7, <1>8 DEF EmitOrder

LEMMA AppendEventOrder ==
    ASSUME TypeOK, EmitOrder, NEW t \in Emitters, AppendEvent(t)
    PROVE  EmitOrder'
  <1>0. pc \in [Emitters -> {"idle", "append", "record", "publish"}]
        /\ pc[t] = "append" /\ pc' = [pc EXCEPT ![t] = "record"]
        /\ UNCHANGED <<ev, created, chan, hold, received>>
    BY DEF TypeOK, EmitTypeOK, AppendEvent, busVars, tailVars
  <1>1. NoNewEmit
    BY <1>0 DEF NoNewEmit
  <1>2. ASSUME NEW e \in Durable' PROVE e \in Durable \/ e = ev[t]
    <2> DEFINE p == t[1]
    <2>1. p \in Plugins /\ ev[t] \in Event /\ log \in [Plugins -> Seq(Event)]
          /\ log' = [log EXCEPT ![p] = Append(log[p], ev[t])]
      BY DEF AppendEvent, Emitters, TypeOK, EmitTypeOK, StoreTypeOK
    <2>2. PICK q \in Plugins : \E i \in DOMAIN log'[q] : log'[q][i] = e
      BY <1>2 DEF Durable
    <2>3. PICK i \in DOMAIN log'[q] : log'[q][i] = e
      BY <2>2
    <2>4. e \in Event
      BY <1>2 DEF Durable
    <2>5. CASE q # p
      BY <2>1, <2>3, <2>4, <2>5 DEF Durable
    <2>6. CASE q = p
      <3>1. log'[q] = Append(log[q], ev[t]) /\ log[q] \in Seq(Event)
        BY <2>1, <2>6
      <3>2. i \in DOMAIN log[q] \/ i = Len(log[q]) + 1
        BY <2>1, <2>3, <3>1
      <3> QED
        BY <2>1, <2>3, <2>4, <3>1, <3>2 DEF Durable
    <2> QED
      BY <2>5, <2>6
  <1>3. Numbered'
    <2>1. \A e \in Durable' : e.id <= created
      BY <1>0, <1>2 DEF EmitOrder, Numbered
    <2>2. ASSUME NEW u \in Emitters, pc'[u] = "append", NEW e \in Durable'
          PROVE  e.id # ev[u].id
      <3>1. u # t /\ pc[u] = "append"
        BY <1>0, <2>2
      <3> QED
        BY <1>0, <1>2, <3>1 DEF EmitOrder, Numbered
    <2>3. \A u \in Emitters : pc'[u] # "idle" => pc[u] # "idle"
      BY <1>0
    <2> QED
      BY <1>0, <2>1, <2>2, <2>3 DEF EmitOrder, Numbered
  <1> QED
    BY <1>0, <1>1, <1>3, KeepsChanOrder, KeepsHoldOrder, KeepsReceivedOrder DEF EmitOrder

LEMMA PublishOrder ==
    ASSUME TypeOK, EmitOrder, NEW t \in Emitters, Publish(t)
    PROVE  EmitOrder'
  <1>0. /\ pc \in [Emitters -> {"idle", "append", "record", "publish"}]
        /\ ev \in [Emitters -> Event \cup {NoEvent}]
        /\ pc[t] = "publish" /\ ev[t] \in Event
        /\ pc' = [pc EXCEPT ![t] = "idle"] /\ ev' = [ev EXCEPT ![t] = NoEvent]
        /\ UNCHANGED <<log, created, hold, received>>
    BY DEF TypeOK, EmitTypeOK, Publish, storeVars, tailVars
  <1>1. \A u \in Emitters : pc'[u] # "idle" => u # t /\ pc[u] # "idle" /\ ev'[u] = ev[u]
    BY <1>0
  <1>2. NoNewEmit
    BY <1>1 DEF NoNewEmit
  <1>3. Numbered'
    BY <1>0, <1>2, KeepsNumbered DEF EmitOrder
  \* The published envelope is of another goroutine than any emit left, or,
  \* one of the same goroutine being its own, there is none.
  <1>4. ASSUME NEW u \in Emitters, pc'[u] # "idle" PROVE Earlier(ev[t], ev'[u])
    <2>1. u # t /\ pc[u] # "idle" /\ ev'[u] = ev[u]
      BY <1>1, <1>4
    <2>2. ev[t].src = t[1] /\ ev[t].via = t[2] /\ ev[u].src = u[1] /\ ev[u].via = u[2]
      BY <1>0, <2>1 DEF EmitOrder, Numbered
    <2>3. ~(t[1] = u[1] /\ t[2] = u[2])
      BY <2>1 DEF Emitters
    <2> QED
      BY <2>1, <2>2, <2>3 DEF Earlier
  <1>5. ASSUME NEW s \in Subs, NEW i \in DOMAIN chan'[s]
        PROVE  \/ i \in DOMAIN chan[s] /\ chan'[s][i] = chan[s][i]
               \/ /\ chan'[s][i] = ev[t] /\ i = Len(chan[s]) + 1
                  /\ \A j \in DOMAIN chan'[s] : j <= i
    <2>1. chan[s] \in Seq(Event) /\ chan'[s] = Offer(s, ev[t])
      BY DEF Publish, TypeOK, BusTypeOK
    <2>2. chan'[s] = chan[s] \/ chan'[s] = Append(chan[s], ev[t])
      BY <2>1 DEF Offer
    <2> QED
      BY <1>0, <1>5, <2>1, <2>2
  <1>6. ASSUME NEW s \in Subs
        PROVE  /\ \A i \in DOMAIN chan[s] : i \in Nat /\ i <= Len(chan[s]) /\ i < Len(chan[s]) + 1
               /\ \A i \in DOMAIN chan'[s] : i \in Nat
    <2>1. chan[s] \in Seq(Event) /\ chan'[s] \in Seq(Event)
      BY TypeNext DEF Next, EmitStep, TypeOK, BusTypeOK
    <2> QED
      BY <2>1
  <1>7. ChanOrder'
    <2>1. ASSUME NEW s \in Subs, NEW i \in DOMAIN chan'[s], NEW j \in DOMAIN chan'[s], i < j
          PROVE  Earlier(chan'[s][i], chan'[s][j])
      <3>1. i \in DOMAIN chan[s] /\ chan'[s][i] = chan[s][i]
        BY <1>5, <1>6, <2>1
      <3> QED
        BY <1>0, <1>5, <2>1, <3>1 DEF EmitOrder, ChanOrder
    <2>2. ASSUME NEW s \in Subs, NEW i \in DOMAIN chan'[s], NEW u \in Emitters, pc'[u] # "idle"
          PROVE  Earlier(chan'[s][i], ev'[u])
      BY <1>1, <1>4, <1>5, <2>2 DEF EmitOrder, ChanOrder
    <2> QED
      BY <2>1, <2>2 DEF ChanOrder
  <1>8. HoldOrder'
    BY <1>0, <1>1, <1>5 DEF EmitOrder, HoldOrder, Subs
  <1>9. ReceivedOrder'
    BY <1>0, <1>1, <1>5 DEF EmitOrder, ReceivedOrder, Subs
  <1> QED
    BY <1>3, <1>7, <1>8, <1>9 DEF EmitOrder

LEMMA PullOrder ==
    ASSUME TypeOK, EmitOrder, NEW s \in Tails, Pull(s)
    PROVE  EmitOrder'
  <1> DEFINE h == Head(chan[s])
  <1>0. /\ s \in Subs /\ hold \in [Tails -> Event \cup {NoEvent}] /\ chan \in [Subs -> Seq(Event)]
        /\ chan[s] \in Seq(Event) /\ chan[s] # <<>> /\ hold[s] = NoEvent
        /\ chan' = [chan EXCEPT ![s] = Tail(chan[s])]
        /\ hold' = [hold EXCEPT ![s] = IF SourceOf[s] \in {0, h.src} THEN h ELSE NoEvent]
        /\ UNCHANGED <<pc, ev, created, log, received>>
    BY DEF Subs, TypeOK, TailTypeOK, BusTypeOK, Pull, emitVars, storeVars
  <1>1. NoNewEmit
    BY <1>0 DEF NoNewEmit
  <1>2. Numbered'
    BY <1>0, <1>1, KeepsNumbered DEF EmitOrder
  <1>3. /\ 1 \in DOMAIN chan[s] /\ h = chan[s][1]
        /\ \A i \in DOMAIN chan'[s] :
              i \in Nat /\ 1 < i + 1 /\ i + 1 \in DOMAIN chan[s] /\ chan'[s][i] = chan[s][i + 1]
    <2>1. /\ Tail(chan[s]) \in Seq(Event)
          /\ Len(Tail(chan[s])) = Len(chan[s]) - 1
          /\ \A j \in 1 .. Len(Tail(chan[s])) : Tail(chan[s])[j] = chan[s][j + 1]
      BY <1>0, HeadTailProperties
    <2>2. DOMAIN chan[s] = 1 .. Len(chan[s]) /\ Len(chan[s]) \in Nat /\ Len(chan[s]) # 0
      BY <1>0
    <2>3. chan'[s] = Tail(chan[s]) /\ DOMAIN Tail(chan[s]) = 1 .. Len(Tail(chan[s]))
      BY <1>0, <2>1
    <2> QED
      BY <1>0, <2>1, <2>2, <2>3
  <1>4. \A x \in Subs : x # s => chan'[x] = chan[x]
    BY <1>0
  <1>5. ChanOrder'
    <2>1. ASSUME NEW x \in Subs, NEW i \in DOMAIN chan'[x], NEW j \in DOMAIN chan'[x], i < j
          PROVE  Earlier(chan'[x][i], chan'[x][j])
      <3>1. CASE x = s
        <4>1. i + 1 < j + 1
          BY <1>3, <2>1, <3>1
        <4> QED
          BY <1>0, <1>3, <2>1, <3>1, <4>1 DEF EmitOrder, ChanOrder
      <3>2. CASE x # s
        BY <1>4, <2>1, <3>2 DEF EmitOrder, ChanOrder
      <3> QED
        BY <3>1, <3>2
    <2>2. ASSUME NEW x \in Subs, NEW i \in DOMAIN chan'[x], NEW u \in Emitters, pc'[u] # "idle"
          PROVE  Earlier(chan'[x][i], ev'[u])
      <3>1. CASE x = s
        BY <1>0, <1>3, <2>2, <3>1 DEF EmitOrder, ChanOrder
      <3>2. CASE x # s
        BY <1>0, <1>4, <2>2, <3>2 DEF EmitOrder, ChanOrder
      <3> QED
        BY <3>1, <3>2
    <2> QED
      BY <2>1, <2>2 DEF ChanOrder
  <1>6. HoldOrder'
    <2>1. ASSUME NEW x \in Tails, hold'[x] # NoEvent
          PROVE  /\ SourceOf[x] \in {0, hold'[x].src}
                 /\ \A j \in DOMAIN chan'[x] : Earlier(hold'[x], chan'[x][j])
                 /\ \A u \in Emitters : pc'[u] # "idle" => Earlier(hold'[x], ev'[u])
      <3>1. CASE x = s
        <4>1. hold'[x] = h /\ SourceOf[x] \in {0, h.src}
          BY <1>0, <2>1, <3>1
        <4> QED
          BY <1>0, <1>3, <3>1, <4>1 DEF EmitOrder, ChanOrder
      <3>2. CASE x # s
        BY <1>0, <2>1, <3>2 DEF EmitOrder, HoldOrder, Subs
      <3> QED
        BY <3>1, <3>2
    <2> QED
      BY <2>1 DEF HoldOrder
  <1>7. ReceivedOrder'
    <2>1. ASSUME NEW x \in Tails, NEW i \in DOMAIN received'[x]
          PROVE  /\ hold'[x] # NoEvent => Earlier(received'[x][i], hold'[x])
                 /\ \A j \in DOMAIN chan'[x] : Earlier(received'[x][i], chan'[x][j])
      <3>1. CASE x = s
        BY <1>0, <1>3, <2>1, <3>1 DEF EmitOrder, ReceivedOrder
      <3>2. CASE x # s
        BY <1>0, <2>1, <3>2 DEF EmitOrder, ReceivedOrder, Subs
      <3> QED
        BY <3>1, <3>2
    <2> QED
      BY <1>0, <2>1 DEF EmitOrder, ReceivedOrder
  <1> QED
    BY <1>2, <1>5, <1>6, <1>7 DEF EmitOrder

LEMMA ReceiveOrder ==
    ASSUME TypeOK, EmitOrder, NEW s \in Tails, Receive(s)
    PROVE  EmitOrder'
  <1>0. /\ hold \in [Tails -> Event \cup {NoEvent}] /\ received \in [Tails -> Seq(Event)]
        /\ hold[s] # NoEvent /\ hold[s] \in Event
        /\ received' = [received EXCEPT ![s] = Append(received[s], hold[s])]
        /\ hold' = [hold EXCEPT ![s] = NoEvent]
        /\ UNCHANGED <<pc, ev, created, log, chan>>
    BY DEF TypeOK, TailTypeOK, Receive, emitVars, storeVars, busVars
  <1>1. NoNewEmit
    BY <1>0 DEF NoNewEmit
  <1>2. Numbered' /\ ChanOrder'
    BY <1>0, <1>1, KeepsNumbered, KeepsChanOrder DEF EmitOrder
  <1>3. HoldOrder'
    BY <1>0 DEF EmitOrder, HoldOrder
  <1>4. ASSUME NEW x \in Tails, NEW i \in DOMAIN received'[x]
        PROVE  /\ \A j \in DOMAIN received'[x] : i < j => Earlier(received'[x][i], received'[x][j])
               /\ hold'[x] # NoEvent => Earlier(received'[x][i], hold'[x])
               /\ \A j \in DOMAIN chan'[x] : Earlier(received'[x][i], chan'[x][j])
               /\ \A u \in Emitters : pc'[u] # "idle" => Earlier(received'[x][i], ev'[u])
    <2>1. CASE x # s
      BY <1>0, <1>4, <2>1 DEF EmitOrder, ReceivedOrder
    <2>2. CASE x = s
      <3>1. received[s] \in Seq(Event) /\ received'[s] = Append(received[s], hold[s])
            /\ hold'[s] = NoEvent
        BY <1>0
      <3>2. ASSUME NEW j \in DOMAIN received'[s]
            PROVE  \/ j \in DOMAIN received[s] /\ received'[s][j] = received[s][j] /\ j <= Len(received[s])
                   \/ j = Len(received[s]) + 1 /\ received'[s][j] = hold[s]
        BY <1>0, <3>1, <3>2
      <3>3. CASE i \in DOMAIN received[s]
        BY <1>0, <2>2, <3>1, <3>2, <3>3 DEF EmitOrder, ReceivedOrder
      <3>4. CASE i \notin DOMAIN received[s]
        <4>1. i = Len(received[s]) + 1 /\ received'[s][i] = hold[s]
          BY <1>4, <2>2, <3>2, <3>4
        <4>2. \A j \in DOMAIN received'[s] : ~(i < j)
          BY <3>1, <4>1
        <4> QED
          BY <1>0, <2>2, <3>1, <4>1, <4>2 DEF EmitOrder, HoldOrder
      <3> QED
        BY <3>3, <3>4
    <2> QED
      BY <2>1, <2>2
  <1>5. ReceivedOrder'
    BY <1>4 DEF ReceivedOrder
  <1> QED
    BY <1>2, <1>3, <1>5 DEF EmitOrder

LEMMA EmitOrderNext ==
    ASSUME TypeOK, Durability, EmitOrder, [Next]_vars
    PROVE  EmitOrder'
  <1>1. ASSUME UNCHANGED <<pc, ev, created, log, chan, hold, received>> PROVE EmitOrder'
    BY <1>1, KeepsNumbered, KeepsChanOrder, KeepsHoldOrder, KeepsReceivedOrder
       DEF EmitOrder, NoNewEmit
  <1>2. ASSUME NEW p \in Plugins, PluginStep(p) PROVE EmitOrder'
    BY <1>1, <1>2 DEF PluginStep, BeginPlugin, FailPlugin, LaunchPlugin, StartDies, StopDead,
       StartReturns, storeVars, emitVars, busVars, tailVars
  <1>3. ASSUME NEW t \in Emitters, AppendError(t) \/ RecordHealth(t) PROVE EmitOrder'
    <2>1. pc \in [Emitters -> {"idle", "append", "record", "publish"}]
          /\ ev \in [Emitters -> Event \cup {NoEvent}]
      BY DEF TypeOK, EmitTypeOK
    <2>2. UNCHANGED <<log, created, chan, hold, received>>
      BY <1>3 DEF AppendError, RecordHealth, storeVars, busVars, tailVars
    <2>3. NoNewEmit /\ \A u \in Emitters : pc'[u] = "append" => pc[u] = "append"
      BY <1>3, <2>1 DEF AppendError, RecordHealth, NoNewEmit
    <2> QED
      BY <2>2, <2>3, KeepsNumbered, KeepsChanOrder, KeepsHoldOrder, KeepsReceivedOrder
         DEF EmitOrder
  <1>4. ASSUME NEW t \in Emitters, BeginEmit(t) \/ EmitStep(t) PROVE EmitOrder'
    BY <1>3, <1>4, BeginEmitOrder, AppendEventOrder, PublishOrder DEF EmitStep
  <1>5. ASSUME NEW s \in Subs, BusStep(s) PROVE EmitOrder'
    BY <1>1, <1>5 DEF BusStep, Subscribe, Cancel, Unsubscribe, storeVars, emitVars, busVars, tailVars
  <1>6. ASSUME NEW s \in Tails, PumpExit(s) PROVE EmitOrder'
    <2>1. UNCHANGED <<pc, ev, created, log, chan, received>>
          /\ hold' = [hold EXCEPT ![s] = NoEvent] /\ hold \in [Tails -> Event \cup {NoEvent}]
      BY <1>6 DEF PumpExit, storeVars, emitVars, busVars, TypeOK, TailTypeOK
    <2>2. Numbered' /\ ChanOrder'
      BY <2>1, KeepsNumbered, KeepsChanOrder DEF EmitOrder, NoNewEmit
    <2>3. HoldOrder' /\ ReceivedOrder'
      BY <2>1 DEF EmitOrder, HoldOrder, ReceivedOrder
    <2> QED
      BY <2>2, <2>3 DEF EmitOrder
  <1>7. ASSUME NEW s \in Tails, TailStep(s) PROVE EmitOrder'
    BY <1>6, <1>7, PullOrder, ReceiveOrder DEF TailStep
  <1>8. CASE ServeStep
    BY <1>1, <1>8 DEF ServeStep, Signal, ListenFails, HTTPShutdown, StopStores, JoinPlugins,
       SupervisorExited, JoinDeadline, storeVars, emitVars, busVars, tailVars
  <1>9. CASE Tick \/ Crash
    BY <1>1, <1>9 DEF Tick, Crash, storeVars, emitVars, busVars, tailVars
  <1>10. CASE Reboot
    <2>1. /\ pc' = [t \in Emitters |-> "idle"] /\ UNCHANGED <<log, created, received>>
          /\ chan' = [s \in Subs |-> <<>>] /\ hold' = [s \in Tails |-> NoEvent]
      BY <1>10 DEF Reboot
    <2>2. Numbered'
      BY <2>1, KeepsNumbered DEF EmitOrder, NoNewEmit
    <2>3. ChanOrder' /\ HoldOrder' /\ ReceivedOrder'
      BY <2>1 DEF EmitOrder, ChanOrder, HoldOrder, ReceivedOrder, Subs
    <2> QED
      BY <2>2, <2>3 DEF EmitOrder
  <1>11. CASE UNCHANGED vars
    BY <1>1, <1>11 DEF vars, storeVars, emitVars, busVars, tailVars
  <1> QED
    BY <1>2, <1>4, <1>5, <1>7, <1>8, <1>9, <1>10, <1>11 DEF Next

LEMMA EmitOrderInit == Init => EmitOrder
  <1> SUFFICES ASSUME Init PROVE EmitOrder
    OBVIOUS
  <1>1. Durable = {}
    BY DEF Init, Durable
  <1> QED
    BY <1>1 DEF Init, EmitOrder, Numbered, ChanOrder, HoldOrder, ReceivedOrder, Subs

\* EventsChannel over the bus: whatever is dropped at full channels, filtered
\* or cut off by cancels and crashes, a client receives the events of any one
\* goroutine in the order that goroutine emitted them.
THEOREM TailInOrder == Spec => []TailKeepsEmitOrder
  <1>1. EmitOrder => TailKeepsEmitOrder
    BY DEF EmitOrder, ReceivedOrder, TailKeepsEmitOrder, Earlier
  <1> QED
    BY <1>1, EmitOrderInit, EmitOrderNext, DurabilityInit, DurabilityNext, TypeCorrect, PTL DEF Spec

----------------------------------------------------------------------------
(* The core implements the durable tail. *)

LEMMA OnlyReceiveDelivers ==
    ASSUME [Next]_vars
    PROVE  UNCHANGED received \/ \E s \in Tails : Receive(s)
  <1>1. ASSUME NEW p \in Plugins, PluginStep(p) PROVE UNCHANGED received
    BY <1>1 DEF PluginStep, BeginPlugin, FailPlugin, LaunchPlugin, StartDies, StopDead,
                StartReturns, tailVars
  <1>2. ASSUME NEW t \in Emitters, BeginEmit(t) \/ EmitStep(t) PROVE UNCHANGED received
    BY <1>2 DEF EmitStep, BeginEmit, AppendEvent, AppendError, RecordHealth, Publish, tailVars
  <1>3. ASSUME NEW s \in Subs, BusStep(s) PROVE UNCHANGED received
    BY <1>3 DEF BusStep, Subscribe, Cancel, Unsubscribe, tailVars
  <1>4. ASSUME NEW s \in Tails, TailStep(s), ~Receive(s) PROVE UNCHANGED received
    BY <1>4 DEF TailStep, Pull, PumpExit
  <1>5. CASE ServeStep
    BY <1>5 DEF ServeStep, Signal, ListenFails, HTTPShutdown, StopStores, JoinPlugins,
                SupervisorExited, JoinDeadline, tailVars
  <1>6. CASE Tick \/ Crash \/ Reboot
    BY <1>6 DEF Tick, Crash, Reboot, tailVars
  <1>7. CASE UNCHANGED vars
    BY <1>7 DEF vars, tailVars
  <1> QED
    BY <1>1, <1>2, <1>3, <1>4, <1>5, <1>6, <1>7 DEF Next

\* Every step of the core is a step of the durable tail or none of its
\* business: an append commits an event that was not committed before, and a
\* client takes a committed event of its source that it has not taken before.
LEMMA StepSimulates ==
    ASSUME TypeOK, Durability, EmitOrder, [Next]_vars
    PROVE  [DT!Next]_(DT!tailVars)
  <1>0. DT!Committed = Durable
    BY DEF DT!Committed, Durable
  <1>1. ASSUME NEW t \in Emitters, AppendEvent(t) PROVE DT!Next
    <2> DEFINE p == t[1]
    <2>1. /\ p \in Plugins /\ ev[t] \in Event /\ log \in [Plugins -> Seq(Event)]
          /\ pc[t] = "append" /\ ev[t].src = p
          /\ log' = [log EXCEPT ![p] = Append(log[p], ev[t])]
          /\ UNCHANGED received
      BY <1>1 DEF AppendEvent, Emitters, TypeOK, EmitTypeOK, StoreTypeOK, tailVars, EmitOrder, Numbered
    <2>2. ev[t] \notin Durable
      BY <2>1 DEF EmitOrder, Numbered
    <2>3. log'[p] # log[p]
      <3>1. Len(log'[p]) = Len(log[p]) + 1 /\ Len(log[p]) \in Nat
        BY <2>1
      <3> QED
        BY <3>1
    <2>4. DT!Commit(p, ev[t])
      BY <1>0, <2>1, <2>2 DEF DT!Commit
    <2> QED
      BY <2>1, <2>3, <2>4 DEF DT!Next
  <1>2. ASSUME NEW s \in Tails, Receive(s) PROVE DT!Next
    <2>1. /\ received \in [Tails -> Seq(Event)] /\ hold[s] \in Event /\ hold[s] # NoEvent
          /\ received' = [received EXCEPT ![s] = Append(received[s], hold[s])]
          /\ UNCHANGED log
      BY <1>2 DEF Receive, TypeOK, TailTypeOK, storeVars
    <2>2. hold[s] \in Durable /\ SourceOf[s] \in {0, hold[s].src}
      BY <2>1 DEF Durability, HoldDurable, EmitOrder, HoldOrder
    <2>3. hold[s] \notin DT!Delivered(s)
      <3>1. \A i \in DOMAIN received[s] : Earlier(received[s][i], hold[s])
        BY <2>1 DEF EmitOrder, ReceivedOrder
      <3>2. hold[s].id \in Nat
        BY <2>2, NumbersAreNat
      <3>3. \A i \in DOMAIN received[s] : received[s][i] # hold[s]
        BY <3>1, <3>2 DEF Earlier
      <3> QED
        BY <3>3 DEF DT!Delivered
    <2>4. received'[s] # received[s]
      <3>1. Len(received'[s]) = Len(received[s]) + 1 /\ Len(received[s]) \in Nat
        BY <2>1
      <3> QED
        BY <3>1
    <2>5. DT!Deliver(s, hold[s])
      BY <1>0, <2>1, <2>2, <2>3 DEF DT!Deliver
    <2> QED
      BY <2>1, <2>4, <2>5 DEF DT!Next
  <1> QED
    BY <1>1, <1>2, OnlyAppendWrites, OnlyReceiveDelivers DEF DT!tailVars

\* The core, with its concurrent emits, bounded channels, pumps, shutdown and
\* crashes, implements the durable tail: commits are unique, and each client
\* is delivered committed events of its source, each at most once.
THEOREM CoreIsDurableTail == Spec => ImplementsDurableTail
  <1>1. Init => DT!Init
    BY DEF Init, DT!Init
  <1> QED
    BY <1>1, StepSimulates, EmitOrderInit, EmitOrderNext, DurabilityInit, DurabilityNext,
       TypeCorrect, PTL DEF Spec, ImplementsDurableTail, DT!Spec

----------------------------------------------------------------------------
(* The core with pluginLag streams on its bus. *)

HubInv == TypeOK /\ DeadIsForced /\ JoinOrder /\ RingIsNewest /\ Durability /\ EmitOrder

\* A lag stream touches the core only where it takes an envelope off its own
\* bus channel.
LEMMA LagSteps ==
    ASSUME [LagNext]_lagVars
    PROVE  [Next]_vars \/ \E w \in Watchers : PushOnEvent(w)
  BY DEF LagNext, lagVars, HubStep, PushOnTick, TakeStatus, StreamEnds

\* A subscriber's channel with its first envelope taken.
LEMMA TakenOff ==
    ASSUME BusTypeOK, NEW s \in Subs, chan[s] # <<>>, chan' = [chan EXCEPT ![s] = Tail(@)]
    PROVE  /\ chan' \in [Subs -> Seq(Event)]
           /\ Len(chan'[s]) <= SubBuffer
           /\ \A x \in Subs : x # s => chan'[x] = chan[x]
           /\ \A i \in DOMAIN chan'[s] :
                 i \in Nat /\ i + 1 \in DOMAIN chan[s] /\ chan'[s][i] = chan[s][i + 1]
  <1>1. chan \in [Subs -> Seq(Event)] /\ chan[s] \in Seq(Event) /\ Len(chan[s]) <= SubBuffer
    BY DEF BusTypeOK
  <1>2. chan'[s] = Tail(chan[s]) /\ \A x \in Subs : x # s => chan'[x] = chan[x]
    BY <1>1
  <1>3. /\ Tail(chan[s]) \in Seq(Event)
        /\ Len(Tail(chan[s])) = Len(chan[s]) - 1
        /\ \A j \in 1 .. Len(Tail(chan[s])) : Tail(chan[s])[j] = chan[s][j + 1]
    BY <1>1, HeadTailProperties
  <1>4. DOMAIN chan[s] = 1 .. Len(chan[s]) /\ Len(chan[s]) \in Nat
    BY <1>1
  <1>5. DOMAIN Tail(chan[s]) = 1 .. Len(Tail(chan[s]))
    BY <1>3
  <1> QED
    BY <1>1, <1>2, <1>3, <1>4, <1>5, HubAssumption

LEMMA PushKeepsHub ==
    ASSUME HubInv, NEW w \in Watchers, PushOnEvent(w)
    PROVE  HubInv'
  <1>1. /\ w \in Subs /\ chan[w] # <<>> /\ chan' = [chan EXCEPT ![w] = Tail(@)] /\ BusTypeOK
        /\ UNCHANGED <<procVars, clock, healthVars, storeVars, emitVars, sub, tailVars>>
    BY DEF PushOnEvent, Subs, HubInv, TypeOK
  <1>2. /\ chan' \in [Subs -> Seq(Event)]
        /\ Len(chan'[w]) <= SubBuffer
        /\ \A x \in Subs : x # w => chan'[x] = chan[x]
        /\ \A i \in DOMAIN chan'[w] :
              i \in Nat /\ i + 1 \in DOMAIN chan[w] /\ chan'[w][i] = chan[w][i + 1]
    BY <1>1, TakenOff
  <1>3. TypeOK'
    <2>1. BusTypeOK'
      BY <1>1, <1>2 DEF BusTypeOK
    <2> QED
      BY <1>1, <2>1, KeepsProc, KeepsHealth, KeepsStore, KeepsEmit, KeepsTail DEF HubInv, TypeOK
  <1>4. DeadIsForced' /\ JoinOrder' /\ RingIsNewest'
    BY <1>1 DEF HubInv, DeadIsForced, JoinOrder, RingIsNewest, procVars, healthVars, storeVars
  <1>5. /\ UNCHANGED <<pc, ev, created, log, hold, received, last>>
        /\ \A s \in Subs : \A i \in DOMAIN chan'[s] : \E k \in DOMAIN chan[s] : chan'[s][i] = chan[s][k]
    BY <1>1, <1>2 DEF emitVars, storeVars, tailVars, healthVars
  <1>6. Durability'
    <2>1. Durable' = Durable
      BY <1>5 DEF Durable
    <2>2. EmitDurable' /\ HoldDurable' /\ ReceivedDurable' /\ LastDurable'
      BY <1>5, <2>1, KeepsEmitDurable, KeepsHoldDurable, KeepsReceivedDurable, KeepsLastDurable
         DEF HubInv, Durability
    <2>3. ChanDurable'
      BY <1>5, <2>1 DEF HubInv, Durability, ChanDurable
    <2> QED
      BY <2>2, <2>3 DEF Durability
  <1>7. EmitOrder'
    <2>1. NoNewEmit
      BY <1>5 DEF NoNewEmit
    <2>2. Numbered'
      BY <1>5, <2>1, KeepsNumbered DEF HubInv, EmitOrder
    <2>3. HoldOrder' /\ ReceivedOrder'
      <3>1. \A s \in Tails : \A i \in DOMAIN chan'[s] : \E k \in DOMAIN chan[s] : chan'[s][i] = chan[s][k]
        BY <1>5 DEF Subs
      <3> QED
        BY <1>5, <3>1 DEF HubInv, EmitOrder, HoldOrder, ReceivedOrder
    <2>4. ASSUME NEW x \in Subs, NEW i \in DOMAIN chan'[x]
          PROVE  /\ \A j \in DOMAIN chan'[x] : i < j => Earlier(chan'[x][i], chan'[x][j])
                 /\ \A t \in Emitters : pc'[t] # "idle" => Earlier(chan'[x][i], ev'[t])
      <3>1. CASE x = w
        <4>1. \A j \in DOMAIN chan'[x] : i < j => i + 1 < j + 1
          BY <1>2, <2>4, <3>1
        <4> QED
          BY <1>1, <1>2, <1>5, <2>4, <3>1, <4>1 DEF HubInv, EmitOrder, ChanOrder
      <3>2. CASE x # w
        BY <1>2, <1>5, <2>4, <3>2 DEF HubInv, EmitOrder, ChanOrder
      <3> QED
        BY <3>1, <3>2
    <2>5. ChanOrder'
      BY <2>4 DEF ChanOrder
    <2> QED
      BY <2>2, <2>3, <2>5 DEF EmitOrder
  <1> QED
    BY <1>3, <1>4, <1>6, <1>7 DEF HubInv

LEMMA HubInvInit == Init => HubInv
  <1> SUFFICES ASSUME Init PROVE HubInv
    OBVIOUS
  <1>1. DeadIsForced
    BY DEF Init, DeadIsForced
  <1>2. JoinOrder
    BY DEF Init, JoinOrder
  <1>3. RingIsNewest
    BY HubAssumption DEF Init, RingIsNewest, Newest
  <1> QED
    BY <1>1, <1>2, <1>3, TypeInit, DurabilityInit, EmitOrderInit DEF HubInv

LEMMA LagKeepsHub == HubInv /\ [LagNext]_lagVars => HubInv'
  <1> SUFFICES ASSUME HubInv, [LagNext]_lagVars PROVE HubInv'
    OBVIOUS
  <1>1. CASE [Next]_vars
    BY <1>1, TypeNext, DeadIsForcedNext, JoinOrderNext, RingNext, DurabilityNext, EmitOrderNext DEF HubInv
  <1> QED
    BY <1>1, LagSteps, PushKeepsHub

LEMMA LagSimulates ==
    ASSUME HubInv, [LagNext]_lagVars
    PROVE  [DT!Next]_(DT!tailVars)
  <1>1. CASE [Next]_vars
    BY <1>1, StepSimulates DEF HubInv
  <1>2. ASSUME NEW w \in Watchers, PushOnEvent(w) PROVE UNCHANGED DT!tailVars
    BY <1>2 DEF PushOnEvent, storeVars, tailVars, DT!tailVars
  <1> QED
    BY <1>1, <1>2, LagSteps

\* Streams of plugin lag on the bus, which read at their clients' pace, take
\* envelopes off their own channels and are cancelled and cut by crashes like
\* any other subscription, disturb nothing the core promises: types and
\* bounds, no false green, the newest rows in the ring, nothing shown before
\* it is durable, and each goroutine's order in every tail.
THEOREM LagLeavesHub ==
    LagSpec => [](TypeOK /\ DeadReadsStale /\ CleanExitJoins /\ RingIsNewest /\ NothingBeforeDurable
                  /\ TailKeepsEmitOrder)
  <1>1. LagInit => HubInv
    BY HubInvInit DEF LagInit
  <1>2. HubInv => /\ TypeOK /\ DeadReadsStale /\ CleanExitJoins /\ RingIsNewest /\ NothingBeforeDurable
                  /\ TailKeepsEmitOrder
    BY DEF HubInv, DeadIsForced, DeadReadsStale, HealthState, JoinOrder, CleanExitJoins, Durability, ChanDurable,
           HoldDurable, ReceivedDurable, LastDurable, NothingBeforeDurable, EmitOrder, ReceivedOrder,
           TailKeepsEmitOrder, Earlier
  <1> QED
    BY <1>1, <1>2, LagKeepsHub, PTL DEF LagSpec

\* And the core with those streams still implements the durable tail.
THEOREM LagIsDurableTail == LagSpec => ImplementsDurableTail
  <1>1. LagInit => HubInv /\ DT!Init
    BY HubInvInit DEF LagInit, Init, DT!Init
  <1> QED
    BY <1>1, LagKeepsHub, LagSimulates, PTL DEF LagSpec, ImplementsDurableTail, DT!Spec
=============================================================================
