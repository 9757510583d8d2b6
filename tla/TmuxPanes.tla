----------------------------- MODULE TmuxPanes -----------------------------
(***************************************************************************)
(* The tmux plugin: the reconcile loop, which lists sessions and panes and *)
(* brings the two tables and the event stream in line with them, and the   *)
(* control-mode watcher, which attaches to the server, asks for reconciles *)
(* and announces a server that is gone. The two goroutines write the same  *)
(* tables, one SQL statement at a time, without coordination.              *)
(*                                                                         *)
(* A pane is abstracted to the command it runs (what free and busy are     *)
(* derived from).                                                          *)
(***************************************************************************)
EXTENDS Integers, FiniteSets

CONSTANTS
    Panes,          \* pane keys
    SessionOf,      \* SessionOf[p]: the session pane p belongs to
    Cmds,           \* commands a pane may run
    Views,          \* the states of the server in play: what each pane runs, or None
    None,           \* no such pane or row
    MaxFlips,       \* bound: changes of the tmux server
    MaxErrors       \* bound: failed statements, commands and restarts

Sessions == {SessionOf[p] : p \in Panes}
Row      == [cmd : Cmds, stale : BOOLEAN]
View     == [Panes -> Cmds \cup {None}]

ASSUME TmuxAssumption ==
    /\ Panes # {} /\ Views \subseteq View /\ None \notin Cmds /\ None \notin Row
    /\ MaxFlips \in Nat /\ MaxErrors \in Nat

VARIABLES
    live,       \* the watched tmux server runs
    world,      \* world[p]: what pane p runs there, or None
    pane,       \* pane[p]: the tmux_panes row of p, or None
    sess,       \* sess[s]: the tmux_sessions row: "none", "live", "stale"
    rpc,        \* reconcile: "wait", "list", "panes", "prev", "sess",
                \* "upsert", "gone", "fail", "failsess"
    lsess,      \* the sessions it listed
    lpane,      \* the panes it listed
    prev,       \* the live rows it read before writing
    todo,       \* sessions or panes it has still to write
    say,        \* the pane it has still to emit an event for
    trigger,    \* the reconcile trigger is pending (a channel of one)
    wpc,        \* watch: "probe", "attach", "held", "lost", "mark",
                \* "marksess", "tell", "sleep"
    wup,        \* watch's up flag
    flips, errs,
    told,       \* told[p]: what the event stream last said p runs (history)
    quiet       \* server.down was emitted by this process and no session
                \* was held since (history)

srvVars   == <<live, world>>
tabVars   == <<pane, sess>>
recVars   == <<rpc, lsess, lpane, prev, todo, say>>
watchVars == <<wpc, wup, quiet>>
vars == <<srvVars, tabVars, recVars, trigger, watchVars, flips, errs, told>>

Nowhere == [p \in Panes |-> None]

Init ==
    /\ world \in Views /\ live = (world # Nowhere)     \* the server may already run
    /\ pane = Nowhere /\ sess = [s \in Sessions |-> "none"]
    /\ rpc = "list"
    /\ lsess = {} /\ lpane = Nowhere /\ prev = Nowhere /\ todo = {} /\ say = {}
    /\ trigger = FALSE
    /\ wpc = "probe" /\ wup = TRUE /\ quiet = FALSE
    /\ flips = 0 /\ errs = 0
    /\ told = Nowhere

Flip == flips < MaxFlips /\ flips' = flips + 1
Fail == errs < MaxErrors /\ errs' = errs + 1

\* reconcile returns, or goes on without what it listed: its locals are gone.
Forget == lsess' = {} /\ lpane' = Nowhere /\ prev' = Nowhere

----------------------------------------------------------------------------
(* The tmux server (external). It ends with its last pane. *)

ServerChanges ==
    /\ Flip
    /\ world' \in Views \ {world}
    /\ live' = (world' # Nowhere)
    /\ UNCHANGED <<tabVars, recVars, trigger, watchVars, errs, told>>

----------------------------------------------------------------------------
(* reconcile. *)

\* The ticker, or the trigger.
StartPoll ==
    /\ rpc = "wait"
    /\ rpc' = "list"
    /\ trigger' \in {trigger, FALSE}
    /\ UNCHANGED <<srvVars, tabVars, lsess, lpane, prev, todo, say, watchVars, flips, errs, told>>

ListSessions ==
    /\ rpc = "list" /\ live
    /\ lsess' = {SessionOf[p] : p \in {q \in Panes : world[q] # None}}
    /\ rpc' = "panes"
    /\ UNCHANGED <<srvVars, tabVars, lpane, prev, todo, say, trigger, watchVars, flips, errs, told>>

ListPanes ==
    /\ rpc = "panes" /\ live
    /\ lpane' = world
    /\ rpc' = "prev"
    /\ UNCHANGED <<srvVars, tabVars, lsess, prev, todo, say, trigger, watchVars, flips, errs, told>>

ListFailsQuietly ==
    /\ rpc \in {"list", "panes"}
    /\ IF live THEN Fail ELSE UNCHANGED errs
    /\ rpc' = "wait"
    /\ Forget
    /\ UNCHANGED <<srvVars, tabVars, todo, say, trigger, watchVars, flips, told>>

\* A command failed: no server, or it did not answer. Everything goes stale.
ListFails ==
    /\ rpc \in {"list", "panes"}
    /\ IF live THEN Fail ELSE UNCHANGED errs
    /\ rpc' = "fail"
    /\ Forget
    /\ UNCHANGED <<srvVars, tabVars, todo, say, trigger, watchVars, flips, told>>

StaleRows == [p \in Panes |-> IF pane[p] = None THEN None ELSE [pane[p] EXCEPT !.stale = TRUE]]
StaleSessions == [s \in Sessions |-> IF sess[s] = "live" THEN "stale" ELSE sess[s]]

\* markAllStale in reconcile: panes, then sessions; no event.
PollMarksPanes ==
    /\ rpc = "fail"
    /\ pane' = StaleRows
    /\ rpc' = "failsess"
    /\ UNCHANGED <<srvVars, sess, lsess, lpane, prev, todo, say, trigger, watchVars, flips, errs, told>>

PollMarksSessions ==
    /\ rpc = "failsess"
    /\ sess' = StaleSessions
    /\ rpc' = "wait"
    /\ UNCHANGED <<srvVars, pane, lsess, lpane, prev, todo, say, trigger, watchVars, flips, errs, told>>

\* livePaneRows.
ReadPrev ==
    /\ rpc = "prev"
    /\ prev' = [p \in Panes |-> IF pane[p] # None /\ ~pane[p].stale THEN pane[p].cmd ELSE None]
    /\ rpc' = "sess"
    /\ todo' = lsess /\ lsess' = {}
    /\ UNCHANGED <<srvVars, tabVars, lpane, say, trigger, watchVars, flips, errs, told>>

UpsertSession(s) ==
    /\ rpc = "sess" /\ s \in todo
    /\ sess' = [sess EXCEPT ![s] = "live"]
    /\ todo' = todo \ {s}
    /\ UNCHANGED <<srvVars, pane, rpc, lsess, lpane, prev, say, trigger, watchVars, flips, errs, told>>

SessionsStored ==
    /\ rpc = "sess" /\ todo = {}
    /\ rpc' = "upsert"
    /\ todo' = {p \in Panes : lpane[p] # None}
    /\ UNCHANGED <<srvVars, tabVars, lsess, lpane, prev, say, trigger, watchVars, flips, errs, told>>

UpsertKeepsCommand(p) ==
    /\ rpc = "upsert" /\ p \in todo /\ say = {}
    /\ pane' = [pane EXCEPT ![p] = [cmd |-> IF @ = None THEN lpane[p] ELSE @.cmd, stale |-> FALSE]]
    /\ todo' = todo \ {p}
    /\ say' = IF prev[p] # lpane[p] THEN {p} ELSE {}
    /\ UNCHANGED <<srvVars, sess, rpc, lsess, lpane, prev, trigger, watchVars, flips, errs, told>>

\* A new pane, or one that changed since prev, is announced after its upsert.
UpsertPane(p) ==
    /\ rpc = "upsert" /\ p \in todo /\ say = {}
    /\ pane' = [pane EXCEPT ![p] = [cmd |-> lpane[p], stale |-> FALSE]]
    /\ todo' = todo \ {p}
    /\ say' = IF prev[p] # lpane[p] THEN {p} ELSE {}
    /\ UNCHANGED <<srvVars, sess, rpc, lsess, lpane, prev, trigger, watchVars, flips, errs, told>>

PanesStored ==
    /\ rpc = "upsert" /\ todo = {} /\ say = {}
    /\ rpc' = "gone"
    /\ todo' = {p \in Panes : prev[p] # None /\ lpane[p] = None}
    /\ prev' = Nowhere
    /\ UNCHANGED <<srvVars, tabVars, lsess, lpane, say, trigger, watchVars, flips, errs, told>>

ClosesQuietly(p) ==
    /\ rpc = "gone" /\ p \in todo /\ say = {}
    /\ pane' = [pane EXCEPT ![p] = IF @ = None THEN None ELSE [@ EXCEPT !.stale = TRUE]]
    /\ todo' = todo \ {p}
    /\ UNCHANGED <<srvVars, sess, rpc, lsess, lpane, prev, say, trigger, watchVars, flips, errs, told>>

\* markPaneStale for a pane that vanished.
ClosePane(p) ==
    /\ rpc = "gone" /\ p \in todo /\ say = {}
    /\ pane' = [pane EXCEPT ![p] = IF @ = None THEN None ELSE [@ EXCEPT !.stale = TRUE]]
    /\ todo' = todo \ {p}
    /\ say' = {p}
    /\ UNCHANGED <<srvVars, sess, rpc, lsess, lpane, prev, trigger, watchVars, flips, errs, told>>

\* tmux.pane.updated or tmux.pane.closed; an error of emit is ignored.
TellPane(p) ==
    /\ p \in say
    /\ \/ told' = [told EXCEPT ![p] = lpane[p]] /\ UNCHANGED errs
       \/ UNCHANGED told /\ Fail
    /\ say' = {}
    /\ UNCHANGED <<srvVars, tabVars, rpc, lsess, lpane, prev, todo, trigger, watchVars, flips>>

\* tmux.snapshot and the cursor.
PollDone ==
    /\ rpc = "gone" /\ todo = {} /\ say = {}
    /\ rpc' = "wait"
    /\ Forget
    /\ UNCHANGED <<srvVars, tabVars, todo, say, trigger, watchVars, flips, errs, told>>

\* A statement fails: the reconcile returns until the next one.
PollFails ==
    /\ rpc \in {"prev", "sess", "upsert", "gone", "fail", "failsess"} /\ say = {} /\ Fail
    /\ rpc \in {"sess", "upsert", "gone"} => todo # {}
    /\ rpc' = "wait"
    /\ todo' = {}
    /\ Forget
    /\ UNCHANGED <<srvVars, tabVars, say, trigger, watchVars, flips, told>>

----------------------------------------------------------------------------
(* watch. *)

\* probeAlive: a read-only command, never an attach.
Probe ==
    /\ wpc = "probe"
    /\ \/ wpc' = (IF live THEN "attach" ELSE "lost") /\ UNCHANGED errs
       \/ live /\ Fail /\ wpc' = "lost"
    /\ UNCHANGED <<srvVars, tabVars, recVars, trigger, wup, quiet, flips, told>>

\* The client starts and asks for a reconcile; or it cannot be started.
Attach ==
    /\ wpc = "attach"
    /\ \/ wpc' = "held" /\ trigger' = TRUE /\ UNCHANGED errs
       \/ wpc' = "lost" /\ UNCHANGED trigger /\ Fail
    /\ UNCHANGED <<srvVars, tabVars, recVars, wup, quiet, flips, told>>

\* A structural notification: the trigger is set unless it is pending.
Notified ==
    /\ wpc = "held" /\ live /\ ~trigger
    /\ trigger' = TRUE
    /\ UNCHANGED <<srvVars, tabVars, recVars, watchVars, flips, errs, told>>

\* The client ends after minStableAttach: a held session.
HoldEnds ==
    /\ wpc = "held"
    /\ wpc' = "probe"
    /\ wup' = TRUE
    /\ quiet' = FALSE
    /\ UNCHANGED <<srvVars, tabVars, recVars, trigger, flips, errs, told>>

\* The client ends before: no session was held.
AttachFallsOut ==
    /\ wpc = "held"
    /\ wpc' = "lost"
    /\ UNCHANGED <<srvVars, tabVars, recVars, trigger, wup, quiet, flips, errs, told>>

\* Down: announced on the transition only.
Lost ==
    /\ wpc = "lost"
    /\ wpc' = IF wup THEN "mark" ELSE "sleep"
    /\ UNCHANGED <<srvVars, tabVars, recVars, trigger, wup, quiet, flips, errs, told>>

\* serverDown: markAllStale, whose error is ignored, then tmux.server.down.
DownMarksPanes ==
    /\ wpc = "mark"
    /\ \/ pane' = StaleRows /\ wpc' = "marksess" /\ UNCHANGED errs
       \/ UNCHANGED pane /\ wpc' = "tell" /\ Fail
    /\ UNCHANGED <<srvVars, sess, recVars, trigger, wup, quiet, flips, told>>

DownMarksSessions ==
    /\ wpc = "marksess"
    /\ \/ sess' = StaleSessions /\ UNCHANGED errs
       \/ UNCHANGED sess /\ Fail
    /\ wpc' = "tell"
    /\ UNCHANGED <<srvVars, pane, recVars, trigger, wup, quiet, flips, told>>

TellDownKeepsUp ==
    /\ wpc = "tell"
    /\ told' = Nowhere /\ quiet' = TRUE
    /\ wpc' = "sleep"
    /\ UNCHANGED <<srvVars, tabVars, recVars, trigger, wup, flips, errs>>

TellDown ==
    /\ wpc = "tell"
    /\ \/ told' = Nowhere /\ quiet' = TRUE /\ UNCHANGED errs
       \/ UNCHANGED <<told, quiet>> /\ Fail
    /\ wup' = FALSE
    /\ wpc' = "sleep"
    /\ UNCHANGED <<srvVars, tabVars, recVars, trigger, flips>>

\* The reconnect delay, of any length.
Sleep ==
    /\ wpc = "sleep"
    /\ wpc' = "probe"
    /\ UNCHANGED <<srvVars, tabVars, recVars, trigger, wup, quiet, flips, errs, told>>

\* The process restarts: the tables survive; Start begins with a reconcile.
Restart ==
    /\ Fail
    /\ rpc' = "list" /\ todo' = {} /\ say' = {} /\ trigger' = FALSE
    /\ Forget
    /\ wpc' = "probe" /\ wup' = TRUE /\ quiet' = FALSE
    /\ UNCHANGED <<srvVars, tabVars, flips, told>>

----------------------------------------------------------------------------

ReconcileStep ==
    \/ StartPoll
    \/ ListSessions
    \/ ListPanes
    \/ ListFails
    \/ PollMarksPanes
    \/ PollMarksSessions
    \/ ReadPrev
    \/ \E s \in Sessions : UpsertSession(s)
    \/ SessionsStored
    \/ \E p \in Panes : UpsertPane(p)
    \/ PanesStored
    \/ \E p \in Panes : ClosePane(p)
    \/ \E p \in Panes : TellPane(p)
    \/ PollDone
    \/ PollFails

WatchStep ==
    \/ Probe
    \/ Attach
    \/ Lost
    \/ DownMarksPanes
    \/ DownMarksSessions
    \/ TellDown
    \/ Sleep

Next ==
    \/ ServerChanges
    \/ ReconcileStep
    \/ WatchStep
    \/ Notified
    \/ HoldEnds
    \/ AttachFallsOut
    \/ Restart

Spec == Init /\ [][Next]_vars

\* The ticker fires and both goroutines run on; the client of a server that
\* is gone ends. A live one may be held for ever.
Fairness ==
    /\ WF_vars(ReconcileStep)
    /\ WF_vars(WatchStep)
    /\ WF_vars(~live /\ (HoldEnds \/ AttachFallsOut))

FairSpec == Spec /\ Fairness

----------------------------------------------------------------------------
(* Properties. *)

LiveRow(p) == pane[p] # None /\ ~pane[p].stale

\* watch (B1): server.down is not emitted again before a session was held,
\* however often probes and attaches fail in between.
DownSaidOnce == wpc \in {"mark", "marksess", "tell"} => ~quiet

\* AC-TMUX-SERVER-DOWN: no row stays live once the server is gone for good,
\* although a reconcile that listed panes before writes them after serverDown
\* marked everything.
DownRowsGoStale ==
    <>[](~live) => <>[](/\ \A p \in Panes : ~LiveRow(p)
                        /\ \A s \in Sessions : sess[s] # "live")

\* D3: while the server lives and rests, the table shows each pane as it is
\* again and again: opened, changed and closed panes alike, whatever the
\* watcher marked or a failed poll left half written.
PanesConverge ==
    \A p \in Panes :
        <>[]live => []<>(IF world[p] = None THEN ~LiveRow(p)
                         ELSE LiveRow(p) /\ pane[p].cmd = world[p])

\* reconcile's emitPane (AC-TMUX-PANE-DEATH): as long as the server is never
\* gone, no call fails and the watcher finds no cause to announce a server
\* that is down, the events end with each pane as it is, opened and closed
\* panes alike, although polls overlap attaches and triggers.
PanesAreTold ==
    [](live /\ errs = 0 /\ wpc # "mark") =>
        \A p \in Panes : <>[](told[p] = world[p])
=============================================================================
