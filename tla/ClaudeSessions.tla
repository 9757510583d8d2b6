-------------------------- MODULE ClaudeSessions --------------------------
(***************************************************************************)
(* The claude plugin, for one session: lifecycle hooks folded by           *)
(* concurrent HTTP handlers, the transcript tail with its byte-offset      *)
(* cursor, the state-file channel, the pid-liveness sweep and the          *)
(* retention prune, all writing one claude_sessions row and the            *)
(* claude_folds dedup table. Every SQL statement is a step of its own:     *)
(* no transaction spans two of them. Rows of different sessions do not     *)
(* interact.                                                               *)
(*                                                                         *)
(* A transition is one lifecycle event of the session; the same one may be *)
(* seen by hook and in the transcript, and the two sightings are one fold  *)
(* only if they carry the same time stamp. Text fields are left out.       *)
(***************************************************************************)
EXTENDS Integers, Sequences, FiniteSets

CONSTANTS
    Transitions,    \* lifecycle events of the session
    EventOf,        \* EventOf[t]: its hook event name, or "Ask" / "Nag" for
                    \* the two kinds of Notification
    PidOf,          \* PidOf[t]: the pid its hook reports, 0 for none
    ViaHook,        \* transitions a hook POST carries
    ViaLine,        \* transitions the transcript carries
    Stamp,          \* Stamp[s]: the ts that sighting s carries, None if empty
    Lines,          \* the transcript: the tool_use transitions of each record
    Oversized,      \* its records over maxTranscriptLine, by number
    FileStates,     \* states the session's state file shows over time
    FilePid,        \* the pid it names, 0 for none
    Pids,           \* process ids the session runs under
    None,
    Retention,      \* retentionDays in clock ticks, 0 for never
    MaxClock,       \* bound: ticks of the clock
    MaxErrors       \* bound: failed statements and restarts

States == {"idle", "working", "input", "ended"}

\* The reducer: the state an event leads to, whatever the state before.
Fold(e) ==
    CASE e \in {"SessionStart", "Stop", "Nag"} -> "idle"
      [] e \in {"UserPromptSubmit", "PreToolUse", "PostToolUse"} -> "working"
      [] e = "Ask" -> "input"
      [] e = "SessionEnd" -> "ended"

Events == {"SessionStart", "Stop", "Nag", "UserPromptSubmit", "PreToolUse",
           "PostToolUse", "Ask", "SessionEnd"}

\* A transition as one of the two channels shows it.
Hook(t) == <<"hook", t>>
Line(t) == <<"line", t>>
Sightings == {Hook(t) : t \in ViaHook} \cup {Line(t) : t \in ViaLine}

Row == [state : States, tools : Nat, pid : Pids \cup {0}, stale : BOOLEAN,
        last : 0 .. MaxClock]

ASSUME ClaudeAssumption ==
    /\ IsFiniteSet(Transitions) /\ EventOf \in [Transitions -> Events]
    /\ PidOf \in [Transitions -> Pids \cup {0}]
    /\ ViaHook \subseteq Transitions /\ ViaLine \subseteq Transitions
    /\ Stamp \in [Sightings -> Nat \cup {None}]
    /\ Lines \in Seq(Seq(ViaLine)) /\ Oversized \subseteq 1 .. Len(Lines)
    /\ \A i \in 1 .. Len(Lines) : \A j, k \in 1 .. Len(Lines[i]) :     \* the record's
           Stamp[Line(Lines[i][j])] = Stamp[Line(Lines[i][k])]
    /\ FileStates \subseteq States /\ FilePid \in Pids \cup {0}
    /\ Pids \subseteq Nat \ {0}
    /\ None \notin Row \cup States
    /\ Retention \in Nat /\ MaxClock \in Nat /\ MaxErrors \in Nat

VARIABLES
    row,        \* the claude_sessions row, or None
    folds,      \* dedup keys in claude_folds
    hpc,        \* hpc[t]: the hook handler of t: "new", "claim", "apply", "done"
    written,    \* complete records in the transcript file
    half,       \* a record is partly flushed behind them
    file,       \* the state the state file shows, None before it exists
    cursor,     \* the tail: cursor, counted in records
    tpc,        \* the scan: "rest", "hasfold", "fwrite", "read",
                \* "enrich", "claim", "apply", "sweep", "mark", "prune",
                \* "delrow", "delfolds"
    pos,        \* records the open scan has consumed
    left,       \* tool_use blocks of the current record still to fold
    fnew,       \* the state the state-file channel read from the file
    fcur,       \* the row it then read
    ffold,      \* whether it then found a fold
    alive,      \* pids that name a live process
    clock, errs,
    folded,     \* folded[s]: times sighting s was applied to the row (history)
    offered     \* records handed to foldLine whole (history)

dbVars   == <<row, folds>>
fileVars == <<written, half, file>>
scanVars == <<tpc, pos, left, fnew, fcur, ffold>>
histVars == <<folded, offered>>
vars == <<dbVars, hpc, fileVars, cursor, scanVars, alive, clock, errs, histVars>>

Init ==
    /\ row = None /\ folds = {}
    /\ hpc = [t \in ViaHook |-> "new"]
    /\ written = 0 /\ half = FALSE /\ file = None /\ cursor = 0
    /\ tpc = "rest" /\ pos = 0 /\ left = <<>> /\ fnew = None /\ fcur = None /\ ffold = FALSE
    /\ alive = Pids
    /\ clock = 0 /\ errs = 0
    /\ folded = [s \in Sightings |-> 0] /\ offered = {}

Fail == errs < MaxErrors /\ errs' = errs + 1

----------------------------------------------------------------------------
(* The session (external): processes end, the transcript grows. *)

ProcessEnds(p) ==
    /\ p \in alive
    /\ alive' = alive \ {p}
    /\ UNCHANGED <<dbVars, hpc, fileVars, cursor, scanVars, clock, errs, histVars>>

\* A record reaches the file in two flushes.
WriteHalf ==
    /\ ~half /\ written < Len(Lines)
    /\ half' = TRUE
    /\ UNCHANGED <<dbVars, hpc, written, file, cursor, scanVars, alive, clock, errs, histVars>>

WriteRest ==
    /\ half
    /\ half' = FALSE
    /\ written' = written + 1
    /\ UNCHANGED <<dbVars, hpc, file, cursor, scanVars, alive, clock, errs, histVars>>

FileChanges ==
    /\ file' \in FileStates \ {file}
    /\ UNCHANGED <<dbVars, hpc, written, half, cursor, scanVars, alive, clock, errs, histVars>>

Tick ==
    /\ clock < MaxClock
    /\ clock' = clock + 1
    /\ UNCHANGED <<dbVars, hpc, fileVars, cursor, scanVars, alive, errs, histVars>>

----------------------------------------------------------------------------
(* applyFold: claim the dedup key, then upsert the row. *)

Fresh == [state |-> "idle", tools |-> 0, pid |-> 0, stale |-> FALSE, last |-> clock]
Current == IF row = None THEN Fresh ELSE row

\* The upsert: state is overwritten, tool calls add up, a pid replaces the
\* stored one, and a stale mark, once set, stays.
FoldRow(t, pid) ==
    [state |-> Fold(EventOf[t]),
     tools |-> Current.tools + (IF EventOf[t] = "PreToolUse" THEN 1 ELSE 0),
     pid   |-> IF pid # 0 THEN pid ELSE Current.pid,
     stale |-> Current.stale \/ EventOf[t] = "SessionEnd",
     last  |-> clock]

Upsert(s, pid) ==
    /\ row' = FoldRow(s[2], pid)
    /\ folded' = [folded EXCEPT ![s] = @ + 1]

\* Both kinds of Notification have one event name.
EventName(t) == IF EventOf[t] \in {"Ask", "Nag"} THEN "Notification" ELSE EventOf[t]

\* The (event, ts) pair of a sighting. An empty ts is replaced by the time of
\* arrival, in nanoseconds, which no other sighting shares.
Key(s) == <<EventName(s[2]), Stamp[s], IF Stamp[s] = None THEN s ELSE None>>

ClaimUnchecked(s, yes, no) ==
    /\ folds' = folds \cup {Key(s)}
    /\ yes

\* INSERT OR IGNORE: one of the claims of a key goes on, the others stop. A
\* sighting without a ts that is read again has another arrival time.
Claim(s, yes, no) ==
    IF Stamp[s] # None /\ Key(s) \in folds
    THEN no /\ UNCHANGED folds
    ELSE yes /\ folds' = folds \cup {Key(s)}

----------------------------------------------------------------------------
(* handleHook. *)

HookPost(t) ==
    /\ hpc[t] = "new"
    /\ hpc' = [hpc EXCEPT ![t] = "claim"]
    /\ UNCHANGED <<dbVars, fileVars, cursor, scanVars, alive, clock, errs, histVars>>

HookClaim(t) ==
    /\ hpc[t] = "claim"
    /\ Claim(Hook(t), hpc' = [hpc EXCEPT ![t] = "apply"], hpc' = [hpc EXCEPT ![t] = "done"])
    /\ UNCHANGED <<row, fileVars, cursor, scanVars, alive, clock, errs, folded, offered>>

HookApply(t) ==
    /\ hpc[t] = "apply"
    /\ Upsert(Hook(t), PidOf[t])
    /\ hpc' = [hpc EXCEPT ![t] = "done"]
    /\ UNCHANGED <<folds, fileVars, cursor, scanVars, alive, clock, errs, offered>>

\* A statement fails: 500, and the hook is not sent again.
HookFails(t) ==
    /\ hpc[t] \in {"claim", "apply"} /\ Fail
    /\ hpc' = [hpc EXCEPT ![t] = "done"]
    /\ UNCHANGED <<dbVars, fileVars, cursor, scanVars, alive, clock, histVars>>

----------------------------------------------------------------------------
(* scanOnce: the state file, *)

\* The file is read and parsed (one cut short is skipped); get, hasFold and
\* the write are three statements.
FileGet ==
    /\ tpc = "rest"
    /\ \/ /\ file # None
          /\ fnew' = file /\ fcur' = row
          /\ tpc' = "hasfold"
       \/ UNCHANGED <<fnew, fcur>> /\ tpc' = "read"
    /\ pos' = cursor
    /\ UNCHANGED <<dbVars, hpc, fileVars, cursor, left, ffold, alive, clock, errs, histVars>>

FileHasFold ==
    /\ tpc = "hasfold"
    /\ ffold' = (folds # {})
    /\ tpc' = "fwrite"
    /\ UNCHANGED <<dbVars, hpc, fileVars, cursor, pos, left, fnew, fcur, alive, clock, errs, histVars>>

\* The file's state unless the session was folded, and its pid, over what the
\* row read shows; if that is no change nothing is written. The update names
\* every column but the counters; the insert fails on a row that appeared.
FileWrite ==
    LET was == IF fcur = None THEN Fresh ELSE fcur
        st  == IF ffold THEN was.state ELSE fnew
        pid == IF FilePid # 0 THEN FilePid ELSE was.pid
    IN
    /\ tpc = "fwrite"
    /\ row' = CASE fcur = None /\ row = None -> [Fresh EXCEPT !.state = st, !.pid = pid]
                [] fcur = None /\ row # None -> row
                [] fcur # None /\ (row = None \/ (st = fcur.state /\ pid = fcur.pid)) -> row
                [] OTHER -> [row EXCEPT !.state = st, !.pid = pid, !.last = clock]
    /\ tpc' = "read"
    /\ fnew' = None /\ fcur' = None /\ ffold' = FALSE
    /\ UNCHANGED <<folds, hpc, fileVars, cursor, pos, left, alive, clock, errs, histVars>>

----------------------------------------------------------------------------
(* the transcript, *)

TakesPartial ==
    /\ tpc = "read" /\ (pos < written \/ (half /\ pos = written))
    /\ pos' = pos + 1
    /\ IF pos < written /\ pos + 1 \notin Oversized
       THEN tpc' = "enrich" /\ left' = Lines[pos + 1] /\ offered' = offered \cup {pos + 1}
       ELSE UNCHANGED <<tpc, left, offered>>
    /\ UNCHANGED <<dbVars, hpc, fileVars, cursor, fnew, fcur, ffold, alive, clock, errs, folded>>

\* readLine: the next newline-terminated record, if there is one; one that is
\* too long is passed over.
ReadLine ==
    /\ tpc = "read" /\ pos < written
    /\ pos' = pos + 1
    /\ IF pos + 1 \notin Oversized
       THEN tpc' = "enrich" /\ left' = Lines[pos + 1] /\ offered' = offered \cup {pos + 1}
       ELSE UNCHANGED <<tpc, left, offered>>
    /\ UNCHANGED <<dbVars, hpc, fileVars, cursor, fnew, fcur, ffold, alive, clock, errs, folded>>

\* applyEnrichment: creates the row or bumps its time; an error is ignored.
Enrich ==
    /\ tpc = "enrich"
    /\ \/ row' = [Current EXCEPT !.last = clock] /\ UNCHANGED errs
       \/ row' = row /\ Fail
    /\ tpc' = "claim"
    /\ UNCHANGED <<folds, hpc, fileVars, cursor, pos, left, fnew, fcur, ffold, alive, clock, histVars>>

TailClaim ==
    /\ tpc = "claim" /\ left # <<>>
    /\ Claim(Line(Head(left)), tpc' = "apply" /\ UNCHANGED left, left' = Tail(left) /\ UNCHANGED tpc)
    /\ UNCHANGED <<row, hpc, fileVars, cursor, pos, fnew, fcur, ffold, alive, clock, errs, folded, offered>>

TailApply ==
    /\ tpc = "apply"
    /\ Upsert(Line(Head(left)), 0)
    /\ left' = Tail(left)
    /\ tpc' = "claim"
    /\ UNCHANGED <<folds, hpc, fileVars, cursor, pos, fnew, fcur, ffold, alive, clock, errs, offered>>

\* A statement of the fold fails: the block is skipped.
TailFails ==
    /\ tpc \in {"claim", "apply"} /\ left # <<>> /\ Fail
    /\ left' = Tail(left)
    /\ tpc' = "claim"
    /\ UNCHANGED <<dbVars, hpc, fileVars, cursor, pos, fnew, fcur, ffold, alive, clock, histVars>>

LineDone ==
    /\ tpc = "claim" /\ left = <<>>
    /\ tpc' = "read"
    /\ UNCHANGED <<dbVars, hpc, fileVars, cursor, pos, left, fnew, fcur, ffold, alive, clock, errs, histVars>>

\* No complete record left: the cursor is saved, once for all of them; an
\* error leaves it where it was.
SaveCursor ==
    /\ tpc = "read" /\ pos >= written
    /\ \/ cursor' = pos /\ UNCHANGED errs
       \/ cursor' = cursor /\ Fail
    /\ tpc' = "sweep"
    /\ UNCHANGED <<dbVars, hpc, fileVars, pos, left, fnew, fcur, ffold, alive, clock, histVars>>

----------------------------------------------------------------------------
(* the liveness sweep, and the prune. *)

SweepIdleOnly ==
    /\ tpc = "sweep"
    /\ tpc' = IF /\ row # None
                 /\ row.pid # 0 /\ row.state = "idle" /\ ~row.stale
                 /\ row.pid \notin alive
              THEN "mark" ELSE "prune"
    /\ UNCHANGED <<dbVars, hpc, fileVars, cursor, pos, left, fnew, fcur, ffold, alive, clock, errs, histVars>>

\* staleScan's query: a row not ended nor stale, whose pid is gone.
SweepSelect ==
    /\ tpc = "sweep"
    /\ tpc' = IF /\ row # None
                 /\ row.pid # 0 /\ row.state # "ended" /\ ~row.stale
                 /\ row.pid \notin alive
              THEN "mark" ELSE "prune"
    /\ UNCHANGED <<dbVars, hpc, fileVars, cursor, pos, left, fnew, fcur, ffold, alive, clock, errs, histVars>>

SweepMark ==
    /\ tpc = "mark"
    /\ row' = IF row = None THEN row ELSE [row EXCEPT !.stale = TRUE]
    /\ tpc' = "prune"
    /\ UNCHANGED <<folds, hpc, fileVars, cursor, pos, left, fnew, fcur, ffold, alive, clock, errs, histVars>>

Old == row # None /\ row.last < clock - Retention

PruneEndedOnly ==
    /\ tpc = "prune"
    /\ tpc' = IF Retention > 0 /\ Old /\ row.state = "ended" THEN "delrow" ELSE "rest"
    /\ UNCHANGED <<dbVars, hpc, fileVars, cursor, pos, left, fnew, fcur, ffold, alive, clock, errs, histVars>>

PruneSelect ==
    /\ tpc = "prune"
    /\ tpc' = IF Retention > 0 /\ Old THEN "delrow" ELSE "rest"
    /\ UNCHANGED <<dbVars, hpc, fileVars, cursor, pos, left, fnew, fcur, ffold, alive, clock, errs, histVars>>

\* DELETE of the session selected before, then of its folds.
PruneRow ==
    /\ tpc = "delrow"
    /\ row' = None
    /\ tpc' = "delfolds"
    /\ UNCHANGED <<folds, hpc, fileVars, cursor, pos, left, fnew, fcur, ffold, alive, clock, errs, histVars>>

PruneFolds ==
    /\ tpc = "delfolds"
    /\ folds' = {}
    /\ tpc' = "rest"
    /\ UNCHANGED <<row, hpc, fileVars, cursor, pos, left, fnew, fcur, ffold, alive, clock, errs, histVars>>

\* A statement fails: the state file, the sweep or the prune is given up until
\* the next scan.
ScanFails ==
    /\ Fail
    /\ \/ tpc \in {"hasfold", "fwrite"} /\ tpc' = "read"
       \/ tpc \in {"sweep", "mark"} /\ tpc' = "prune"
       \/ tpc \in {"prune", "delrow", "delfolds"} /\ tpc' = "rest"
    /\ fnew' = None /\ fcur' = None /\ ffold' = FALSE
    /\ UNCHANGED <<dbVars, hpc, fileVars, cursor, pos, left, alive, clock, histVars>>

\* The process dies and comes back: the tables and the cursor survive.
Restart ==
    /\ Fail
    /\ hpc' = [t \in ViaHook |-> IF hpc[t] = "new" THEN "new" ELSE "done"]
    /\ tpc' = "rest" /\ pos' = 0 /\ left' = <<>> /\ fnew' = None /\ fcur' = None /\ ffold' = FALSE
    /\ UNCHANGED <<dbVars, fileVars, cursor, alive, clock, histVars>>

----------------------------------------------------------------------------

HookStep(t) == HookClaim(t) \/ HookApply(t) \/ HookFails(t)

ScanStep ==
    \/ FileGet
    \/ FileHasFold
    \/ FileWrite
    \/ ReadLine
    \/ Enrich
    \/ TailClaim
    \/ TailApply
    \/ TailFails
    \/ LineDone
    \/ SaveCursor
    \/ SweepSelect
    \/ SweepMark
    \/ PruneSelect
    \/ PruneRow
    \/ PruneFolds
    \/ ScanFails

Next ==
    \/ \E p \in Pids : ProcessEnds(p)
    \/ WriteHalf
    \/ WriteRest
    \/ FileChanges
    \/ Tick
    \/ \E t \in ViaHook : HookPost(t) \/ HookStep(t)
    \/ ScanStep
    \/ Restart

Spec == Init /\ [][Next]_vars

\* Handlers run on and the scan ticker fires.
Fairness == WF_vars(ScanStep) /\ \A t \in ViaHook : WF_vars(HookStep(t))

FairSpec == Spec /\ Fairness

----------------------------------------------------------------------------
(* Properties. *)

ToolSightings == {s \in Sightings : EventOf[s[2]] = "PreToolUse"}

\* Sightings no later one can repeat under another key: a hook is posted once,
\* a record with a ts has the same key each time it is read.
Lasting == {s \in Sightings : s[1] = "hook" \/ Stamp[s] # None}

\* applyFold's dedup: of the sightings that share a key, a record that a scan
\* reads again because a crash or a failed write kept the cursor back
\* included, one is folded and once, so a transition that the hook and the
\* transcript stamp alike is folded at most once; and toolCalls is at most the
\* number of keys of tool calls, if all records have a ts. Until the retention
\* has passed: then folds are pruned.
FoldedOncePerKey ==
    (Retention > 0 => clock <= Retention) =>
        /\ \A s \in Lasting : folded[s] <= 1
        /\ \A s, u \in Lasting : s # u /\ Key(s) = Key(u) => folded[s] = 0 \/ folded[u] = 0
        /\ row # None /\ ToolSightings \subseteq Lasting =>
               row.tools <= Cardinality({Key(s) : s \in ToolSightings})

\* scanFile: a complete record that is not too long is handed to foldLine whole,
\* across crashes and failed saves of the cursor, whatever records are passed
\* over before it; and if no statement failed and the process did not die, each
\* of its tool calls is folded, from it or from a hook with the same key.
EveryRecordTaken ==
    \A i \in 1 .. Len(Lines) : i \notin Oversized =>
        (written >= i ~>
            /\ i \in offered
            /\ errs = 0 => \A k \in 1 .. Len(Lines[i]) :
                   \E s \in Sightings : Key(s) = Key(Line(Lines[i][k])) /\ folded[s] > 0)

\* The sweep (AC-CLAUDE-STALE): a session whose processes are all gone for
\* good does not stay listed as live: it ends up stale or ended.
DeadSessionReadsStale ==
    <>[](row # None /\ row.pid # 0 /\ alive = {}) =>
        <>[](row # None /\ (row.stale \/ row.state = "ended"))

\* prune: a session without events for longer than the retention does not
\* stay, whatever state it was left in, even if the prune is interrupted
\* between its two deletes.
OldIsPruned == Old /\ Retention > 0 ~> ~Old
=============================================================================
