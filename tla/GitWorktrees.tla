---------------------------- MODULE GitWorktrees ----------------------------
(***************************************************************************)
(* The git plugin (plugins/git): one goroutine polls `git worktree list`   *)
(* root by root, upserts what it lists, marks what vanished stale and      *)
(* emits git.worktree.updated / .removed through an in-memory hash gate.   *)
(* Nothing in a round is a transaction: any call of it can fail and the    *)
(* process can die between two of them.                                    *)
(*                                                                         *)
(* A worktree is its path. Branch, head and detached come from the list    *)
(* and are one value, its head; ahead/behind are read later, by a          *)
(* rev-list of their own, and are another, None for no upstream. A bare    *)
(* entry is never a row (reconcile skips it) and is left out. The roots    *)
(* are different repositories: a path is in at most one of them at a time. *)
(***************************************************************************)
EXTENDS Integers, Sequences, FiniteSets

CONSTANTS
    Wts,         \* worktree paths
    Roots,       \* the configured roots, in order
    Heads,       \* what the list says of a worktree
    Counts,      \* ahead/behind values
    Works,       \* the (head, ahead/behind) pairs a worktree shows over time
    None,
    Faults,      \* the calls that may fail: "git", "upsert", "mark", "emit", "crash"
    MaxChanges,  \* how often the repositories change
    MaxFaults

RootSet == {Roots[i] : i \in DOMAIN Roots}
Disk == {d \in [root : RootSet, head : Heads, ab : Counts \cup {None}] : <<d.head, d.ab>> \in Works}

\* A git_worktrees row; stale is stale_since being set.
WtRow == [root : RootSet, head : Heads, ab : Counts \cup {None}, stale : BOOLEAN]

ASSUME GitAssumption ==
    /\ Roots \in Seq(RootSet) /\ Roots # <<>>
    /\ None \notin Heads /\ None \notin Disk /\ None \notin WtRow
    /\ Faults \subseteq {"git", "upsert", "mark", "emit", "crash"}
    /\ MaxChanges \in Nat /\ MaxFaults \in Nat

VARIABLES
    world,    \* what is on disk: [Wts -> [root, head, ab] or None]
    row,      \* git_worktrees: [Wts -> [root, head, ab, stale] or None]
    repos,    \* git_repos: the roots it holds
    hashes,   \* the emit gate: [Wts -> [head, ab] or None], lost at a crash
    told,     \* what a consumer of the events knows: [Wts -> [head, ab] or None]
    pc, ri,   \* where the round is, and in which root
    listed,   \* the parsed list of this root: [Wts -> Heads or None]
    todo, cur, seen, failed, gone, total,  \* reconcile's locals
    wtCount,  \* what Cursor reports
    changes, faults,
    struck    \* the kinds of call that have failed so far (history)

diskVars == <<world, changes>>
faultVars == <<faults, struck>>
tabVars == <<row, repos>>
gateVars == <<hashes, told>>
locals == <<listed, todo, cur, seen, failed, gone>>
vars == <<world, row, repos, hashes, told, pc, ri, listed, todo, cur, seen,
          failed, gone, total, wtCount, changes, faults, struck>>

worktreeHash(r) == [head |-> r.head, ab |-> r.ab]
Live(w) == row[w] # None /\ ~row[w].stale
Nothing == [w \in Wts |-> None]

\* New and Migrate on an empty database; Start reconciles at once.
Init ==
    /\ world \in [Wts -> {None} \cup Disk]
    /\ row = Nothing /\ repos = {}
    /\ hashes = Nothing /\ told = Nothing
    /\ pc = "list" /\ ri = 1
    /\ listed = Nothing /\ todo = {} /\ cur = None /\ seen = {}
    /\ failed = FALSE /\ gone = {} /\ total = 0 /\ wtCount = 0
    /\ changes = 0 /\ faults = 0 /\ struck = {}

Fault(kind) ==
    /\ kind \in Faults
    /\ faults < MaxFaults
    /\ faults' = faults + 1 /\ struck' = struck \cup {kind}

\* git commands of the operator: a worktree is added, removed or changed.
DiskChanges ==
    /\ changes < MaxChanges
    /\ changes' = changes + 1
    /\ \E w \in Wts, d \in Disk \cup {None} :
           d # world[w] /\ world' = [world EXCEPT ![w] = d]
    /\ UNCHANGED <<tabVars, gateVars, pc, ri, locals, total, wtCount, faultVars>>

----------------------------------------------------------------------------
(* One round. *)

\* The ticker fires.
StartRound ==
    /\ pc = "idle"
    /\ pc' = "list" /\ ri' = 1 /\ total' = 0
    /\ UNCHANGED <<diskVars, tabVars, gateVars, locals, wtCount, faultVars>>

\* continue: the next root, or the end of the round, which publishes the count.
NextRoot ==
    /\ todo' = {} /\ cur' = None /\ gone' = {} /\ seen' = {} /\ failed' = FALSE
    /\ listed' = Nothing
    /\ IF ri < Len(Roots)
         THEN pc' = "list" /\ ri' = ri + 1 /\ UNCHANGED wtCount
         ELSE pc' = "idle" /\ wtCount' = total /\ UNCHANGED ri

\* git worktree list --porcelain, parsed.
ListWorktrees ==
    /\ pc = "list"
    /\ listed' = [w \in Wts |-> IF world[w] # None /\ world[w].root = Roots[ri]
                                THEN world[w].head ELSE None]
    /\ pc' = "repo"
    /\ UNCHANGED <<diskVars, tabVars, gateVars, ri, todo, cur, seen, failed, gone,
                   total, wtCount, faultVars>>

\* A git error skips this root only.
ListFails ==
    /\ pc = "list"
    /\ Fault("git")
    /\ NextRoot
    /\ UNCHANGED <<diskVars, tabVars, gateVars, total>>

upsertRepo ==
    /\ pc = "repo"
    /\ repos' = repos \cup {Roots[ri]}
    /\ todo' = {w \in Wts : listed[w] # None}
    /\ pc' = "wt"
    /\ UNCHANGED <<diskVars, row, gateVars, ri, listed, cur, seen, failed, gone,
                   total, wtCount, faultVars>>

\* So does a store error on the repo's row.
UpsertRepoFails ==
    /\ pc = "repo"
    /\ Fault("upsert")
    /\ NextRoot
    /\ UNCHANGED <<diskVars, tabVars, gateVars, total>>

\* rev-list runs in the worktree's directory as it is now; an error, and a
\* directory that is gone, read as no upstream.
worktreeNode(w, ab) ==
    \/ /\ ab = (IF world[w] = None THEN None ELSE world[w].ab)
       /\ UNCHANGED faultVars
    \/ ab = None /\ world[w] # None /\ Fault("git")

UpsertKeepsStale(w) ==
    /\ pc = "wt" /\ w \in todo
    /\ \E ab \in Counts \cup {None} :
         /\ worktreeNode(w, ab)
         /\ row' = [row EXCEPT ![w] = [root |-> Roots[ri], head |-> listed[w], ab |-> ab,
                                       stale |-> row[w] # None /\ row[w].stale]]
    /\ todo' = todo \ {w} /\ seen' = seen \cup {w} /\ total' = total + 1
    /\ cur' = w /\ pc' = "emit"
    /\ UNCHANGED <<diskVars, repos, gateVars, ri, listed, failed, gone, wtCount>>

\* The upsert clears stale_since and moves the row to this repo.
upsertWorktree(w) ==
    /\ pc = "wt" /\ w \in todo
    /\ \E ab \in Counts \cup {None} :
         /\ worktreeNode(w, ab)
         /\ row' = [row EXCEPT ![w] = [root |-> Roots[ri], head |-> listed[w], ab |-> ab,
                                       stale |-> FALSE]]
    /\ todo' = todo \ {w} /\ seen' = seen \cup {w} /\ total' = total + 1
    /\ cur' = w /\ pc' = "emit"
    /\ UNCHANGED <<diskVars, repos, gateVars, ri, listed, failed, gone, wtCount>>

UpsertWorktreeFails(w) ==
    /\ pc = "wt" /\ w \in todo
    /\ Fault("upsert")
    /\ todo' = todo \ {w} /\ failed' = TRUE
    /\ UNCHANGED <<diskVars, tabVars, gateVars, pc, ri, listed, cur, seen, gone,
                   total, wtCount>>

\* p.emit: the error of core's emit is dropped.
Emit(w, h) ==
    \/ told' = [told EXCEPT ![w] = h] /\ UNCHANGED faultVars
    \/ Fault("emit") /\ UNCHANGED told

\* The gate takes the new hash before the event is out.
emitIfChanged ==
    /\ pc = "emit"
    /\ LET h == worktreeHash(row[cur]) IN
         /\ hashes' = [hashes EXCEPT ![cur] = h]
         /\ IF hashes[cur] = h THEN UNCHANGED <<told, faultVars>> ELSE Emit(cur, h)
    /\ pc' = "wt" /\ cur' = None
    /\ UNCHANGED <<diskVars, tabVars, ri, listed, todo, seen, failed, gone, total, wtCount>>

MarkAnyRoot ==
    /\ pc = "wt" /\ todo = {}
    /\ IF failed THEN NextRoot
       ELSE /\ gone' = {w \in Wts : Live(w) /\ w \notin seen}
            /\ todo' = gone' /\ pc' = "mark"
            /\ UNCHANGED <<ri, listed, cur, seen, failed, wtCount>>
    /\ UNCHANGED <<diskVars, tabVars, gateVars, total, faultVars>>

\* After a failed upsert nothing is marked: seen is incomplete. Otherwise
\* markWorktreesStaleForRepo selects this repo's live rows that were not seen.
WorktreesDone ==
    /\ pc = "wt" /\ todo = {}
    /\ IF failed THEN NextRoot
       ELSE /\ gone' = {w \in Wts : Live(w) /\ row[w].root = Roots[ri] /\ w \notin seen}
            /\ todo' = gone' /\ pc' = "mark"
            /\ UNCHANGED <<ri, listed, cur, seen, failed, wtCount>>
    /\ UNCHANGED <<diskVars, tabVars, gateVars, total, faultVars>>

\* One UPDATE for each of them.
MarkStale(w) ==
    /\ pc = "mark" /\ w \in todo
    /\ row' = [row EXCEPT ![w].stale = TRUE]
    /\ todo' = todo \ {w}
    /\ UNCHANGED <<diskVars, repos, gateVars, pc, ri, listed, cur, seen, failed, gone,
                   total, wtCount, faultVars>>

\* The SELECT or an UPDATE fails: the keys already marked are not returned.
MarkFails ==
    /\ pc = "mark" /\ (todo = gone \/ todo # {})
    /\ Fault("mark")
    /\ NextRoot
    /\ UNCHANGED <<diskVars, tabVars, gateVars, total>>

MarkedQuietly ==
    /\ pc = "mark" /\ todo = {}
    /\ pc' = "gone"
    /\ UNCHANGED <<diskVars, tabVars, gateVars, ri, listed, todo, cur, seen, failed, gone,
                   total, wtCount, faultVars>>

Marked ==
    /\ pc = "mark" /\ todo = {}
    /\ pc' = "gone" /\ todo' = gone
    /\ UNCHANGED <<diskVars, tabVars, gateVars, ri, listed, cur, seen, failed, gone,
                   total, wtCount, faultVars>>

TellGoneRemembers(w) ==
    /\ pc = "gone" /\ w \in todo
    /\ Emit(w, None)
    /\ todo' = todo \ {w}
    /\ UNCHANGED <<diskVars, tabVars, hashes, pc, ri, listed, cur, seen, failed, gone,
                   total, wtCount>>

\* forget, then git.worktree.removed.
TellGone(w) ==
    /\ pc = "gone" /\ w \in todo
    /\ hashes' = [hashes EXCEPT ![w] = None]
    /\ Emit(w, None)
    /\ todo' = todo \ {w}
    /\ UNCHANGED <<diskVars, tabVars, pc, ri, listed, cur, seen, failed, gone,
                   total, wtCount>>

RootDone ==
    /\ pc = "gone" /\ todo = {}
    /\ NextRoot
    /\ UNCHANGED <<diskVars, tabVars, gateVars, total, faultVars>>

\* The process dies and comes back: the tables stay, the gate is empty.
Restart ==
    /\ Fault("crash")
    /\ hashes' = Nothing
    /\ pc' = "list" /\ ri' = 1
    /\ listed' = Nothing /\ todo' = {} /\ cur' = None /\ seen' = {}
    /\ failed' = FALSE /\ gone' = {} /\ total' = 0 /\ wtCount' = 0
    /\ UNCHANGED <<diskVars, tabVars, told>>

----------------------------------------------------------------------------

Reconcile ==
    \/ StartRound
    \/ ListWorktrees
    \/ ListFails
    \/ upsertRepo
    \/ UpsertRepoFails
    \/ \E w \in Wts : upsertWorktree(w)
    \/ \E w \in Wts : UpsertWorktreeFails(w)
    \/ emitIfChanged
    \/ WorktreesDone
    \/ \E w \in Wts : MarkStale(w)
    \/ MarkFails
    \/ Marked
    \/ \E w \in Wts : TellGone(w)
    \/ RootDone

Next ==
    \/ DiskChanges
    \/ Reconcile
    \/ Restart

Spec == Init /\ [][Next]_vars

\* The ticker fires and the goroutine runs on.
FairSpec == Spec /\ WF_vars(Reconcile)

----------------------------------------------------------------------------
(* Properties. *)

\* AC-GIT-RECONCILE, D3: a row goes stale only in a round that listed its own
\* root without it; neither a failed list, a failed upsert nor another root's
\* round stales it.
StaleOnlyIfVanished ==
    [][\A w \in Wts : Live(w) /\ ~Live(w)' => listed[w] = None /\ row[w].root = Roots[ri]]_vars

\* reconcile: once the disk rests the table is the disk, whatever calls failed
\* and wherever a crash cut a round.
RowsConverge ==
    \A w \in Wts :
        <>[](IF world[w] = None THEN ~Live(w)
             ELSE /\ Live(w)
                  /\ row[w] = [root |-> world[w].root, head |-> world[w].head,
                               ab |-> world[w].ab, stale |-> FALSE])

\* AC-GIT-SUBSCRIBE: the events end with every worktree as it is on disk,
\* unless an emit failed. A crash empties the gate and everything is told
\* again; a worktree whose marking failed is still known under its last hash.
LiveIsTold ==
    []("emit" \notin struck) =>
        \A w \in Wts : <>[](world[w] # None => told[w] = worktreeHash(world[w]))

\* D4: every worktree that vanished for good was told as removed, although
\* lists and upserts failed: a round that saw a failure marks nothing, and the
\* next whole one does.
GoneIsUntold ==
    [](struck \subseteq {"git", "upsert"}) =>
        \A w \in Wts : <>[](world[w] = None => told[w] = None)
=============================================================================
