------------------------ MODULE GitWorktreesProofs ------------------------
(***************************************************************************)
(* Proofs about module GitWorktrees, for any worktrees, sequence of roots, *)
(* heads and counts, and any faults and changes on disk.                   *)
(***************************************************************************)
EXTENDS GitWorktrees, TLAPS

Listed == {w \in Wts : listed[w] # None}

\* The table, the parsed list and the root of the round.
RowsOK ==
    /\ world \in [Wts -> Disk \cup {None}]
    /\ row \in [Wts -> WtRow \cup {None}]
    /\ listed \in [Wts -> Heads \cup {None}]
    /\ ri \in DOMAIN Roots

\* While a root is upserted, a listed worktree is seen or still to come
\* unless an upsert failed; what is then marked are live rows of this root
\* that its list lacks.
SweepOK ==
    /\ pc \in {"idle", "list", "repo"} => ~failed
    /\ pc \in {"wt", "emit"} => /\ todo \subseteq Listed
                                /\ failed \/ Listed \subseteq seen \cup todo
    /\ pc = "mark" => \A w \in todo : /\ w \in Wts /\ listed[w] = None
                                      /\ row[w] # None /\ row[w].root = Roots[ri]

SweepInv == RowsOK /\ SweepOK

----------------------------------------------------------------------------

LEMMA RootInRange == \A i \in DOMAIN Roots : Roots[i] \in RootSet
  BY DEF RootSet

\* Every continue, and the end of a root, starts the next one afresh.
LEMMA NextRootSweeps ==
    ASSUME RowsOK, NextRoot, UNCHANGED <<world, row>>
    PROVE  SweepInv'
  <1>1. Roots \in Seq(RootSet) /\ ri \in 1 .. Len(Roots)
    BY GitAssumption DEF RowsOK
  <1>2. ri' \in DOMAIN Roots
    BY <1>1 DEF NextRoot
  <1>3. RowsOK'
    BY <1>2 DEF RowsOK, NextRoot, Nothing
  <1>4. SweepOK'
    BY DEF SweepOK, NextRoot
  <1> QED
    BY <1>3, <1>4 DEF SweepInv

LEMMA FirstRoot == 1 \in DOMAIN Roots
  BY GitAssumption

\* Storing a row: the table keeps its shape.
LEMMA StoreRow ==
    ASSUME RowsOK, NEW w \in Wts, NEW r \in WtRow, row' = [row EXCEPT ![w] = r],
           UNCHANGED <<world, listed, ri>>
    PROVE  RowsOK'
  BY DEF RowsOK

LEMMA UpsertSweeps ==
    ASSUME SweepInv, NEW w \in Wts, upsertWorktree(w)
    PROVE  SweepInv'
  <1>1. PICK ab \in Counts \cup {None} :
           row' = [row EXCEPT ![w] = [root |-> Roots[ri], head |-> listed[w], ab |-> ab,
                                      stale |-> FALSE]]
    BY DEF upsertWorktree
  <1>2. /\ pc = "wt" /\ w \in todo /\ todo' = todo \ {w} /\ seen' = seen \cup {w} /\ pc' = "emit"
        /\ UNCHANGED <<world, listed, ri, failed>>
    BY DEF upsertWorktree, diskVars
  <1>3. Roots[ri] \in RootSet /\ listed[w] \in Heads
    BY <1>2, RootInRange DEF SweepInv, RowsOK, SweepOK, Listed
  <1>4. [root |-> Roots[ri], head |-> listed[w], ab |-> ab, stale |-> FALSE] \in WtRow
    BY <1>3 DEF WtRow
  <1>5. RowsOK'
    BY <1>1, <1>2, <1>4, StoreRow DEF SweepInv
  <1>6. SweepOK'
    BY <1>2 DEF SweepInv, SweepOK, Listed
  <1> QED
    BY <1>5, <1>6 DEF SweepInv

LEMMA MarkSweeps ==
    ASSUME SweepInv, NEW w \in Wts, MarkStale(w)
    PROVE  SweepInv'
  <1>1. /\ pc = "mark" /\ w \in todo /\ row' = [row EXCEPT ![w].stale = TRUE]
        /\ todo' = todo \ {w} /\ UNCHANGED <<world, listed, ri, pc>>
    BY DEF MarkStale, diskVars
  <1>2. row[w] \in WtRow
    BY <1>1 DEF SweepInv, SweepOK, RowsOK
  <1>3. [row[w] EXCEPT !.stale = TRUE] \in WtRow
    BY <1>2 DEF WtRow
  <1>4. row' = [row EXCEPT ![w] = [row[w] EXCEPT !.stale = TRUE]]
    BY <1>1, <1>2 DEF SweepInv, RowsOK
  <1>5. RowsOK'
    BY <1>1, <1>3, <1>4, StoreRow DEF SweepInv
  <1>6. ASSUME NEW v \in todo' PROVE row'[v] = row[v] /\ v \in todo
    BY <1>1, <1>4 DEF SweepInv, SweepOK, RowsOK
  <1>7. SweepOK'
    BY <1>1, <1>6 DEF SweepInv, SweepOK
  <1> QED
    BY <1>5, <1>7 DEF SweepInv

LEMMA SweepReconcile ==
    ASSUME SweepInv, Reconcile
    PROVE  SweepInv'
  <1>1. CASE StartRound
    <2>1. pc = "idle" /\ ri' = 1 /\ pc' = "list" /\ UNCHANGED <<world, row, listed, failed>>
      BY <1>1 DEF StartRound, diskVars, tabVars, locals
    <2> QED
      BY <2>1, FirstRoot DEF SweepInv, RowsOK, SweepOK
  <1>2. CASE ListWorktrees
    <2>1. /\ pc = "list" /\ pc' = "repo" /\ UNCHANGED <<world, row, ri, failed>>
          /\ listed' = [w \in Wts |-> IF world[w] # None /\ world[w].root = Roots[ri]
                                      THEN world[w].head ELSE None]
      BY <1>2 DEF ListWorktrees, diskVars, tabVars
    <2>2. ASSUME NEW w \in Wts, world[w] # None PROVE world[w].head \in Heads
      <3>1. world[w] \in Disk
        BY <2>2 DEF SweepInv, RowsOK
      <3> QED
        BY <3>1 DEF Disk
    <2>3. RowsOK'
      BY <2>1, <2>2 DEF SweepInv, RowsOK
    <2>4. SweepOK'
      BY <2>1 DEF SweepInv, SweepOK
    <2> QED
      BY <2>3, <2>4 DEF SweepInv
  <1>3. CASE ListFails \/ UpsertRepoFails \/ MarkFails \/ RootDone
    BY <1>3, NextRootSweeps
       DEF ListFails, UpsertRepoFails, MarkFails, RootDone, SweepInv, diskVars, tabVars
  <1>4. CASE upsertRepo
    BY <1>4 DEF upsertRepo, SweepInv, RowsOK, SweepOK, Listed, diskVars
  <1>5. CASE \E w \in Wts : UpsertWorktreeFails(w)
    BY <1>5 DEF UpsertWorktreeFails, SweepInv, RowsOK, SweepOK, Listed, diskVars, tabVars
  <1>6. CASE emitIfChanged
    BY <1>6 DEF emitIfChanged, SweepInv, RowsOK, SweepOK, Listed, diskVars, tabVars
  <1>7. CASE WorktreesDone
    <2>1. CASE failed
      BY <1>7, <2>1, NextRootSweeps DEF WorktreesDone, SweepInv, diskVars, tabVars
    <2>2. CASE ~failed
      <3>1. /\ pc = "wt" /\ todo = {} /\ pc' = "mark" /\ UNCHANGED <<world, row, listed, ri>>
            /\ todo' = {w \in Wts : Live(w) /\ row[w].root = Roots[ri] /\ w \notin seen}
        BY <1>7, <2>2 DEF WorktreesDone, diskVars, tabVars
      <3>2. Listed \subseteq seen
        BY <2>2, <3>1 DEF SweepInv, SweepOK
      <3>3. RowsOK'
        BY <3>1 DEF SweepInv, RowsOK
      <3>4. SweepOK'
        BY <3>1, <3>2 DEF SweepOK, Listed, Live
      <3> QED
        BY <3>3, <3>4 DEF SweepInv
    <2> QED
      BY <2>1, <2>2
  <1>8. CASE Marked
    BY <1>8 DEF Marked, SweepInv, RowsOK, SweepOK, diskVars, tabVars
  <1>9. CASE \E w \in Wts : TellGone(w)
    BY <1>9 DEF TellGone, SweepInv, RowsOK, SweepOK, diskVars, tabVars
  <1> QED
    BY <1>1, <1>2, <1>3, <1>4, <1>5, <1>6, <1>7, <1>8, <1>9, UpsertSweeps, MarkSweeps DEF Reconcile

LEMMA SweepNext == SweepInv /\ [Next]_vars => SweepInv'
  <1> SUFFICES ASSUME SweepInv, [Next]_vars PROVE SweepInv'
    OBVIOUS
  <1>1. CASE DiskChanges
    <2>1. PICK w \in Wts, d \in Disk \cup {None} : world' = [world EXCEPT ![w] = d]
      BY <1>1 DEF DiskChanges
    <2> QED
      BY <1>1, <2>1 DEF DiskChanges, SweepInv, RowsOK, SweepOK, Listed, tabVars, locals
  <1>2. CASE Restart
    BY <1>2, FirstRoot DEF Restart, SweepInv, RowsOK, SweepOK, Nothing, diskVars, tabVars
  <1>3. CASE UNCHANGED vars
    BY <1>3 DEF vars, SweepInv, RowsOK, SweepOK, Listed
  <1> QED
    BY <1>1, <1>2, <1>3, SweepReconcile DEF Next

LEMMA SweepInit == Init => SweepInv
  BY FirstRoot DEF Init, SweepInv, RowsOK, SweepOK, Nothing

\* Only the marking of a worktree takes a live row away.
LEMMA OnlyMarkingStales ==
    ASSUME SweepInv, [Next]_vars, NEW w \in Wts, Live(w), ~Live(w)'
    PROVE  listed[w] = None /\ row[w].root = Roots[ri]
  <1>1. CASE UNCHANGED row
    BY <1>1 DEF Live
  <1>2. CASE \E v \in Wts : upsertWorktree(v)
    <2>1. PICK v \in Wts : upsertWorktree(v)
      BY <1>2
    <2>2. PICK ab \in Counts \cup {None} :
             row' = [row EXCEPT ![v] = [root |-> Roots[ri], head |-> listed[v], ab |-> ab,
                                        stale |-> FALSE]]
      BY <2>1 DEF upsertWorktree
    <2>3. [root |-> Roots[ri], head |-> listed[v], ab |-> ab, stale |-> FALSE] \in WtRow
      <3>1. Roots[ri] \in RootSet /\ listed[v] \in Heads
        BY <2>1, RootInRange DEF upsertWorktree, SweepInv, RowsOK, SweepOK, Listed
      <3> QED
        BY <3>1 DEF WtRow
    <2>4. CASE w = v
      <3>1. row'[w] # None /\ ~row'[w].stale
        BY <2>2, <2>3, <2>4, GitAssumption DEF SweepInv, RowsOK
      <3> QED
        BY <3>1 DEF Live
    <2>5. CASE w # v
      BY <2>2, <2>5 DEF SweepInv, RowsOK, Live
    <2> QED
      BY <2>4, <2>5
  <1>3. CASE \E v \in Wts : MarkStale(v)
    <2>1. PICK v \in Wts : MarkStale(v)
      BY <1>3
    <2>2. v = w
      BY <2>1 DEF MarkStale, SweepInv, RowsOK, Live
    <2> QED
      BY <2>1, <2>2 DEF MarkStale, SweepInv, SweepOK
  <1> QED
    BY <1>1, <1>2, <1>3
       DEF Next, vars, DiskChanges, Restart, Reconcile, StartRound, ListWorktrees, ListFails,
           upsertRepo, UpsertRepoFails, UpsertWorktreeFails, emitIfChanged, WorktreesDone, MarkFails,
           Marked, TellGone, RootDone, tabVars

\* reconcile and markWorktreesStaleForRepo: a row goes stale only in a round
\* that listed the row's own root without it, whichever of the round's calls
\* failed and wherever the process died.
THEOREM StaleImpliesVanished == Spec => StaleOnlyIfVanished
  <1>1. SweepInv /\ [Next]_vars =>
          [\A w \in Wts : Live(w) /\ ~Live(w)' => listed[w] = None /\ row[w].root = Roots[ri]]_vars
    BY OnlyMarkingStales
  <1> QED
    BY <1>1, SweepInit, SweepNext, PTL DEF Spec, StaleOnlyIfVanished
=============================================================================
