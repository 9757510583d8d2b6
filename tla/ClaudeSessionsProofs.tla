----------------------- MODULE ClaudeSessionsProofs -----------------------
(***************************************************************************)
(* Proofs about module ClaudeSessions, for any transitions, transcript,    *)
(* time stamps, pids, retention, clock and number of failures.              *)
(***************************************************************************)
EXTENDS ClaudeSessions, FiniteSetTheorems, TLAPS

(* Types. *)

TableOK ==
    /\ row \in Row \cup {None}
    /\ folded \in [Sightings -> Nat]
    /\ hpc \in [ViaHook -> {"new", "claim", "apply", "done"}]
    /\ clock \in 0 .. MaxClock

TailOK ==
    /\ written \in 0 .. Len(Lines) /\ half \in BOOLEAN
    /\ half => written < Len(Lines)
    /\ cursor \in Nat /\ pos \in Nat
    /\ left \in Seq(ViaLine)
    /\ tpc = "apply" => left # <<>>

FileOK ==
    /\ file \in States \cup {None}
    /\ fcur \in Row \cup {None}
    /\ tpc \in {"hasfold", "fwrite"} => fnew \in States

FoldTypeOK == TableOK /\ TailOK /\ FileOK

(* The dedup. *)

\* Until then no row is old enough to be pruned.
InWindow == Retention > 0 => clock <= Retention

SameKey(s) == {u \in Lasting : Key(u) = Key(s)}

\* Sighting s has claimed its key and is about to be applied.
Holds(s) ==
    \/ s[1] = "hook" /\ hpc[s[2]] = "apply"
    \/ s[1] = "line" /\ tpc = "apply" /\ Head(left) = s[2]

\* A claim of s's key that is not applied yet: nobody applied a sighting of
\* that key, and nobody else holds it.
Claimed(s) ==
    /\ Key(s) \in folds
    /\ \A u \in SameKey(s) : folded[u] = 0 /\ (Holds(u) => u = s)

AppliedTools == {Key(s) : s \in {u \in ToolSightings : folded[u] > 0}}

\* Every applied sighting is in the dedup table, alone of its key.
AppliedOK ==
    /\ \A s \in Lasting : folded[s] <= 1 /\ (folded[s] > 0 => Key(s) \in folds)
    /\ \A s \in Lasting : folded[s] > 0 => \A u \in SameKey(s) : u # s => folded[u] = 0

\* A claim under way is the only one of its key, and a hook without a ts that
\* has not claimed yet has its arrival to itself.
HeldOK ==
    /\ \A s \in Lasting : Holds(s) => Claimed(s)
    /\ \A t \in ViaHook : hpc[t] \in {"new", "claim"} /\ Stamp[Hook(t)] = None =>
           Key(Hook(t)) \notin folds

\* The row counts at most the applied keys of tool calls.
CountOK ==
    row # None /\ ToolSightings \subseteq Lasting => row.tools <= Cardinality(AppliedTools)

DedupOK == AppliedOK /\ HeldOK /\ CountOK /\ tpc \notin {"delrow", "delfolds"}

FoldInv == FoldTypeOK /\ (InWindow => DedupOK)

----------------------------------------------------------------------------
(* Rows. *)

LEMMA FoldState == \A e \in Events : Fold(e) \in States
  BY DEF Events, Fold, States

LEMMA FreshRow ==
    ASSUME clock \in 0 .. MaxClock
    PROVE  Fresh \in Row
  BY ClaudeAssumption DEF Fresh, Row, States

LEMMA CurrentRow ==
    ASSUME clock \in 0 .. MaxClock, row \in Row \cup {None}
    PROVE  Current \in Row /\ Current.tools \in Nat
  <1>1. Current \in Row
    BY FreshRow DEF Current
  <1> QED
    BY <1>1 DEF Row

LEMMA FoldRowType ==
    ASSUME TableOK, NEW t \in Transitions, NEW pid \in Pids \cup {0}
    PROVE  /\ FoldRow(t, pid) \in Row
           /\ FoldRow(t, pid).tools = Current.tools + (IF EventOf[t] = "PreToolUse" THEN 1 ELSE 0)
  <1>1. Current \in Row /\ Current.tools \in Nat
    BY CurrentRow DEF TableOK
  <1>2. Current.pid \in Pids \cup {0} /\ Current.stale \in BOOLEAN
    BY <1>1 DEF Row
  <1>3. Fold(EventOf[t]) \in States
    BY FoldState, ClaudeAssumption
  <1>4. Current.tools + (IF EventOf[t] = "PreToolUse" THEN 1 ELSE 0) \in Nat
    BY <1>1
  <1>5. (Current.stale \/ EventOf[t] = "SessionEnd") \in BOOLEAN
    OBVIOUS
  <1>6. clock \in 0 .. MaxClock
    BY DEF TableOK
  <1> QED
    BY <1>2, <1>3, <1>4, <1>5, <1>6 DEF FoldRow, Row

(* Sightings. *)

LEMMA SightingType ==
    /\ \A s \in Sightings : s[2] \in Transitions /\ s[1] \in {"hook", "line"}
    /\ \A t \in ViaHook : Hook(t) \in Sightings /\ Hook(t) \in Lasting
    /\ \A t \in ViaLine : Line(t) \in Sightings
    /\ \A s \in Sightings : s[1] = "hook" => s[2] \in ViaHook /\ s = Hook(s[2])
    /\ \A s \in Sightings : s[1] = "line" => s[2] \in ViaLine /\ s = Line(s[2])
  BY ClaudeAssumption DEF Sightings, Hook, Line, Lasting

\* A sighting without a ts has its key to itself.
LEMMA OwnKey ==
    ASSUME NEW s \in Sightings, NEW u \in Sightings, Key(s) = Key(u), Stamp[s] = None
    PROVE  u = s
  BY DEF Key

(* Counting the applied tool calls. *)

LEMMA ToolKeysFinite == IsFiniteSet({Key(s) : s \in ToolSightings})
  <1> DEFINE T == {"hook", "line"} \X Transitions
             S == {Key(s) : s \in ToolSightings}
             f == [s \in ToolSightings |-> Key(s)]
  <1>1. IsFiniteSet({"hook", "line"})
    <2>1. {"hook", "line"} = {"hook"} \cup {"line"}
      OBVIOUS
    <2>2. IsFiniteSet({"hook"})
      BY FS_Singleton
    <2> QED
      BY <2>1, <2>2, FS_AddElement
  <1>2. IsFiniteSet(T)
    BY <1>1, FS_Product, ClaudeAssumption
  <1>3. ToolSightings \in SUBSET T
    BY ClaudeAssumption DEF ToolSightings, Sightings, Hook, Line
  <1>4. IsFiniteSet(ToolSightings)
    BY <1>2, <1>3, FS_Subset
  <1>5. f \in Surjection(ToolSightings, S)
    BY DEF Surjection
  <1> QED
    BY <1>4, <1>5, FS_Surjection

LEMMA AppliedFinite ==
    /\ IsFiniteSet(AppliedTools) /\ Cardinality(AppliedTools) \in Nat
    /\ Cardinality({Key(s) : s \in ToolSightings}) \in Nat
    /\ Cardinality(AppliedTools) <= Cardinality({Key(s) : s \in ToolSightings})
  <1>1. AppliedTools \in SUBSET {Key(s) : s \in ToolSightings}
    BY DEF AppliedTools
  <1> QED
    BY <1>1, ToolKeysFinite, FS_Subset, FS_CardinalityType

----------------------------------------------------------------------------
(* Types are kept. *)

LEMMA NoneNoRow == None \notin Row /\ None \notin States
  BY ClaudeAssumption

LEMMA UpsertType ==
    ASSUME TableOK, NEW s \in Sightings, NEW pid \in Pids \cup {0}, Upsert(s, pid),
           UNCHANGED clock, hpc' \in [ViaHook -> {"new", "claim", "apply", "done"}]
    PROVE  TableOK'
  <1>1. row' \in Row
    BY FoldRowType, SightingType DEF Upsert
  <1>2. folded' \in [Sightings -> Nat]
    BY DEF TableOK, Upsert
  <1> QED
    BY <1>1, <1>2 DEF TableOK

LEMMA SessionType ==
    ASSUME FoldTypeOK,
           (\E p \in Pids : ProcessEnds(p)) \/ WriteHalf \/ WriteRest \/ FileChanges \/ Tick
    PROVE  FoldTypeOK'
  <1>1. UNCHANGED <<row, folded, hpc>> /\ UNCHANGED <<cursor, pos, left, tpc, fnew, fcur>>
    BY DEF ProcessEnds, WriteHalf, WriteRest, FileChanges, Tick, dbVars, histVars, scanVars
  <1>2. clock' \in 0 .. MaxClock
    <2>1. clock \in 0 .. MaxClock /\ (clock' = clock \/ (clock < MaxClock /\ clock' = clock + 1))
      BY DEF ProcessEnds, WriteHalf, WriteRest, FileChanges, Tick, FoldTypeOK, TableOK
    <2> QED
      BY <2>1, ClaudeAssumption
  <1>3. file' \in States \cup {None}
    BY ClaudeAssumption
       DEF ProcessEnds, WriteHalf, WriteRest, FileChanges, Tick, FoldTypeOK, FileOK, fileVars
  <1>4. written' \in 0 .. Len(Lines) /\ half' \in BOOLEAN /\ (half' => written' < Len(Lines))
    <2>1. Len(Lines) \in Nat
      BY ClaudeAssumption
    <2>2. CASE WriteHalf
      BY <2>1, <2>2 DEF WriteHalf, FoldTypeOK, TailOK
    <2>3. CASE WriteRest
      <3>1. half /\ half' = FALSE /\ written' = written + 1
        BY <2>3 DEF WriteRest
      <3>2. written \in 0 .. Len(Lines) /\ written < Len(Lines)
        BY <3>1 DEF FoldTypeOK, TailOK
      <3>3. written' \in 0 .. Len(Lines)
        BY <2>1, <3>1, <3>2
      <3> QED
        BY <3>1, <3>3
    <2>4. CASE UNCHANGED <<written, half>>
      BY <2>4 DEF FoldTypeOK, TailOK
    <2> QED
      BY <2>2, <2>3, <2>4 DEF ProcessEnds, FileChanges, Tick, fileVars
  <1> QED
    BY <1>1, <1>2, <1>3, <1>4 DEF FoldTypeOK, TableOK, TailOK, FileOK

LEMMA HookType ==
    ASSUME FoldTypeOK, NEW t \in ViaHook, HookPost(t) \/ HookStep(t)
    PROVE  FoldTypeOK'
  <1>1. UNCHANGED <<written, half, file, cursor, scanVars, clock>>
    BY DEF HookPost, HookStep, HookClaim, HookApply, HookFails, fileVars
  <1>2. TailOK' /\ FileOK'
    BY <1>1 DEF FoldTypeOK, TailOK, FileOK, scanVars
  <1>3. hpc' \in [ViaHook -> {"new", "claim", "apply", "done"}]
    BY DEF HookPost, HookStep, HookClaim, HookApply, HookFails, Claim, FoldTypeOK, TableOK
  <1>4. CASE HookApply(t)
    <2>1. PidOf[t] \in Pids \cup {0}
      BY ClaudeAssumption
    <2>2. TableOK'
      BY <1>1, <1>3, <1>4, <2>1, UpsertType, SightingType DEF HookApply, FoldTypeOK
    <2> QED
      BY <1>2, <2>2 DEF FoldTypeOK
  <1>5. CASE HookPost(t) \/ HookClaim(t) \/ HookFails(t)
    <2>1. UNCHANGED <<row, folded>>
      BY <1>5 DEF HookPost, HookClaim, HookFails, dbVars, histVars
    <2> QED
      BY <1>1, <1>2, <1>3, <2>1 DEF FoldTypeOK, TableOK
  <1> QED
    BY <1>4, <1>5 DEF HookStep

LEMMA FileType ==
    ASSUME FoldTypeOK, FileGet \/ FileHasFold \/ FileWrite
    PROVE  FoldTypeOK'
  <1>1. UNCHANGED <<folded, hpc, clock, written, half, file, cursor, left>>
    BY DEF FileGet, FileHasFold, FileWrite, fileVars, histVars
  <1>2. pos' \in Nat /\ tpc' # "apply"
    BY DEF FileGet, FileHasFold, FileWrite, FoldTypeOK, TailOK
  <1>3. TailOK'
    BY <1>1, <1>2 DEF FoldTypeOK, TailOK
  <1>4. CASE FileGet \/ FileHasFold
    <2>1. UNCHANGED row
      BY <1>4 DEF FileGet, FileHasFold, dbVars
    <2>2. FileOK'
      BY <1>1, <1>4 DEF FileGet, FileHasFold, FoldTypeOK, TableOK, FileOK
    <2> QED
      BY <1>1, <1>3, <2>1, <2>2 DEF FoldTypeOK, TableOK
  <1>5. CASE FileWrite
    <2> DEFINE was == IF fcur = None THEN Fresh ELSE fcur
               st  == IF ffold THEN was.state ELSE fnew
               pid == IF FilePid # 0 THEN FilePid ELSE was.pid
    <2>1. was \in Row
      BY FreshRow DEF FoldTypeOK, TableOK, FileOK
    <2>2. st \in States /\ pid \in Pids \cup {0}
      <3>1. was.state \in States /\ was.pid \in Pids \cup {0} /\ fnew \in States
        BY <1>5, <2>1 DEF Row, FileWrite, FoldTypeOK, FileOK
      <3> QED
        BY <3>1, ClaudeAssumption
    <2>3. Fresh \in Row /\ clock \in 0 .. MaxClock
      BY FreshRow DEF FoldTypeOK, TableOK
    <2>4. [Fresh EXCEPT !.state = st, !.pid = pid] \in Row
      BY <2>2, <2>3 DEF Row
    <2>5. row # None => [row EXCEPT !.state = st, !.pid = pid, !.last = clock] \in Row
      <3> SUFFICES ASSUME row # None
                   PROVE [row EXCEPT !.state = st, !.pid = pid, !.last = clock] \in Row
        OBVIOUS
      <3>1. row \in Row
        BY DEF FoldTypeOK, TableOK
      <3> QED
        BY <2>2, <2>3, <3>1 DEF Row
    <2>6. \/ row' = row
          \/ row' = [Fresh EXCEPT !.state = st, !.pid = pid]
          \/ row # None /\ row' = [row EXCEPT !.state = st, !.pid = pid, !.last = clock]
      BY <1>5 DEF FileWrite
    <2>7. row' \in Row \cup {None}
      BY <2>4, <2>5, <2>6 DEF FoldTypeOK, TableOK
    <2>8. FileOK'
      BY <1>1, <1>5 DEF FileWrite, FoldTypeOK, FileOK
    <2> QED
      BY <1>1, <1>3, <2>7, <2>8 DEF FoldTypeOK, TableOK
  <1> QED
    BY <1>4, <1>5

LEMMA TailType ==
    ASSUME FoldTypeOK,
           ReadLine \/ Enrich \/ TailClaim \/ TailApply \/ TailFails \/ LineDone \/ SaveCursor
    PROVE  FoldTypeOK'
  <1>1. UNCHANGED <<hpc, clock, written, half, file, fcur, fnew>>
    BY DEF ReadLine, Enrich, TailClaim, TailApply, TailFails, LineDone, SaveCursor, fileVars
  <1>2. FileOK'
    <2>1. tpc' \notin {"hasfold", "fwrite"}
      BY DEF ReadLine, Enrich, TailClaim, TailApply, TailFails, LineDone, SaveCursor, Claim
    <2> QED
      BY <1>1, <2>1 DEF FoldTypeOK, FileOK
  <1>3. left \in Seq(ViaLine) /\ (left # <<>> => Tail(left) \in Seq(ViaLine))
    BY DEF FoldTypeOK, TailOK
  <1>4. left' \in Seq(ViaLine) /\ (tpc' = "apply" => left' # <<>>)
    <2>1. CASE ReadLine
      <3>1. pos + 1 \in 1 .. Len(Lines)
        BY <2>1, ClaudeAssumption DEF ReadLine, FoldTypeOK, TailOK
      <3>2. Lines[pos + 1] \in Seq(ViaLine)
        BY <3>1, ClaudeAssumption
      <3> QED
        BY <1>3, <2>1, <3>2 DEF ReadLine
    <2>2. CASE Enrich \/ LineDone \/ SaveCursor
      BY <1>3, <2>2 DEF Enrich, LineDone, SaveCursor
    <2>3. CASE TailClaim \/ TailFails
      BY <1>3, <2>3 DEF TailClaim, TailFails, Claim
    <2>4. CASE TailApply
      BY <1>3, <2>4 DEF TailApply, FoldTypeOK, TailOK
    <2> QED
      BY <2>1, <2>2, <2>3, <2>4
  <1>5. pos' \in Nat /\ cursor' \in Nat
    BY DEF ReadLine, Enrich, TailClaim, TailApply, TailFails, LineDone, SaveCursor, FoldTypeOK, TailOK
  <1>6. TailOK'
    BY <1>1, <1>4, <1>5 DEF FoldTypeOK, TailOK
  <1>7. TableOK'
    <2>1. CASE TailApply
      <3>1. Line(Head(left)) \in Sightings
        BY <2>1, <1>3, SightingType DEF TailApply, FoldTypeOK, TailOK
      <3> QED
        BY <1>1, <2>1, <3>1, UpsertType DEF TailApply, FoldTypeOK, TableOK
    <2>2. CASE Enrich
      <3>1. Current \in Row /\ clock \in 0 .. MaxClock
        BY CurrentRow DEF FoldTypeOK, TableOK
      <3>2. [Current EXCEPT !.last = clock] \in Row
        BY <3>1 DEF Row
      <3> QED
        BY <1>1, <2>2, <3>2 DEF Enrich, FoldTypeOK, TableOK, histVars
    <2>3. CASE UNCHANGED <<row, folded>>
      BY <1>1, <2>3 DEF FoldTypeOK, TableOK
    <2> QED
      BY <2>1, <2>2, <2>3
         DEF ReadLine, TailClaim, TailFails, LineDone, SaveCursor, dbVars, histVars
  <1> QED
    BY <1>2, <1>6, <1>7 DEF FoldTypeOK

LEMMA SweepType ==
    ASSUME FoldTypeOK,
           \/ SweepSelect \/ SweepMark \/ PruneSelect \/ PruneRow \/ PruneFolds \/ ScanFails
           \/ Restart
    PROVE  FoldTypeOK'
  <1>1. UNCHANGED <<folded, clock, written, half, file, cursor>>
    BY DEF SweepSelect, SweepMark, PruneSelect, PruneRow, PruneFolds, ScanFails, Restart, fileVars,
           histVars
  <1>2. hpc' \in [ViaHook -> {"new", "claim", "apply", "done"}]
    BY DEF SweepSelect, SweepMark, PruneSelect, PruneRow, PruneFolds, ScanFails, Restart,
           FoldTypeOK, TableOK
  <1>3. tpc' \notin {"apply", "hasfold", "fwrite"} /\ pos' \in Nat /\ left' \in Seq(ViaLine)
        /\ fcur' \in Row \cup {None}
    <2>1. CASE Restart
      BY <2>1 DEF Restart
    <2>2. CASE ScanFails
      BY <2>2 DEF ScanFails, FoldTypeOK, TailOK
    <2>3. CASE SweepSelect \/ SweepMark \/ PruneSelect \/ PruneRow \/ PruneFolds
      BY <2>3 DEF SweepSelect, SweepMark, PruneSelect, PruneRow, PruneFolds, FoldTypeOK, TailOK, FileOK
    <2> QED
      BY <2>1, <2>2, <2>3
  <1>4. row' \in Row \cup {None}
    <2>1. CASE SweepMark
      <3>1. row # None => [row EXCEPT !.stale = TRUE] \in Row
        <4> SUFFICES ASSUME row # None PROVE [row EXCEPT !.stale = TRUE] \in Row
          OBVIOUS
        <4>1. row \in Row
          BY DEF FoldTypeOK, TableOK
        <4> QED
          BY <4>1 DEF Row
      <3> QED
        BY <2>1, <3>1 DEF SweepMark
    <2>2. CASE row' \in {row, None}
      BY <2>2 DEF FoldTypeOK, TableOK
    <2> QED
      BY <2>1, <2>2 DEF SweepSelect, PruneSelect, PruneRow, PruneFolds, ScanFails, Restart, dbVars
  <1> QED
    BY <1>1, <1>2, <1>3, <1>4 DEF FoldTypeOK, TableOK, TailOK, FileOK

LEMMA FoldTypeNext == FoldTypeOK /\ [Next]_vars => FoldTypeOK'
  <1> SUFFICES ASSUME FoldTypeOK, [Next]_vars PROVE FoldTypeOK'
    OBVIOUS
  <1>1. CASE UNCHANGED vars
    BY <1>1 DEF vars, dbVars, fileVars, scanVars, histVars, FoldTypeOK, TableOK, TailOK, FileOK
  <1> QED
    BY <1>1, SessionType, HookType, FileType, TailType, SweepType DEF Next, ScanStep

----------------------------------------------------------------------------
(* The dedup holds while nothing is old enough to be pruned. *)

\* A step that claims and applies nothing, and counts nothing.
LEMMA DedupKept ==
    ASSUME FoldTypeOK, DedupOK, UNCHANGED <<folds, folded>>,
           \A t \in ViaHook : \/ hpc'[t] \in {hpc[t], "done"}
                              \/ hpc[t] = "new" /\ hpc'[t] = "claim",
           tpc' = "apply" => tpc = "apply" /\ left' = left,
           row' # None => \/ row'.tools = 0
                          \/ row # None /\ row'.tools = row.tools,
           tpc' \notin {"delrow", "delfolds"}
    PROVE  DedupOK'
  <1>1. AppliedTools' = AppliedTools
    BY DEF AppliedTools
  <1>2. CountOK'
    <2>1. Cardinality(AppliedTools) \in Nat
      BY AppliedFinite
    <2> QED
      BY <1>1, <2>1 DEF DedupOK, CountOK
  <1>3. \A s \in Lasting : Holds(s)' => Holds(s)
    BY SightingType DEF Holds, Lasting
  <1>4. \A s \in Lasting : Holds(s)' => Claimed(s)'
    BY <1>3 DEF DedupOK, HeldOK, Claimed, SameKey
  <1>5. AppliedOK'
    BY DEF DedupOK, AppliedOK, SameKey
  <1>6. HeldOK'
    BY <1>4 DEF DedupOK, HeldOK
  <1> QED
    BY <1>2, <1>5, <1>6 DEF DedupOK

\* Claiming a key that no lasting sighting has applied or holds.
LEMMA DedupClaimed ==
    ASSUME FoldTypeOK, DedupOK, NEW s \in Sightings, folds' = folds \cup {Key(s)},
           s \in Lasting => Key(s) \notin folds,
           \A u \in Lasting : Holds(u)' => Holds(u) \/ u = s,
           \A t \in ViaHook : IF s = Hook(t) THEN hpc'[t] = "apply" ELSE hpc'[t] = hpc[t],
           UNCHANGED <<row, folded>>, tpc' \notin {"delrow", "delfolds"}
    PROVE  DedupOK'
  <1>1. AppliedTools' = AppliedTools
    BY DEF AppliedTools
  <1>2. CountOK'
    BY <1>1 DEF DedupOK, CountOK
  <1>3. AppliedOK'
    BY DEF DedupOK, AppliedOK, SameKey
  <1>4. ASSUME NEW u \in Lasting, Holds(u)' PROVE Claimed(u)'
    <2>1. u \in Sightings
      BY DEF Lasting
    <2>2. CASE u = s
      <3>1. ASSUME NEW v \in SameKey(u) PROVE folded[v] = 0 /\ ~Holds(v)
        <4>1. v \in Lasting /\ v \in Sightings /\ Key(v) \notin folds
          BY <2>2 DEF SameKey, Lasting
        <4>2. folded[v] \in Nat /\ ~(folded[v] > 0)
          BY <4>1 DEF DedupOK, AppliedOK, FoldTypeOK, TableOK
        <4>3. ~Holds(v)
          BY <4>1 DEF DedupOK, HeldOK, Claimed
        <4> QED
          BY <4>2, <4>3
      <3>2. \A v \in SameKey(u) : folded'[v] = 0 /\ (Holds(v)' => v = u)
        BY <2>2, <3>1 DEF SameKey
      <3> QED
        BY <2>2, <3>2 DEF Claimed, SameKey
    <2>3. CASE u # s
      <3>1. Holds(u) /\ Claimed(u) /\ Key(u) \in folds
        BY <1>4, <2>3 DEF DedupOK, HeldOK, Claimed
      <3>2. s \in Lasting => s \notin SameKey(u)
        BY <3>1 DEF SameKey
      <3>3. \A v \in SameKey(u) : folded'[v] = 0 /\ (Holds(v)' => v = u)
        BY <3>1, <3>2 DEF Claimed, SameKey
      <3> QED
        BY <3>1, <3>3 DEF Claimed, SameKey
    <2> QED
      BY <2>2, <2>3
  <1>5. ASSUME NEW t \in ViaHook, hpc'[t] \in {"new", "claim"}, Stamp[Hook(t)] = None
        PROVE  Key(Hook(t)) \notin folds'
    <2>1. hpc[t] \in {"new", "claim"}
      BY <1>5
    <2>2. Key(Hook(t)) \notin folds /\ Hook(t) \in Sightings
      BY <1>5, <2>1, SightingType DEF DedupOK, HeldOK
    <2>3. Hook(t) # s
      BY <1>5
    <2>4. CASE Key(Hook(t)) # Key(s)
      BY <2>2, <2>4
    <2>5. CASE Key(Hook(t)) = Key(s)
      BY <1>5, <2>2, <2>3, <2>5, OwnKey
    <2> QED
      BY <2>4, <2>5
  <1> QED
    BY <1>2, <1>3, <1>4, <1>5 DEF DedupOK, HeldOK

\* Applying a sighting: if it is a lasting one, by a claim nobody else holds.
LEMMA DedupApplied ==
    ASSUME FoldTypeOK, DedupOK, NEW s \in Sightings, NEW pid \in Pids \cup {0}, Upsert(s, pid),
           UNCHANGED folds, s \in Lasting => Claimed(s),
           \A u \in Lasting : Holds(u)' => Holds(u) /\ u # s,
           \A t \in ViaHook : hpc'[t] = hpc[t] \/ hpc'[t] = "done",
           tpc' \notin {"delrow", "delfolds"}
    PROVE  DedupOK'
  <1>1. s \in Lasting => s \in SameKey(s) /\ folded[s] = 0
    BY DEF Claimed, SameKey
  <1>2. \A u \in Sightings : folded[u] \in Nat /\ folded'[u] = IF u = s THEN folded[u] + 1 ELSE folded[u]
    BY DEF Upsert, FoldTypeOK, TableOK
  <1>3. \A u \in Lasting : u \in Sightings
    BY DEF Lasting
  <1>4. \A u \in Lasting : folded'[u] = IF u = s THEN 1 ELSE folded[u]
    BY <1>1, <1>2, <1>3
  <1>5. AppliedOK'
    <2>1. ASSUME NEW u \in Lasting PROVE folded'[u] <= 1 /\ (folded'[u] > 0 => Key(u) \in folds')
      BY <1>4 DEF DedupOK, AppliedOK, Claimed
    <2>2. ASSUME NEW u \in Lasting, folded'[u] > 0, NEW v \in SameKey(u), v # u PROVE folded'[v] = 0
      <3>1. v \in Lasting /\ Key(v) = Key(u)
        BY DEF SameKey
      <3>2. CASE u = s
        BY <1>4, <2>2, <3>1, <3>2 DEF Claimed
      <3>3. CASE u # s
        <4>1. folded[u] > 0 /\ folded[v] = 0
          BY <1>4, <2>2, <3>3 DEF DedupOK, AppliedOK
        <4>2. v # s
          BY <3>1, <4>1 DEF Claimed, SameKey
        <4> QED
          BY <1>4, <3>1, <4>1, <4>2
      <3> QED
        BY <3>2, <3>3
    <2> QED
      BY <2>1, <2>2 DEF AppliedOK, SameKey
  <1>6. ASSUME NEW u \in Lasting, Holds(u)' PROVE Claimed(u)'
    <2>1. Holds(u) /\ u # s /\ Claimed(u)
      BY <1>6 DEF DedupOK, HeldOK
    <2>2. s \notin SameKey(u)
      BY <2>1 DEF Claimed, SameKey
    <2>3. \A v \in SameKey(u) : folded'[v] = 0 /\ (Holds(v)' => v = u)
      BY <1>4, <2>1, <2>2 DEF Claimed, SameKey
    <2> QED
      BY <2>1, <2>3 DEF Claimed, SameKey
  <1>7. HeldOK'
    BY <1>6 DEF DedupOK, HeldOK
  <1>8. CountOK'
    <2> SUFFICES ASSUME ToolSightings \subseteq Lasting PROVE row'.tools <= Cardinality(AppliedTools')
      BY DEF CountOK
    <2>1. row'.tools = Current.tools + (IF s \in ToolSightings THEN 1 ELSE 0)
      BY FoldRowType, SightingType DEF Upsert, FoldTypeOK, ToolSightings
    <2>2. Current.tools \in Nat /\ Current.tools <= Cardinality(AppliedTools)
      <3>1. Current.tools \in Nat /\ Cardinality(AppliedTools) \in Nat
        BY CurrentRow, AppliedFinite DEF FoldTypeOK, TableOK
      <3> QED
        BY <3>1 DEF Current, Fresh, DedupOK, CountOK
    <2>3. CASE s \in ToolSightings
      <3>1. AppliedTools' = AppliedTools \cup {Key(s)}
        BY <1>4, <2>3 DEF AppliedTools
      <3>2. Key(s) \notin AppliedTools
        BY <2>3 DEF AppliedTools, Claimed, SameKey
      <3>3. Cardinality(AppliedTools') = Cardinality(AppliedTools) + 1
        BY <3>1, <3>2, AppliedFinite, FS_AddElement
      <3> QED
        BY <2>1, <2>2, <2>3, <3>3, AppliedFinite
    <2>4. CASE s \notin ToolSightings
      <3>1. AppliedTools' = AppliedTools
        BY <1>2, <2>4 DEF AppliedTools, ToolSightings
      <3> QED
        BY <2>1, <2>2, <2>4, <3>1
    <2> QED
      BY <2>3, <2>4
  <1> QED
    BY <1>5, <1>7, <1>8 DEF DedupOK

LEMMA DedupHook ==
    ASSUME FoldTypeOK, DedupOK, NEW t \in ViaHook, HookPost(t) \/ HookStep(t)
    PROVE  DedupOK'
  <1>0. UNCHANGED <<tpc, left>>
    BY DEF HookPost, HookStep, HookClaim, HookApply, HookFails, scanVars
  <1>1. hpc \in [ViaHook -> {"new", "claim", "apply", "done"}]
    BY DEF FoldTypeOK, TableOK
  <1>2. Hook(t) \in Sightings /\ Hook(t) \in Lasting /\ \A u \in ViaHook : Hook(u) = Hook(t) => u = t
    BY SightingType DEF Hook
  <1>3. CASE HookPost(t) \/ HookFails(t)
    BY <1>0, <1>1, <1>3, DedupKept DEF HookPost, HookFails, dbVars, histVars, DedupOK
  <1>4. CASE HookClaim(t) /\ Stamp[Hook(t)] # None /\ Key(Hook(t)) \in folds
    BY <1>0, <1>1, <1>4, DedupKept DEF HookClaim, Claim, DedupOK
  <1>5. CASE HookClaim(t) /\ ~(Stamp[Hook(t)] # None /\ Key(Hook(t)) \in folds)
    <2>1. /\ hpc' = [hpc EXCEPT ![t] = "apply"] /\ folds' = folds \cup {Key(Hook(t))}
          /\ UNCHANGED <<row, folded>>
      BY <1>5 DEF HookClaim, Claim
    <2>2. Key(Hook(t)) \notin folds
      BY <1>5 DEF HookClaim, DedupOK, HeldOK
    <2>3. \A u \in Lasting : Holds(u)' => Holds(u) \/ u = Hook(t)
      BY <1>0, <1>1, <2>1, SightingType DEF Holds, Lasting
    <2>4. \A u \in ViaHook : IF Hook(t) = Hook(u) THEN hpc'[u] = "apply" ELSE hpc'[u] = hpc[u]
      BY <1>1, <1>2, <2>1
    <2> QED
      BY <1>0, <1>2, <2>1, <2>2, <2>3, <2>4, DedupClaimed DEF DedupOK
  <1>6. CASE HookApply(t)
    <2>1. /\ hpc[t] = "apply" /\ hpc' = [hpc EXCEPT ![t] = "done"] /\ Upsert(Hook(t), PidOf[t])
          /\ UNCHANGED folds
      BY <1>6 DEF HookApply
    <2>2. Claimed(Hook(t)) /\ PidOf[t] \in Pids \cup {0}
      <3>1. Holds(Hook(t))
        BY <2>1 DEF Holds, Hook
      <3> QED
        BY <1>2, <3>1, ClaudeAssumption DEF DedupOK, HeldOK
    <2>3. \A u \in Lasting : Holds(u)' => Holds(u) /\ u # Hook(t)
      BY <1>0, <1>1, <2>1, SightingType DEF Holds, Lasting, Hook
    <2>4. \A u \in ViaHook : hpc'[u] = hpc[u] \/ hpc'[u] = "done"
      BY <1>1, <2>1
    <2> QED
      BY <1>0, <1>2, <2>1, <2>2, <2>3, <2>4, DedupApplied DEF DedupOK
  <1> QED
    BY <1>3, <1>4, <1>5, <1>6 DEF HookStep

LEMMA DedupTail ==
    ASSUME FoldTypeOK, DedupOK, TailClaim \/ TailApply
    PROVE  DedupOK'
  <1>0. UNCHANGED hpc /\ left \in Seq(ViaLine) /\ left # <<>>
    BY DEF TailClaim, TailApply, FoldTypeOK, TailOK
  <1> DEFINE s == Line(Head(left))
  <1>1. s \in Sightings /\ s[1] = "line" /\ \A u \in ViaHook : s # Hook(u)
    BY <1>0, SightingType DEF Line, Hook
  <1>2. CASE TailClaim /\ Stamp[s] # None /\ Key(s) \in folds
    BY <1>0, <1>2, DedupKept DEF TailClaim, Claim, DedupOK
  <1>3. CASE TailClaim /\ ~(Stamp[s] # None /\ Key(s) \in folds)
    <2>1. /\ tpc = "claim" /\ tpc' = "apply" /\ folds' = folds \cup {Key(s)}
          /\ UNCHANGED <<row, folded, left>>
      BY <1>3 DEF TailClaim, Claim
    <2>2. s \in Lasting => Key(s) \notin folds
      BY <1>1, <1>3 DEF Lasting
    <2>3. \A u \in Lasting : Holds(u)' => Holds(u) \/ u = s
      BY <1>0, <2>1, SightingType DEF Holds, Lasting
    <2> QED
      BY <1>0, <1>1, <2>1, <2>2, <2>3, DedupClaimed
  <1>4. CASE TailApply
    <2>1. tpc = "apply" /\ tpc' = "claim" /\ Upsert(s, 0) /\ UNCHANGED folds
      BY <1>4 DEF TailApply
    <2>2. s \in Lasting => Claimed(s)
      <3>1. Holds(s)
        BY <2>1 DEF Holds, Line
      <3> QED
        BY <3>1 DEF DedupOK, HeldOK
    <2>3. \A u \in Lasting : Holds(u)' => Holds(u) /\ u # s
      BY <1>0, <1>1, <2>1 DEF Holds
    <2> QED
      BY <1>0, <1>1, <2>1, <2>2, <2>3, DedupApplied
  <1> QED
    BY <1>2, <1>3, <1>4

\* No row is old while the clock has not passed the retention.
LEMMA NotOld ==
    ASSUME FoldTypeOK, InWindow, Retention > 0
    PROVE  ~Old
  <1>1. row # None => row.last \in 0 .. MaxClock
    BY DEF FoldTypeOK, TableOK, Row
  <1>2. clock \in Nat /\ clock <= Retention
    BY DEF FoldTypeOK, TableOK, InWindow
  <1> QED
    BY <1>1, <1>2, ClaudeAssumption DEF Old

LEMMA DedupScan ==
    ASSUME FoldTypeOK, DedupOK, InWindow, ScanStep \/ Restart, ~TailClaim, ~TailApply
    PROVE  DedupOK'
  <1>1. \A t \in ViaHook : hpc'[t] = hpc[t] \/ hpc'[t] = "done"
    BY DEF ScanStep, FileGet, FileHasFold, FileWrite, ReadLine, Enrich, TailFails, LineDone,
           SaveCursor, SweepSelect, SweepMark, PruneSelect, PruneRow, PruneFolds, ScanFails, Restart
  <1>2. tpc' # "apply" /\ tpc' \notin {"delrow", "delfolds"}
    BY NotOld
       DEF ScanStep, FileGet, FileHasFold, FileWrite, ReadLine, Enrich, TailFails, LineDone,
           SaveCursor, SweepSelect, SweepMark, PruneSelect, PruneRow, PruneFolds, ScanFails, Restart,
           DedupOK
  <1>3. UNCHANGED <<folds, folded>>
    BY DEF ScanStep, FileGet, FileHasFold, FileWrite, ReadLine, Enrich, TailFails, LineDone,
           SaveCursor, SweepSelect, SweepMark, PruneSelect, PruneRow, PruneFolds, ScanFails, Restart,
           DedupOK, dbVars, histVars
  <1>4. row' # None => \/ row'.tools = 0
                       \/ row # None /\ row'.tools = row.tools
    <2>1. row \in Row \cup {None}
      BY DEF FoldTypeOK, TableOK
    <2>2. CASE FileWrite
      BY <2>1, <2>2 DEF FileWrite, Fresh, Row
    <2>3. CASE Enrich
      BY <2>1, <2>3 DEF Enrich, Current, Fresh, Row
    <2>4. CASE SweepMark
      BY <2>1, <2>4 DEF SweepMark, Row
    <2>5. CASE row' = row \/ row' = None
      BY <2>5
    <2> QED
      BY <2>2, <2>3, <2>4, <2>5
         DEF ScanStep, FileGet, FileHasFold, ReadLine, TailFails, LineDone, SaveCursor, SweepSelect,
             PruneSelect, PruneRow, PruneFolds, ScanFails, Restart, dbVars
  <1> QED
    BY <1>1, <1>2, <1>3, <1>4, DedupKept

\* The clock only moves on, so a window that is open was open before.
LEMMA WindowOpened ==
    ASSUME FoldTypeOK, [Next]_vars, InWindow'
    PROVE  InWindow
  <1>1. clock \in Nat /\ (clock' = clock \/ clock' = clock + 1)
    BY DEF FoldTypeOK, TableOK, Next, vars, ProcessEnds, WriteHalf, WriteRest, FileChanges, Tick,
           HookPost, HookStep, HookClaim, HookApply, HookFails, ScanStep, FileGet, FileHasFold,
           FileWrite, ReadLine, Enrich, TailClaim, TailApply, TailFails, LineDone, SaveCursor,
           SweepSelect, SweepMark, PruneSelect, PruneRow, PruneFolds, ScanFails, Restart
  <1> QED
    BY <1>1, ClaudeAssumption DEF InWindow

LEMMA FoldNext == FoldInv /\ [Next]_vars => FoldInv'
  <1> SUFFICES ASSUME FoldInv, [Next]_vars PROVE FoldInv'
    OBVIOUS
  <1>1. FoldTypeOK /\ FoldTypeOK'
    BY FoldTypeNext DEF FoldInv
  <1>2. ASSUME InWindow' PROVE DedupOK'
    <2>1. InWindow /\ DedupOK
      BY <1>1, <1>2, WindowOpened DEF FoldInv
    <2>2. CASE UNCHANGED <<row, folds, hpc, tpc, left, folded>>
      BY <1>1, <2>1, <2>2, DedupKept DEF DedupOK
    <2>3. CASE (\E p \in Pids : ProcessEnds(p)) \/ WriteHalf \/ WriteRest \/ FileChanges \/ Tick
               \/ UNCHANGED vars
      BY <2>2, <2>3 DEF ProcessEnds, WriteHalf, WriteRest, FileChanges, Tick, vars, dbVars, histVars,
                        scanVars
    <2>4. CASE \E t \in ViaHook : HookPost(t) \/ HookStep(t)
      BY <1>1, <2>1, <2>4, DedupHook
    <2>5. CASE ScanStep \/ Restart
      BY <1>1, <2>1, <2>5, DedupTail, DedupScan
    <2> QED
      BY <2>3, <2>4, <2>5 DEF Next
  <1> QED
    BY <1>1, <1>2 DEF FoldInv

LEMMA FoldInit == Init => FoldInv
  <1> SUFFICES ASSUME Init PROVE FoldInv
    OBVIOUS
  <1>1. FoldTypeOK
    <2>1. 0 \in 0 .. Len(Lines) /\ 0 \in 0 .. MaxClock
      BY ClaudeAssumption
    <2>2. TableOK
      BY <2>1 DEF Init, TableOK
    <2>3. TailOK
      <3>1. half = FALSE /\ written = 0 /\ cursor = 0 /\ pos = 0 /\ left = <<>> /\ tpc = "rest"
        BY DEF Init
      <3>2. half \in BOOLEAN /\ ~half
        BY <3>1
      <3>3. written \in 0 .. Len(Lines) /\ cursor \in Nat /\ pos \in Nat
        BY <2>1, <3>1
      <3>4. left \in Seq(ViaLine) /\ tpc # "apply"
        BY <3>1
      <3> QED
        BY <3>2, <3>3, <3>4 DEF TailOK
    <2>4. FileOK
      BY DEF Init, FileOK
    <2> QED
      BY <2>2, <2>3, <2>4 DEF FoldTypeOK
  <1>2. DedupOK
    <2>1. \A s \in Lasting : folded[s] = 0 /\ ~Holds(s)
      BY SightingType DEF Init, Holds, Lasting
    <2> QED
      BY <2>1 DEF Init, DedupOK, AppliedOK, HeldOK, CountOK
  <1> QED
    BY <1>1, <1>2 DEF FoldInv

\* applyFold: however hook handlers, scans that read the transcript again,
\* failures and crashes interleave, and whichever sightings carry a ts, one
\* sighting of a key is folded, once, and a row counts at most the keys of tool
\* calls, until folds are old enough to be pruned.
THEOREM FoldedOnce == Spec => []FoldedOncePerKey
  <1>1. FoldInv => FoldedOncePerKey
    <2> SUFFICES ASSUME FoldInv, InWindow
                 PROVE  /\ \A s \in Lasting : folded[s] <= 1
                        /\ \A s, u \in Lasting : s # u /\ Key(s) = Key(u) =>
                               folded[s] = 0 \/ folded[u] = 0
                        /\ row # None /\ ToolSightings \subseteq Lasting =>
                               row.tools <= Cardinality({Key(s) : s \in ToolSightings})
      BY DEF FoldedOncePerKey, InWindow
    <2>1. DedupOK
      BY DEF FoldInv
    <2>2. row # None => row.tools \in Nat
      BY DEF FoldInv, FoldTypeOK, TableOK, Row
    <2>3. ASSUME NEW s \in Lasting, NEW u \in Lasting, s # u, Key(s) = Key(u)
          PROVE  folded[s] = 0 \/ folded[u] = 0
      <3>1. folded[s] \in Nat /\ u \in SameKey(s)
        BY <2>3 DEF FoldInv, FoldTypeOK, TableOK, Lasting, SameKey
      <3> QED
        BY <2>1, <2>3, <3>1 DEF DedupOK, AppliedOK
    <2> QED
      BY <2>1, <2>2, <2>3, AppliedFinite DEF DedupOK, AppliedOK, CountOK
  <1> QED
    BY <1>1, FoldInit, FoldNext, PTL DEF Spec
=============================================================================
