------------------------- MODULE PeerMirrorProofs -------------------------
(***************************************************************************)
(* Proofs about module PeerMirror, for any keys, callers and TTL, and any  *)
(* number of ticks, flips and failures.                                    *)
(***************************************************************************)
EXTENDS PeerMirror, TLAPS

(* First-hop rows only. *)

Mirrorable == {k \in Keys : HostOf[k] = Remote}

\* Everything a request holds or was answered with, and every stored row,
\* is the remote's own.
HopInv ==
    /\ DOMAIN row = Keys
    /\ todo \in [Callers -> SUBSET Mirrorable]
    /\ kept \in [Callers -> SUBSET Mirrorable]
    /\ reply \in [Callers -> SUBSET Mirrorable]
    /\ Cached \subseteq Mirrorable

(* Announcements. *)

\* The loop remembers an earlier connection only of this process, and what
\* was announced was lost first.
SaidInv ==
    /\ drops \in Nat /\ told \in Nat
    /\ everUp /\ link # "live" => drops > 0
    /\ told > 0 => drops > 0

----------------------------------------------------------------------------

LEMMA HopInit == Init => HopInv
  BY DEF Init, HopInv, Cached

\* Returning with rows of the remote keeps every request's rows in order.
LEMMA ReturnHop ==
    ASSUME HopInv, NEW c \in Callers, NEW r \in SUBSET Mirrorable, Return(c, r)
    PROVE  /\ todo' \in [Callers -> SUBSET Mirrorable]
           /\ kept' \in [Callers -> SUBSET Mirrorable]
           /\ reply' \in [Callers -> SUBSET Mirrorable]
  BY DEF HopInv, Return

\* What may replace the table: its rows are a part of those it had.
LEMMA FewerRows ==
    ASSUME HopInv, DOMAIN row' = Keys, \A k \in Keys : row[k] = None => row'[k] = None
    PROVE  Cached' \subseteq Mirrorable
  BY DEF HopInv, Cached

LEMMA HopCall ==
    ASSUME HopInv, NEW c \in Callers, WarmRead(c) \/ Refresh(c) \/ CallStep(c)
    PROVE  HopInv'
  <1>1. CASE WarmRead(c)
    <2>1. Return(c, Cached) /\ UNCHANGED row /\ Cached \in SUBSET Mirrorable
      BY <1>1 DEF WarmRead, HopInv
    <2> QED
      BY <2>1, ReturnHop DEF HopInv, Cached
  <1>2. CASE Refresh(c) \/ Denied(c)
    BY <1>2 DEF Refresh, Denied, HopInv, Cached
  <1>3. CASE Answered(c)
    <2>1. PICK ks \in SUBSET Keys : todo' = [todo EXCEPT ![c] = FirstHop(ks)]
      BY <1>3 DEF Answered
    <2>2. FirstHop(ks) \subseteq Mirrorable
      BY DEF FirstHop, Mirrorable
    <2> QED
      BY <1>3, <2>1, <2>2 DEF Answered, HopInv, Cached
  <1>4. CASE ReplyDenied(c) \/ RefreshFails(c)
    <2>1. Return(c, {}) /\ UNCHANGED row
      BY <1>4 DEF ReplyDenied, RefreshFails
    <2> QED
      BY <2>1, ReturnHop DEF HopInv, Cached
  <1>5. CASE \E k \in Keys : Upsert(c, k)
    <2>1. PICK k \in Keys : Upsert(c, k)
      BY <1>5
    <2>2. k \in Mirrorable
      BY <2>1 DEF Upsert, HopInv
    <2>3. Cached' \subseteq Cached \cup {k}
      BY <2>1 DEF Upsert, HopInv, Cached
    <2> QED
      BY <2>1, <2>2, <2>3 DEF Upsert, HopInv
  <1>6. CASE Seen(c)
    BY <1>6 DEF Seen, HopInv, Cached
  <1>7. CASE Mirrored(c)
    <2>1. Return(c, kept[c]) /\ kept[c] \in SUBSET Mirrorable /\ row' \in {AfterPurge(at[c]), row}
      BY <1>7 DEF Mirrored, HopInv
    <2>2. DOMAIN row' = Keys /\ \A k \in Keys : row[k] = None => row'[k] = None
      BY <2>1 DEF AfterPurge, HopInv
    <2> QED
      BY <2>1, <2>2, ReturnHop, FewerRows DEF HopInv
  <1> QED
    BY <1>1, <1>2, <1>3, <1>4, <1>5, <1>6, <1>7 DEF CallStep

LEMMA HopNext == HopInv /\ [Next]_vars => HopInv'
  <1> SUFFICES ASSUME HopInv, [Next]_vars PROVE HopInv'
    OBVIOUS
  <1>1. CASE UNCHANGED <<row, todo, kept, reply>>
    BY <1>1 DEF HopInv, Cached
  <1>2. CASE BoxFlips \/ Tick \/ LinkStep \/ LagFrame \/ Dropped \/ UNCHANGED vars
    BY <1>1, <1>2 DEF BoxFlips, Tick, LinkStep, Connect, DialFails, HandleDrop, Redial, LagFrame,
                      Dropped, vars, callVars
  <1>3. CASE Restart
    BY <1>3 DEF Restart, HopInv, Cached
  <1> QED
    BY <1>2, <1>3, HopCall DEF Next

\* mirror's loop guards: no row of a third box or of our own is ever stored
\* or served, whatever the remote answers with and however refreshes, purges
\* and restarts interleave.
THEOREM FirstHopOnly == Spec => []NoPeerOfPeer
  <1>1. Init => HopInv
    BY HopInit
  <1>2. HopInv /\ [Next]_vars => HopInv'
    BY HopNext
  <1>3. HopInv => NoPeerOfPeer
    BY DEF HopInv, NoPeerOfPeer, Cached, Mirrorable
  <1> QED
    BY <1>1, <1>2, <1>3, PTL DEF Spec

----------------------------------------------------------------------------

LEMMA SaidNext == SaidInv /\ [Next]_vars => SaidInv'
  <1> SUFFICES ASSUME SaidInv, [Next]_vars PROVE SaidInv'
    OBVIOUS
  <1>1. CASE UNCHANGED <<drops, told, everUp, link>>
    BY <1>1 DEF SaidInv
  <1>2. CASE BoxFlips \/ Tick \/ LagFrame \/ UNCHANGED vars
    BY <1>1, <1>2 DEF BoxFlips, Tick, LagFrame, vars, linkVars
  <1>3. ASSUME NEW c \in Callers, WarmRead(c) \/ Refresh(c) \/ CallStep(c) PROVE SaidInv'
    BY <1>1, <1>3 DEF WarmRead, Refresh, CallStep, Answered, Denied, ReplyDenied, RefreshFails,
                      Upsert, Seen, Mirrored, linkVars
  <1>4. CASE LinkStep \/ Dropped
    <2>1. CASE Connect
      BY <2>1 DEF Connect, SaidInv
    <2>2. CASE DialFails
      BY <2>2 DEF DialFails, SaidInv
    <2>3. CASE HandleDrop
      <3>1. link = "drop" /\ link' = "sleep" /\ UNCHANGED drops /\ everUp' = (everUp /\ ~denied)
        BY <2>3 DEF HandleDrop
      <3>2. told' = told \/ (told' = told + 1 /\ everUp)
        BY <2>3 DEF HandleDrop, SaysStale
      <3>3. drops > 0 \/ (told' = told /\ ~everUp')
        BY <3>1, <3>2 DEF SaidInv
      <3>4. told' \in Nat
        BY <3>2 DEF SaidInv
      <3> QED
        BY <3>1, <3>3, <3>4 DEF SaidInv
    <2>4. CASE Redial
      BY <2>4 DEF Redial, SaidInv
    <2>5. CASE Dropped
      BY <2>5 DEF Dropped, SaidInv
    <2> QED
      BY <1>4, <2>1, <2>2, <2>3, <2>4, <2>5 DEF LinkStep
  <1>5. CASE Restart
    BY <1>5 DEF Restart, SaidInv
  <1> QED
    BY <1>2, <1>3, <1>4, <1>5 DEF Next

\* runLiveness: a process that never had a live subscription emits no
\* peer.stale, however often requests set and clear the peer's mark.
THEOREM SilentUntilUp == Spec => []NeverUpIsSilent
  <1>1. Init => SaidInv
    BY DEF Init, SaidInv
  <1>2. SaidInv /\ [Next]_vars => SaidInv'
    BY SaidNext
  <1>3. SaidInv => NeverUpIsSilent
    BY DEF SaidInv, NeverUpIsSilent
  <1> QED
    BY <1>1, <1>2, <1>3, PTL DEF Spec
=============================================================================
