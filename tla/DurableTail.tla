---------------------------- MODULE DurableTail ----------------------------
(***************************************************************************)
(* What the core promises a reader of its event stream, with the machinery *)
(* left out: events become durable one at a time in their plugin's log,    *)
(* and a subscription delivers durable events of its source, each at most  *)
(* once. It may skip events (a live tail, not a durable log).              *)
(***************************************************************************)
EXTENDS Naturals, Sequences

CONSTANTS Plugins, Tails, SourceOf, Event

VARIABLES log, received

tailVars == <<log, received>>

Committed == {e \in Event : \E p \in Plugins : \E i \in DOMAIN log[p] : log[p][i] = e}

Delivered(s) == {received[s][i] : i \in DOMAIN received[s]}

Init ==
    /\ log = [p \in Plugins |-> <<>>]
    /\ received = [s \in Tails |-> <<>>]

Commit(p, e) ==
    /\ e.src = p
    /\ e \notin Committed
    /\ log' = [log EXCEPT ![p] = Append(@, e)]
    /\ UNCHANGED received

Deliver(s, e) ==
    /\ e \in Committed \ Delivered(s)
    /\ SourceOf[s] \in {0, e.src}
    /\ received' = [received EXCEPT ![s] = Append(@, e)]
    /\ UNCHANGED log

\* The inequalities follow from the rest; they spare the checker a search.
Next ==
    \/ log' # log /\ \E p \in Plugins, e \in Event : Commit(p, e)
    \/ received' # received /\ \E s \in Tails, e \in Event : Deliver(s, e)

Spec == Init /\ [][Next]_tailVars
=============================================================================
