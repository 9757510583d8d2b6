------------------------------- MODULE HubMC -------------------------------
(* Instances of Hub for TLC. *)
EXTENDS Hub, TLC

CONSTANT s1

OneSub  == {s1}
NoSubs  == {}

\* The tail follows plugin 2 only.
SecondOnly == [s \in OneSub |-> 2]
=============================================================================
