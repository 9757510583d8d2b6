--------------------------- MODULE PeerMirrorMC ---------------------------
(* Instances of PeerMirror for TLC. *)
EXTENDS PeerMirror, TLC

CONSTANTS own, foreign, echo, c1, c2

\* A row of the remote, its mirror of a third box, and an echo of ours.
ThreeKeys == {own, foreign, echo}
ThreeHosts == [k \in ThreeKeys |-> IF k = own THEN "boxB" ELSE IF k = foreign THEN "boxC" ELSE "boxA"]
TwoCallers == {c1, c2}
=============================================================================
