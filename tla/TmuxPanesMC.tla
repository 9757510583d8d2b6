---------------------------- MODULE TmuxPanesMC ----------------------------
(* Instances of TmuxPanes for TLC. *)
EXTENDS TmuxPanes

CONSTANTS p1, p2, s1

\* Two panes of one session: one may close while the server goes on, the other
\* may also change its command.
TwoPanes   == {p1, p2}
OneSession == [p \in TwoPanes |-> s1]
FourViews  == {<<None, None>>, <<"zsh", None>>, <<"vim", None>>, <<"zsh", "zsh">>}
ViewsOfTwo == {[p \in TwoPanes |-> IF p = p1 THEN v[1] ELSE v[2]] : v \in FourViews}
=============================================================================
