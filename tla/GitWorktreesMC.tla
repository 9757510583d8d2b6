--------------------------- MODULE GitWorktreesMC ---------------------------
(* A small instance of GitWorktrees: two roots, two paths. *)
EXTENDS GitWorktrees

CONSTANTS w1, w2, r1, r2

TwoWts == {w1, w2}
TwoRoots == <<r1, r2>>

\* A head without an upstream, and another one that is ahead of its own.
TwoWorks == {<<"h", None>>, <<"k", "ahead">>}
=============================================================================
