-------------------------- MODULE GithubIngestMC --------------------------
(* An instance of GithubIngest for TLC. *)
EXTENDS GithubIngest, TLC

CONSTANTS h1, h2

TwoHandlers == {h1, h2}
Alike == Permutations(TwoHandlers)

Says(event, disc, isPR, prs) ==
    [event |-> event, owner |-> <<"o">>, repo |-> <<"r">>, disc |-> disc, isPR |-> isPR, prs |-> prs]

\* A check run on a pull request, and a comment on a pull request.
CheckAndComment ==
    <<Says("check_run", <<"5">>, FALSE, {<<"1">>}), Says("issue_comment", <<"7">>, TRUE, {})>>

\* What the proof that deliveries purge their objects asks of the payloads.
ASSUME PayloadsPlain == PayloadsArePlain
=============================================================================
