--------------------------- MODULE GithubCacheMC ---------------------------
(* Instances of GithubCache for TLC. *)
EXTENDS GithubCache

CONSTANTS issue, run, r1, r2, l1

\* An issue (GraphQL shape, listed) and a check run (REST body, TTL).
BothKeys   == {issue, run}
OneIssue   == {issue}
OneRun     == {run}
NoKeys     == {}
TwoReaders == {r1, r2}
OneReader  == {r1}
OneLister  == {l1}
Nobody     == {}
NoPins     == {}
LastPins   == {<<issue, 2>>}

=============================================================================
