------------------------------- MODULE CliMC -------------------------------
(* An instance of Cli for TLC. *)
EXTENDS Cli

CONSTANTS p1, p2

TwoProcs == {p1, p2}

None == [x \in {} |-> <<>>]
Ask(f, args, json) ==
    [field |-> f, args |-> args, malformed |-> f = "worktreeUpdated", json |-> json, retries |-> 2]
Retrying(a, n) == [a EXCEPT !.retries = n]

\* The command lines: by repo and by host, refused, rejected and plain ones;
\* with two retries, the default and a negative number.
AskLines ==
    {Ask("issueUpdated", [owner |-> <<"o">>, repo |-> <<"r">>], FALSE), Ask("issueUpdated", [owner |-> <<"o">>], FALSE),
     Ask("issueUpdated", [repo |-> <<"r">>], FALSE), Retrying(Ask("issueUpdated", [owner |-> <<"7">>], TRUE), 0),
     Ask("claudeSessionUpdated", [hostId |-> <<"b">>], FALSE), Ask("checkRunUpdated", None, FALSE),
     Retrying(Ask("checkRunUpdated", None, FALSE), -1),
     Ask("pluginLag", None, FALSE), Ask("tmuxEvents", [owner |-> <<"o">>], FALSE), Ask("worktreeUpdated", None, FALSE)}

IssueKey(owner, repo) == fill(kindSpecs["issue"].keyfmt, [owner |-> owner, repo |-> repo, disc |-> <<"7">>])

\* The repos r and r2, the owners o and o2, the hosts b and xb.
SixEvents ==
    <<[src |-> "github", key |-> IssueKey(<<"o">>, <<"r">>)],
      [src |-> "github", key |-> IssueKey(<<"o">>, <<"r", "2">>)],
      [src |-> "github", key |-> IssueKey(<<"o", "2">>, <<"r">>)],
      [src |-> "claude", key |-> <<"session", ":", "s", "@", "b">>],
      [src |-> "claude", key |-> <<"session", ":", "s", "@", "x", "b">>],
      [src |-> "github", key |-> IssueKey(<<"o">>, <<"r">>)]>>

Conf(ok, listen, tokens) == [ok |-> ok, listen |-> listen, tokens |-> tokens]
FourConfigs == {Defaults, Conf(TRUE, "loop", {}), Conf(TRUE, "net", {1, 2}), Conf(TRUE, "net", {})}

TwoHooks == {"SessionStart", "Stop"}
OneEntry == {"mine"}
Holds(json, user, n) == [json |-> json, user |-> user, ours |-> [e \in TwoHooks |-> IF e = "Stop" THEN n ELSE 0]]
FiveContents ==
    {Holds(j, {}, 0) : j \in {"missing", "torn", "null"}} \cup {Holds("object", OneEntry, n) : n \in 0 .. 1}

FiveCommands == {"hook", "query", "schema", "status", "install"}

\* What the proof that lines are printed as asked for asks of the instance.
ASSUME AsksPlain == NamesArePlain
=============================================================================
