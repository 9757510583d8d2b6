---------------------------- MODULE GraphSchema ----------------------------
(***************************************************************************)
(* The executable schema (graph/generated.go) as tables: what each object  *)
(* has, which of it may be null, which of it is a resolver of its own, and *)
(* how a null spreads. A value is "Null" or "Value": a null in a required  *)
(* field makes the object null, a null element makes a list of non-null    *)
(* elements null, and a null required root field makes the data null.      *)
(***************************************************************************)
EXTENDS Integers, FiniteSets

\* A type: its required fields, its nullable ones, and its joins, the fields
\* that run a resolver of their own, concurrently with each other.
Object(req, opt, join) == [req |-> req, opt |-> opt, join |-> join]

EventObject == Object({"ts", "type", "v", "key", "payload"}, {}, {})

Health == Object({"plugin", "cursor", "lagSeconds", "state"}, {"lastEventAt"}, {})

ClaudeSession ==
    Object({"hostId", "sessionId", "cwd", "state", "toolCalls", "startedAt", "lastEventAt"},
           {"gitBranch", "issueNumber", "model", "lastTool", "prNumber", "prUrl", "staleSince",
            "mission", "lastResponse", "paneTitle"}, {})

ClaudeInstance == Object({"hostId", "pane", "pid", "session"}, {"staleSince"}, {})

ClaudeEvent == EventObject

Repo == Object({"hostId", "slug", "root", "worktrees"}, {"staleSince"}, {"worktrees"})

Worktree ==
    Object({"hostId", "repoSlug", "path", "head", "detached"},
           {"branch", "ahead", "behind", "staleSince", "tmuxSession", "issue", "pullRequest"},
           {"tmuxSession", "issue", "pullRequest"})

GitEvent == EventObject

Assignee == Object({"login"}, {}, {})

Issue ==
    Object({"number", "title", "state", "url", "labels", "assignees", "tmuxPanes", "claudeSessions"},
           {"updatedAt"}, {"tmuxPanes", "claudeSessions"})

PullRequest ==
    Object({"number", "title", "state", "url", "labels", "headRefName", "draft", "tmuxPanes", "claudeSessions"},
           {"updatedAt", "baseRefName", "reviewDecision", "statusCheckRollup", "mergeStateStatus"},
           {"tmuxPanes", "claudeSessions"})

GithubEvent == EventObject

Peer == Object({"hostId", "url", "remoteMaxPluginLagSeconds", "mirroredKeys"}, {"lastSeenAt", "staleSince"}, {})

TmuxSession == Object({"hostId", "name"}, {"worktree", "branch", "lastSeenAt", "staleSince"}, {})

PathIsRequired ==
    Object({"hostId", "key", "session", "window", "pane", "pid", "cmd", "active", "free", "path"},
           {"staleSince"}, {})

TmuxPane ==
    Object({"hostId", "key", "session", "window", "pane", "pid", "cmd", "active", "free"},
           {"path", "staleSince"}, {})

Slot == Object({"hostId", "kind", "free"}, {"paneKey", "staleSince"}, {})

TmuxEvent == EventObject

TemplateEvent == EventObject

----------------------------------------------------------------------------
(* The root fields: the type a resolver's value is marshalled as, and how. *)

List(T) == [of |-> T, shape |-> "list"]
Node(T) == [of |-> T, shape |-> "node"]
Scalar == [of |-> Object({}, {}, {}), shape |-> "scalar"]

CoreRoots == [health |-> List(Health), ping |-> Scalar]

ClaudeRoots ==
    [claudeSessions |-> List(ClaudeSession), claudeSession |-> Node(ClaudeSession),
     claudeInstances |-> List(ClaudeInstance)]

GitRoots == [repos |-> List(Repo)]

GithubNodeRoots == [issue |-> Node(Issue), pullRequest |-> Node(PullRequest)]

GithubListRoots == [issuesForRepo |-> List(Issue), pullRequestsForRepo |-> List(PullRequest)]

PeerRoots == [peers |-> List(Peer)]

TemplateRoots == [templatePing |-> Scalar]

TmuxRowRoots == [tmuxSessions |-> List(TmuxSession), tmuxPanes |-> List(TmuxPane)]

TmuxPickRoots == [slots |-> List(Slot), freeSlots |-> List(Slot), paneForBranch |-> List(TmuxPane)]

Tables == <<CoreRoots, ClaudeRoots, GitRoots, GithubNodeRoots, GithubListRoots, PeerRoots, TemplateRoots,
            TmuxRowRoots, TmuxPickRoots>>

RootFields == UNION {DOMAIN Tables[i] : i \in DOMAIN Tables}

\* The root field f of _Query.
QueryRoot(f) == LET i == CHOOSE j \in DOMAIN Tables : f \in DOMAIN Tables[j] IN Tables[i][f]

\* _Query counts a null of these roots as invalid; the other three may be null.
RequiredCoreAndClaude == {"health", "ping", "claudeSessions", "claudeInstances"}

RequiredGitAndGithub == {"repos", "issuesForRepo", "pullRequestsForRepo"}

RequiredPeerAndTmux ==
    {"peers", "templatePing", "tmuxSessions", "tmuxPanes", "slots", "freeSlots", "paneForBranch"}

RequiredRoots == RequiredCoreAndClaude \cup RequiredGitAndGithub \cup RequiredPeerAndTmux

----------------------------------------------------------------------------
(* The joins: the object they hang off, reached under a root, and their value. *)

Join(under, field, root) == [under |-> under, field |-> field, root |-> root]

IssueJoins ==
    [issue_tmuxPanes |-> Join("issue", "tmuxPanes", List(TmuxPane)),
     issue_claudeSessions |-> Join("issue", "claudeSessions", List(ClaudeSession))]

PullRequestJoins ==
    [pr_tmuxPanes |-> Join("pullRequest", "tmuxPanes", List(TmuxPane)),
     pr_claudeSessions |-> Join("pullRequest", "claudeSessions", List(ClaudeSession))]

RepoJoins == [repo_worktrees |-> Join("repos", "worktrees", List(Worktree))]

WorktreeJoins ==
    [worktree_tmuxSession |-> Join("repo_worktrees", "tmuxSession", Node(TmuxSession)),
     worktree_issue |-> Join("repo_worktrees", "issue", Node(Issue)),
     worktree_pullRequest |-> Join("repo_worktrees", "pullRequest", Node(PullRequest))]

JoinTables == <<IssueJoins, PullRequestJoins, RepoJoins, WorktreeJoins>>

JoinFields == UNION {DOMAIN JoinTables[i] : i \in DOMAIN JoinTables}

\* The join field f of its object.
JoinField(f) == LET i == CHOOSE j \in DOMAIN JoinTables : f \in DOMAIN JoinTables[j] IN JoinTables[i][f]

----------------------------------------------------------------------------
(* The subscription fields: the bus source each relays, and its arguments. *)

Stream(src, args, of) == [src |-> src, args |-> args, of |-> of]

PluginLagField == [pluginLag |-> Stream("core", {"thresholdSeconds"}, Health)]

ClaudeField == [claudeSessionUpdated |-> Stream("claude", {"hostId"}, ClaudeEvent)]

GitField == [worktreeUpdated |-> Stream("git", {}, GitEvent)]

GithubFields ==
    [checkRunUpdated |-> Stream("github", {}, GithubEvent),
     issueUpdated |-> Stream("github", {"owner", "repo"}, GithubEvent)]

TemplateField == [templateEvents |-> Stream("template", {}, TemplateEvent)]

TmuxField == [tmuxEvents |-> Stream("tmux", {}, TmuxEvent)]

StreamTables == <<PluginLagField, ClaudeField, GitField, GithubFields, TemplateField, TmuxField>>

\* The field f of _Subscription, which takes exactly one.
StreamField(f) == LET i == CHOOSE j \in DOMAIN StreamTables : f \in DOMAIN StreamTables[j] IN StreamTables[i][f]

----------------------------------------------------------------------------
(* Marshalling. *)

\* The object of type T whose fields nulls are null.
MarshalObject(T, nulls) == IF nulls \cap T.req # {} THEN "Null" ELSE "Value"

\* A non-null list of non-null elements.
MarshalList(elements) == IF "Null" \in elements THEN "Null" ELSE "Value"

\* The data of a response, from the value of each selected root field.
MarshalQuery(values) ==
    IF \E f \in DOMAIN values : f \in RequiredRoots /\ values[f] = "Null" THEN "Null" ELSE "Value"
=============================================================================
