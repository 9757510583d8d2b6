----------------------------- MODULE GraphReads -----------------------------
(***************************************************************************)
(* One GraphQL query (graph/*.resolvers.go, graph/*_map.go) over the       *)
(* plugins' tables while the plugins go on writing them. Root fields, and  *)
(* the join fields of one object, resolve concurrently; each of their SQL  *)
(* statements is one step. Reads are cache-only. The joins swallow the     *)
(* errors of their reads, and only the tmux and peer roots report theirs.  *)
(*                                                                         *)
(* A branch is the triple issuekey's pattern splits it into: what comes    *)
(* before the digits, the number, and what follows. A tmux session has one *)
(* pane, which goes by the session's name; names are ordered as integers.  *)
(* A query asks for one issue, one pull request or one repo with one       *)
(* worktree; ghosts record which rows were there at some time, and at      *)
(* every time, since it began.                                             *)
(***************************************************************************)
EXTENDS GraphSchema, Sequences, FiniteSetsExt

CONSTANTS
    Selections,  \* the queries: their fields, and what is in play: the rows tmux,
                 \* claude and pr with their branches, the branches tree of the
                 \* worktree, and here, whether a session's path is the worktree's
    Bodies,      \* what a pull request's body and title refer to
    N,           \* the number of the issue asked for
    K,           \* and of the pull request
    MaxWrites,   \* how often the plugins write while a query runs
    MaxFaults    \* how many of its reads fail

NoBranch == <<"", 0, "">>
Absent == [absent |-> TRUE]

\* A query selects a join only on its object. Issue and pull request numbers
\* are GitHub's, from 1.
ASSUME GraphAssumption ==
    /\ N \in Nat \ {0}
    /\ \A s \in Selections :
          /\ s.fields \subseteq RootFields \cup JoinFields
          /\ \A f \in s.fields \cap JoinFields : JoinField(f).under \in s.fields
          /\ IsFiniteSet(s.pr) /\ s.pr \subseteq Nat \ {0}

VARIABLES
    sel,     \* the query, a member of Selections
    db,      \* the tables: tmux sessions, claude sessions, pull requests, the issue, the worktree's branch
    writes,  \* writes so far
    pc,      \* where each selected field is
    got,     \* the rows each has read
    memo,    \* issueMemo: its sync.Once and the branches
    left,    \* branches issue_tmuxPanes has yet to look up
    failed,  \* fields with a failed read
    ever,    \* facts that held at some time (ghost)
    always,  \* facts that held all the time (ghost)
    reply    \* [data, errors], or [data |-> "none"] until the response

tables == <<db, writes, ever, always>>
queryVars == <<sel, tables, pc, got, memo, left, failed, reply>>

----------------------------------------------------------------------------
(* internal/issuekey *)

\* The issue a branch name encodes, as a set of one or none: issueN or
\* issue-N, up to a "/", a "-" or the end. "issue0" encodes 0.
FromBranch(b) == {n \in {b[2]} : b[1] \in {"issue", "issue-"} /\ b[3] \in {"", "/", "-"}}

\* The issues a text closes: a closing verb and a bare #n; owner/repo#n is dropped.
ClosingRefs(body) == {r.n : r \in {x \in body : x.verb /\ x.local}}

----------------------------------------------------------------------------
(* The tables and their writers. *)

TmuxRow == [branch : sel.branches, here : sel.here]
PrRow == [head : sel.branches, body : Bodies]

Facts(d) ==
    [tmux |-> {[id |-> s, row |-> d.tmux[s]] : s \in sel.tmux},
     claude |-> {[id |-> c, row |-> d.claude[c]] : c \in {x \in sel.claude : d.claude[x] # Absent}},
     pr |-> {[id |-> k, row |-> d.pr[k]] : k \in {x \in sel.pr : d.pr[x] # Absent}}]

\* A claude row as one hook or transcript line with branch b made it.
ClaudeRow(b, n) == [branch |-> b, issue |-> n]

\* issueFromBranch: the column holds 0 for a branch without an issue, which is
\* also what "issue0" gives.
IssueFromBranch(b) == IF FromBranch(b) = {} THEN 0 ELSE b[2]

Derived(b) == {IssueFromBranch(b), N}   \* the branch's issue, or an explicit issue_number

QueryInit ==
    /\ sel \in Selections
    /\ db \in [tmux : [sel.tmux -> TmuxRow],
               claude : [sel.claude -> {Absent} \cup UNION {{ClaudeRow(b, n) : n \in Derived(b)} : b \in sel.branches}],
               pr : [sel.pr -> {Absent} \cup PrRow],
               issue : BOOLEAN,
               branch : sel.tree]
    /\ writes = 0
    /\ ever = Facts(db) /\ always = Facts(db)
    /\ pc = [f \in sel.fields |-> IF f \in RootFields THEN "todo" ELSE "wait"]
    /\ got = [f \in sel.fields |-> {}]
    /\ memo = [once |-> "new", set |-> {}]
    /\ left = {} /\ failed = {} /\ reply = [data |-> "none"]

Write(d) ==
    /\ reply.data = "none" /\ writes < MaxWrites
    /\ writes' = writes + 1
    /\ db' = d
    /\ ever' = [t \in DOMAIN ever |-> ever[t] \cup Facts(d)[t]]
    /\ always' = [t \in DOMAIN always |-> always[t] \cap Facts(d)[t]]
    /\ UNCHANGED <<sel, pc, got, memo, left, failed, reply>>

\* tmux upsertSession; a session's row is never deleted.
WriteSession(s) == \E r \in TmuxRow : Write([db EXCEPT !.tmux[s] = r])

\* claude foldSQL and enrichSQL: an empty branch and a zero issue leave the
\* stored ones, so an issue once set stays when the session changes branch.
WriteClaude(c) ==
    \E b \in sel.branches : \E n \in Derived(b) :
        LET old == IF db.claude[c] = Absent THEN ClaudeRow(NoBranch, 0) ELSE db.claude[c]
        IN  Write([db EXCEPT !.claude[c] = ClaudeRow(IF b # NoBranch THEN b ELSE old.branch,
                                                     IF n # 0 THEN n ELSE old.issue)])

\* claude prune
PruneClaude(c) == db.claude[c] # Absent /\ Write([db EXCEPT !.claude[c] = Absent])

\* github upsert and purge
WritePullRequest(k) == \E r \in PrRow \cup {Absent} : Write([db EXCEPT !.pr[k] = r])

----------------------------------------------------------------------------
(* Reads. *)

\* A statement of field f succeeds or fails.
Statement(f, ok) ==
    IF ok THEN UNCHANGED failed ELSE Cardinality(failed) < MaxFaults /\ failed' = failed \cup {f}

\* What a statement returns: its rows, or nothing where the error is swallowed.
Rows(ok, rows) == IF ok THEN rows ELSE {}

SessionRows(c) == {[id |-> x, branch |-> db.claude[x].branch, issue |-> db.claude[x].issue] :
                      x \in {y \in c : db.claude[y] # Absent}}

\* claude.QuerySessions with an issue number, and without.
SessionsByIssue(n) == {r \in SessionRows(sel.claude) : r.issue = n}
QuerySessions == SessionRows(sel.claude)

\* tmux.PaneForBranch
PaneForBranch(b) == {[id |-> s] : s \in {x \in sel.tmux : db.tmux[x].branch = b}}

\* github.CachedPRs
CachedPRs == {[id |-> k, head |-> db.pr[k].head, body |-> db.pr[k].body] : k \in {x \in sel.pr : db.pr[x] # Absent}}

\* github.Issue and github.PullRequest by key
CachedIssue(n) == IF db.issue /\ n = N THEN {[id |-> N]} ELSE {}
CachedPR(k) == {r \in CachedPRs : r.id = k}

TmuxSessions == {[id |-> s, branch |-> db.tmux[s].branch, here |-> db.tmux[s].here] : s \in sel.tmux}

PaneRows == {[id |-> s] : s \in sel.tmux}

\* The rows of the roots no join reads: one each.
Generic == {[id |-> 1]}

RootRows(f) ==
    CASE f \in {"issue", "issuesForRepo"} -> CachedIssue(N)
      [] f = "pullRequest" -> CachedPR(K)
      [] f = "pullRequestsForRepo" -> CachedPRs
      [] f \in {"claudeSessions", "claudeSession", "claudeInstances"} -> QuerySessions
      [] f = "tmuxSessions" -> TmuxSessions
      [] f \in {"tmuxPanes", "slots", "freeSlots"} -> PaneRows
      [] f = "paneForBranch" -> PaneForBranch(db.branch)
      [] OTHER -> Generic

Children(f) == {j \in sel.fields \cap JoinFields : JoinField(j).under = f}

\* Field f is resolved to rows, on top of what it had. Its joins start, or
\* there is nothing for them to hang off.
Finish(f, rows) ==
    LET all == got[f] \cup rows
        below == Children(f) \cup UNION {Children(c) : c \in Children(f)}
    IN  /\ got' = [got EXCEPT ![f] = all]
        /\ pc' = [g \in DOMAIN pc |->
                     IF g = f \/ (all = {} /\ g \in below) THEN "done"
                     ELSE IF g \in Children(f) THEN "todo" ELSE pc[g]]

\* Field f goes on to its next statement.
Continue(f, rows, at) ==
    /\ got' = [got EXCEPT ![f] = @ \cup rows]
    /\ pc' = [pc EXCEPT ![f] = at]

\* add: rows of a session not seen before.
Unseen(f, rows) == {r \in rows : \A q \in got[f] : q.id # r.id}

----------------------------------------------------------------------------
(* The resolvers. *)

\* A root field: one statement, none for health and the pings. Which panes
\* are free is the tmux plugin's business.
ResolveRoot(f) ==
    /\ pc[f] = "todo"
    /\ \E ok \in IF f \in {"health", "ping", "templatePing"} THEN {TRUE} ELSE BOOLEAN :
           /\ Statement(f, ok)
           /\ \E rows \in IF f = "freeSlots" THEN SUBSET RootRows(f) ELSE {RootRows(f)} :
                  Finish(f, Rows(ok, rows))
    /\ UNCHANGED <<sel, tables, memo, left, reply>>

ResolveWorktrees(f) ==
    /\ pc[f] = "todo"
    /\ \E ok \in BOOLEAN : Statement(f, ok) /\ Finish(f, Rows(ok, {[id |-> 1, branch |-> db.branch]}))
    /\ UNCHANGED <<sel, tables, memo, left, reply>>

EnterUnmemoized(f) ==
    /\ pc[f] = "todo"
    /\ memo.once \in {"new", "done"}
    /\ memo' = [once |-> "tmux", set |-> {}] /\ Continue(f, {}, "compute") /\ UNCHANGED left
    /\ UNCHANGED <<sel, tables, failed, reply>>

\* issueBranches: the first of the two siblings computes the branches, the
\* other waits for it and takes them.
EnterOnce(f) ==
    /\ pc[f] = "todo"
    /\ \/ memo.once = "new" /\ memo' = [memo EXCEPT !.once = "tmux"] /\ Continue(f, {}, "compute") /\ UNCHANGED left
       \/ memo.once = "done" /\ UNCHANGED memo /\ Continue(f, {}, "read")
          /\ left' = IF f = "issue_tmuxPanes" THEN memo.set ELSE left
    /\ UNCHANGED <<sel, tables, failed, reply>>

LinksMentions(head, body, n) == head # NoBranch /\ (n \in FromBranch(head) \/ n \in {r.n : r \in body})

\* A cached pull request links its head branch to issue n.
Links(head, body, n) == head # NoBranch /\ (n \in FromBranch(head) \/ n \in ClosingRefs(body))

\* computeIssueBranches: three statements, one after the other.
ComputeBranches(f) ==
    /\ pc[f] = "compute"
    /\ \E ok \in BOOLEAN :
        /\ Statement(f, ok)
        /\ CASE memo.once = "tmux" ->
                  /\ memo' = [once |-> "claude",
                              set |-> {r.branch : r \in {x \in Rows(ok, TmuxSessions) : N \in FromBranch(x.branch)}}]
                  /\ UNCHANGED <<pc, left>>
             [] memo.once = "claude" ->
                  /\ memo' = [once |-> "prs",
                              set |-> memo.set \cup ({r.branch : r \in Rows(ok, SessionsByIssue(N))} \ {NoBranch})]
                  /\ UNCHANGED <<pc, left>>
             [] OTHER ->
                  /\ memo' = [once |-> "done",
                              set |-> memo.set
                                      \cup {r.head : r \in {x \in Rows(ok, CachedPRs) : Links(x.head, x.body, N)}}]
                  /\ pc' = [pc EXCEPT ![f] = "read"]
                  /\ left' = IF f = "issue_tmuxPanes" THEN memo'.set ELSE left
    /\ UNCHANGED <<sel, tables, got, reply>>

\* tmuxPanesForIssue: the panes of each branch, in the map's order.
IssuePanes(f) ==
    /\ pc[f] = "read"
    /\ IF left = {} THEN Finish(f, {}) /\ UNCHANGED <<left, failed>>
       ELSE \E b \in left, ok \in BOOLEAN :
                Statement(f, ok) /\ Continue(f, Rows(ok, PaneForBranch(b)), "read") /\ left' = left \ {b}
    /\ UNCHANGED <<sel, tables, memo, reply>>

\* claudeSessionsForIssue: the sessions keyed to the issue, then those on a branch.
IssueSessions(f) ==
    /\ pc[f] = "read"
    /\ \E ok \in BOOLEAN : Statement(f, ok) /\ Continue(f, Rows(ok, SessionsByIssue(N)), "scan")
    /\ UNCHANGED <<sel, tables, memo, left, reply>>

ScanIssueSessions(f) ==
    /\ pc[f] = "scan"
    /\ \E ok \in BOOLEAN :
           /\ Statement(f, ok)
           /\ Finish(f, Unseen(f, Rows(ok, {r \in QuerySessions : r.branch # NoBranch /\ r.branch \in memo.set})))
    /\ UNCHANGED <<sel, tables, memo, left, reply>>

\* The head branch of the pull request the query holds.
HeadRef == LET r == CHOOSE x \in got["pullRequest"] : TRUE IN r.head

\* panesForBranchModel, also for a head the row does not have.
PullRequestPanes(f) ==
    /\ pc[f] = "todo"
    /\ \E ok \in BOOLEAN : Statement(f, ok) /\ Finish(f, Rows(ok, PaneForBranch(HeadRef)))
    /\ UNCHANGED <<sel, tables, memo, left, reply>>

\* claudeSessionsOnBranchModel: by the head's issue, if it has one, then by branch.
PullRequestSessions(f) ==
    /\ pc[f] = "todo"
    /\ \E n \in FromBranch(HeadRef), ok \in BOOLEAN :
           Statement(f, ok) /\ Continue(f, Rows(ok, SessionsByIssue(n)), "scan")
    /\ UNCHANGED <<sel, tables, memo, left, reply>>

ScanPullRequestSessions(f) ==
    /\ pc[f] = "scan" \/ (pc[f] = "todo" /\ FromBranch(HeadRef) = {})
    /\ \E ok \in BOOLEAN :
           Statement(f, ok) /\ Finish(f, Unseen(f, Rows(ok, {r \in QuerySessions : r.branch = HeadRef})))
    /\ UNCHANGED <<sel, tables, memo, left, reply>>

\* tmuxSessionForWorktree: of the sessions on the path, the first by name.
SessionForWorktree(rows) ==
    LET on == {r \in rows : r.here} IN {r \in on : \A q \in on : r.id <= q.id}

WorktreeSession(f) ==
    /\ pc[f] = "todo"
    /\ \E ok \in BOOLEAN : Statement(f, ok) /\ Finish(f, SessionForWorktree(Rows(ok, TmuxSessions)))
    /\ UNCHANGED <<sel, tables, memo, left, reply>>

\* The branch of the worktree the query holds.
TreeBranch == LET r == CHOOSE x \in got["repo_worktrees"] : TRUE IN r.branch

\* The cached issue its branch derives to; no statement when it derives to none.
WorktreeIssue(f) ==
    /\ pc[f] = "todo"
    /\ IF FromBranch(TreeBranch) = {} THEN Finish(f, {}) /\ UNCHANGED failed
       ELSE \E n \in FromBranch(TreeBranch), ok \in BOOLEAN :
                Statement(f, ok) /\ Finish(f, Rows(ok, CachedIssue(n)))
    /\ UNCHANGED <<sel, tables, memo, left, reply>>

\* PullRequest: the pull request with the branch's number is one candidate.
DirectPullRequest(f) ==
    /\ pc[f] = "todo"
    /\ IF TreeBranch = NoBranch THEN Finish(f, {}) /\ UNCHANGED failed
       ELSE IF FromBranch(TreeBranch) = {} THEN Continue(f, {}, "scan") /\ UNCHANGED failed
       ELSE \E n \in FromBranch(TreeBranch), ok \in BOOLEAN :
                Statement(f, ok) /\ Continue(f, {r \in Rows(ok, CachedPR(n)) : r.head = TreeBranch}, "scan")
    /\ UNCHANGED <<sel, tables, memo, left, reply>>

DirectHitWins(f) ==
    /\ pc[f] = "scan"
    /\ \E ok \in BOOLEAN :
           /\ Statement(f, ok)
           /\ LET all == IF got[f] # {} THEN got[f] ELSE {r \in Rows(ok, CachedPRs) : r.head = TreeBranch}
              IN  /\ got' = [got EXCEPT ![f] = {r \in all : \A q \in all : r.id >= q.id}]
                  /\ pc' = [pc EXCEPT ![f] = "done"]
    /\ UNCHANGED <<sel, tables, memo, left, reply>>

\* pullRequestForWorktree: of all candidates the largest number.
ScanPullRequests(f) ==
    /\ pc[f] = "scan"
    /\ \E ok \in BOOLEAN :
           /\ Statement(f, ok)
           /\ LET all == got[f] \cup {r \in Rows(ok, CachedPRs) : r.head = TreeBranch}
              IN  /\ got' = [got EXCEPT ![f] = {r \in all : \A q \in all : r.id >= q.id}]
                  /\ pc' = [pc EXCEPT ![f] = "done"]
    /\ UNCHANGED <<sel, tables, memo, left, reply>>

----------------------------------------------------------------------------
(* The response. *)

If(c, fields) == IF c THEN fields ELSE {}

\* The mappings to the GraphQL model, by the fields they leave null: those
\* of an empty column, bare saying that every other optional one is empty.
claudeSessionModel(r, bare) ==
    If(r.branch = NoBranch, {"gitBranch"}) \cup If(r.issue = 0, {"issueNumber"})
    \cup If(bare, {"model", "lastTool", "prNumber", "prUrl", "mission", "lastResponse", "paneTitle", "staleSince"})

tmuxSessionModel(r, bare) ==
    If(r.branch = NoBranch, {"branch"}) \cup If(bare, {"worktree", "lastSeenAt", "staleSince"})

panesToModel(bare) == If(bare, {"path", "staleSince"})

slotsModel(bare) == If(bare, {"staleSince"})

mapIssue(bare) ==
    If(bare, {"updatedAt"}) \cup If(MarshalList({MarshalObject(Assignee, {})}) = "Null", {"assignees"})

mapPR(bare) ==
    If(bare, {"updatedAt", "baseRefName", "reviewDecision", "statusCheckRollup", "mergeStateStatus"})

peerModel(bare) == If(bare, {"lastSeenAt", "staleSince"})

worktreeNode(r, bare) == If(r.branch = NoBranch, {"branch"}) \cup If(bare, {"ahead", "behind", "staleSince"})

\* The null fields of row r as a value of root's type.
NullsOf(root, r, bare) ==
    CASE root = Node(ClaudeSession) \/ root = List(ClaudeSession) -> claudeSessionModel(r, bare)
      [] root = List(ClaudeInstance) ->
             If(MarshalObject(ClaudeSession, claudeSessionModel(r, bare)) = "Null", {"session"})
             \cup If(bare, {"staleSince"})
      [] root \in {Node(TmuxSession), List(TmuxSession)} -> tmuxSessionModel(r, bare)
      [] root = List(TmuxPane) -> panesToModel(bare)
      [] root = List(Slot) -> slotsModel(bare)
      [] root \in {Node(Issue), List(Issue)} -> mapIssue(bare)
      [] root \in {Node(PullRequest), List(PullRequest)} -> mapPR(bare)
      [] root = List(Peer) -> peerModel(bare)
      [] root = List(Worktree) -> worktreeNode(r, bare)
      [] root = List(Health) -> If(bare, {"lastEventAt"})
      [] OTHER -> If(bare, {"staleSince"})

Reporting == DOMAIN TmuxRowRoots \cup DOMAIN TmuxPickRoots \cup DOMAIN PeerRoots

\* The value of rows as root's shape, joins being the null ones among the joins.
ValueOf(root, rows, joins, bare) ==
    LET elements == {MarshalObject(root.of, NullsOf(root, r, bare) \cup joins) : r \in rows}
    IN  CASE root.shape = "list" -> MarshalList(elements)
          [] root.shape = "node" -> IF rows = {} THEN "Null" ELSE MarshalList(elements)
          [] OTHER -> "Value"

\* The joins of the object f that come out null, grandchildren first.
NullJoins2(f, bare) ==
    {JoinField(j).field : j \in {x \in Children(f) : ValueOf(JoinField(x).root, got[x], {}, bare) = "Null"}}
NullJoins(f, bare) ==
    {JoinField(j).field :
        j \in {x \in Children(f) : ValueOf(JoinField(x).root, got[x], NullJoins2(x, bare), bare) = "Null"}}

RootValue(f, bare) ==
    IF f \in failed \cap Reporting THEN "Null" ELSE ValueOf(QueryRoot(f), got[f], NullJoins(f, bare), bare)

\* Exec: every field dispatched has come back.
Respond ==
    /\ reply.data = "none" /\ \A f \in sel.fields : pc[f] = "done"
    /\ \E bare \in BOOLEAN :
           reply' = [data |-> MarshalQuery([f \in sel.fields \cap RootFields |-> RootValue(f, bare)]),
                     errors |-> failed \cap Reporting]
    /\ UNCHANGED <<sel, tables, pc, got, memo, left, failed>>

Finished == reply.data # "none" /\ UNCHANGED queryVars

Selected(fields) == sel.fields \cap fields

QueryNext ==
    \/ \E s \in sel.tmux : WriteSession(s)
    \/ \E c \in sel.claude : WriteClaude(c)
    \/ \E c \in sel.claude : PruneClaude(c)
    \/ \E k \in sel.pr : WritePullRequest(k)
    \/ \E f \in Selected(RootFields) : ResolveRoot(f)
    \/ \E f \in Selected({"repo_worktrees"}) : ResolveWorktrees(f)
    \/ \E f \in Selected(DOMAIN IssueJoins) : EnterOnce(f) \/ ComputeBranches(f)
    \/ \E f \in Selected({"issue_tmuxPanes"}) : IssuePanes(f)
    \/ \E f \in Selected({"issue_claudeSessions"}) : IssueSessions(f) \/ ScanIssueSessions(f)
    \/ \E f \in Selected({"pr_tmuxPanes"}) : PullRequestPanes(f)
    \/ \E f \in Selected({"pr_claudeSessions"}) : PullRequestSessions(f) \/ ScanPullRequestSessions(f)
    \/ \E f \in Selected({"worktree_tmuxSession"}) : WorktreeSession(f)
    \/ \E f \in Selected({"worktree_issue"}) : WorktreeIssue(f)
    \/ \E f \in Selected({"worktree_pullRequest"}) : DirectPullRequest(f) \/ ScanPullRequests(f)
    \/ Respond
    \/ Finished

QuerySpec == QueryInit /\ [][QueryNext]_queryVars

----------------------------------------------------------------------------
(* Properties, of a query that has its response. *)

Answered == reply.data # "none"
Clean == Answered /\ failed = {}
Ids(f) == {r.id : r \in got[f]}

\* The branches linked to issue N by a set of facts.
LinkedBy(facts) ==
    {x.row.branch : x \in {y \in facts.tmux : N \in FromBranch(y.row.branch)}}
    \cup ({x.row.branch : x \in {y \in facts.claude : y.row.issue = N}} \ {NoBranch})
    \cup {x.row.head : x \in {y \in facts.pr : /\ y.row.head # NoBranch
                                               /\ \/ N \in FromBranch(y.row.head)
                                                  \/ \E r \in y.row.body : r.verb /\ r.local /\ r.n = N}}

\* The panes and sessions that facts join to issue N, to a branch, to the worktree.
PanesOn(facts, bs) == {x.id : x \in {y \in facts.tmux : y.row.branch \in bs}}
SessionsOn(facts, bs, ns) ==
    {x.id : x \in {y \in facts.claude : y.row.branch \in bs \/ y.row.issue \in ns}}
Joined(facts, f) ==
    CASE f = "issue_tmuxPanes" -> PanesOn(facts, LinkedBy(facts))
      [] f = "issue_claudeSessions" -> SessionsOn(facts, LinkedBy(facts), {N})
      [] f = "pr_tmuxPanes" -> PanesOn(facts, {HeadRef})
      [] f = "pr_claudeSessions" -> SessionsOn(facts, {HeadRef}, FromBranch(HeadRef))
      [] f = "worktree_pullRequest" -> {x.id : x \in {y \in facts.pr : y.row.head = TreeBranch}}

Rooted(f) == got[JoinField(f).under] # {}

\* github_map.go: what was linked throughout the query is in its answer, if
\* no read failed; and no answer joins what was not linked: every pane and
\* session in it was on, or keyed to, something linked at some time while the
\* query ran, failed reads or not. A head named issue0 derives to 0, the
\* number that stands for no issue, and is linked to all sessions with none.
\* (A worktree has one pull request, see NewestPullRequest.)
JoinsAreLinked ==
    Answered => \A f \in Selected(DOMAIN IssueJoins \cup DOMAIN PullRequestJoins) :
                    Rooted(f) => /\ failed = {} => Joined(always, f) \subseteq Ids(f)
                                 /\ Ids(f) \subseteq Joined(ever, f)

\* AC-GHQ-JOIN-CONSISTENT: a pane and a session that stayed on one branch
\* are both joined to the issue or neither is, even when the links to that
\* branch came or went between the two fields' reads. (A session the issue
\* number was ever set on may be joined by that alone.)
SiblingsAgree ==
    Clean /\ DOMAIN IssueJoins \subseteq sel.fields =>
        \A p \in always.tmux, c \in always.claude :
            p.row.branch = c.row.branch /\ p.row.branch # NoBranch /\ c.row.issue # N
                => (p.id \in Ids("issue_tmuxPanes") <=> c.id \in Ids("issue_claudeSessions"))

\* D7 (git_map.go): a worktree shows the largest pull request on its branch:
\* never an older one than a pull request that was there throughout.
NewestPullRequest ==
    Clean => \A f \in Selected({"worktree_pullRequest"}) :
        Rooted(f) /\ TreeBranch # NoBranch =>
            /\ Ids(f) \subseteq Joined(ever, f)
            /\ \A k \in Joined(always, f) : \E j \in Ids(f) : j >= k

\* A null spreads to the whole response only from a tmux or peer root whose
\* read failed; no empty column and no failing join can blank it, and a
\* blank one says why.
BlankOnlyOnFailure ==
    Answered => /\ reply.data = "Null" <=> failed \cap sel.fields \cap Reporting # {}
                /\ reply.data = "Null" => reply.errors # {}
=============================================================================
