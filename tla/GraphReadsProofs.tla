------------------------- MODULE GraphReadsProofs -------------------------
(***************************************************************************)
(* Proofs about module GraphReads, for any queries, branches, pull request *)
(* bodies and tables, and any number of writes and failed reads while a    *)
(* query runs; and about module TmuxPanes, the writer of the panes that    *)
(* the query joins, for any panes, sessions, commands, backoff cap,        *)
(* changes of the server and failures.                                     *)
(***************************************************************************)
EXTENDS GraphReads, TmuxPanes, WellFoundedInduction, FiniteSetTheorems, TLAPS

(* Where the fields are. *)

Places == {"wait", "todo", "compute", "read", "scan", "done"}

Under(j) == JoinField(j).under
Joins == sel.fields \cap JoinFields

\* A join waits until the field it hangs off is done, and has no rows when
\* that one has none; a field that has not begun has none either.
PlacesInv ==
    /\ sel \in Selections
    /\ pc \in [sel.fields -> Places]
    /\ got = [f \in sel.fields |-> got[f]]
    /\ \A j \in Joins : pc[Under(j)] # "done" => pc[j] = "wait"
    /\ \A f \in sel.fields : pc[f] \in {"wait", "todo", "compute"} => got[f] = {}
    /\ \A j \in Joins : got[Under(j)] = {} => got[j] = {} /\ pc[j] \in {"wait", "done"}
    /\ failed \subseteq sel.fields
    /\ reply.data # "none" => \A f \in sel.fields : pc[f] = "done"

(* What the query may hold it against: the facts of the tables. *)

Kinds == {"tmux", "claude", "pr"}

FactsInv ==
    /\ ever = [t \in Kinds |-> ever[t]]
    /\ always = [t \in Kinds |-> always[t]]
    /\ \A t \in Kinds : always[t] \subseteq Facts(db)[t] /\ Facts(db)[t] \subseteq ever[t]

(* issueMemo. *)

TmuxLinks(facts) == {x.row.branch : x \in {y \in facts.tmux : N \in FromBranch(y.row.branch)}}
ClaudeLinks(facts) == {x.row.branch : x \in {y \in facts.claude : y.row.issue = N}} \ {NoBranch}
PrLinks(facts) == {x.row.head : x \in {y \in facts.pr : Links(y.row.head, y.row.body, N)}}

IssueFields == sel.fields \cap {"issue_tmuxPanes", "issue_claudeSessions"}

\* One sibling computes, the other reads nothing before it has finished; the
\* branches computed so far are linked ones, and all those of the statements
\* that are over.
MemoInv ==
    /\ memo = [once |-> memo.once, set |-> memo.set]
    /\ memo.once \in {"new", "tmux", "claude", "prs", "done"}
    /\ \A f \in IssueFields : pc[f] = "compute" => memo.once \in {"tmux", "claude", "prs"}
    /\ \A f, g \in IssueFields : pc[f] = "compute" /\ pc[g] = "compute" => f = g
    /\ \A f \in IssueFields : pc[f] \in {"read", "scan"} => memo.once = "done"
    /\ \A f \in IssueFields : pc[f] = "done" /\ got["issue"] # {} => memo.once = "done"
    /\ memo.set \subseteq LinkedBy(ever)
    /\ failed = {} =>
          /\ memo.once \in {"claude", "prs", "done"} => TmuxLinks(always) \subseteq memo.set
          /\ memo.once \in {"prs", "done"} => ClaudeLinks(always) \subseteq memo.set
          /\ memo.once = "done" => PrLinks(always) \subseteq memo.set

(* What each join has read, against what was there all the time, and at   *)
(* some time. A join is over when it is done and its object is there.     *)

Over(j) == pc[j] = "done" /\ got[Under(j)] # {}

\* issue_tmuxPanes: of the panes that stayed, those on a branch looked up.
IssuePanesInv == LET f == "issue_tmuxPanes" IN
    /\ left # {} => f \in sel.fields /\ pc[f] = "read"
    /\ left \subseteq memo.set
    /\ f \in sel.fields =>
          /\ \A r \in got[f] : \E y \in ever.tmux : y.id = r.id /\ y.row.branch \in LinkedBy(ever)
          /\ pc[f] = "read" \/ Over(f) => \A p \in always.tmux :
                /\ p.id \in Ids(f) => p.row.branch \in memo.set \ left
                /\ failed = {} /\ p.row.branch \in memo.set \ left => p.id \in Ids(f)

\* issue_claudeSessions: of the sessions that stayed, those keyed to the
\* issue, and in the end those on a branch of the memo.
IssueSessionsInv == LET f == "issue_claudeSessions" IN
    f \in sel.fields =>
        /\ \A r \in got[f] : \E y \in ever.claude :
              y.id = r.id /\ (y.row.branch \in LinkedBy(ever) \/ y.row.issue = N)
        /\ pc[f] = "read" => got[f] = {}
        /\ pc[f] = "scan" => \A c \in always.claude :
              /\ c.id \in Ids(f) => c.row.issue = N
              /\ failed = {} /\ c.row.issue = N => c.id \in Ids(f)
        /\ Over(f) => \A c \in always.claude :
              LET on == c.row.branch # NoBranch /\ c.row.branch \in memo.set IN
              /\ c.id \in Ids(f) => c.row.issue = N \/ on
              /\ failed = {} /\ (c.row.issue = N \/ on) => c.id \in Ids(f)

PrPanesInv == LET f == "pr_tmuxPanes" IN
    f \in sel.fields =>
        /\ \A r \in got[f] : \E y \in ever.tmux : y.id = r.id /\ y.row.branch = HeadRef
        /\ Over(f) /\ failed = {} =>
              \A p \in always.tmux : p.row.branch = HeadRef => p.id \in Ids(f)

Keyed(c) == c.row.issue \in FromBranch(HeadRef)

PrSessionsInv == LET f == "pr_claudeSessions" IN
    f \in sel.fields =>
        /\ \A r \in got[f] : \E y \in ever.claude : y.id = r.id /\ (y.row.branch = HeadRef \/ Keyed(y))
        /\ pc[f] = "scan" /\ failed = {} => \A c \in always.claude : Keyed(c) => c.id \in Ids(f)
        /\ Over(f) /\ failed = {} =>
              \A c \in always.claude : c.row.branch = HeadRef \/ Keyed(c) => c.id \in Ids(f)

TreePrInv == LET f == "worktree_pullRequest" IN
    f \in sel.fields =>
        /\ \A r \in got[f] : \E y \in ever.pr : y.id = r.id /\ y.row.head = TreeBranch
        /\ \A r \in got[f] : r.id \in sel.pr
        /\ Over(f) /\ failed = {} /\ TreeBranch # NoBranch =>
              \A y \in always.pr : y.row.head = TreeBranch => \E r \in got[f] : r.id >= y.id

ReadsInv ==
    /\ PlacesInv /\ FactsInv /\ MemoInv
    /\ IssuePanesInv /\ IssueSessionsInv /\ PrPanesInv /\ PrSessionsInv /\ TreePrInv

----------------------------------------------------------------------------
(* The tables of joins. *)

LEMMA JoinNames ==
    JoinFields = {"issue_tmuxPanes", "issue_claudeSessions", "pr_tmuxPanes", "pr_claudeSessions",
                  "repo_worktrees", "worktree_tmuxSession", "worktree_issue", "worktree_pullRequest"}
  <1>1. DOMAIN JoinTables = {1, 2, 3, 4}
    BY DEF JoinTables
  <1>2. /\ DOMAIN JoinTables[1] = {"issue_tmuxPanes", "issue_claudeSessions"}
        /\ DOMAIN JoinTables[2] = {"pr_tmuxPanes", "pr_claudeSessions"}
        /\ DOMAIN JoinTables[3] = {"repo_worktrees"}
        /\ DOMAIN JoinTables[4] = {"worktree_tmuxSession", "worktree_issue", "worktree_pullRequest"}
    BY DEF JoinTables, IssueJoins, PullRequestJoins, RepoJoins, WorktreeJoins
  <1> QED
    BY <1>1, <1>2 DEF JoinFields

LEMMA JoinRows ==
    /\ JoinField("issue_tmuxPanes") = IssueJoins["issue_tmuxPanes"]
    /\ JoinField("issue_claudeSessions") = IssueJoins["issue_claudeSessions"]
    /\ JoinField("pr_tmuxPanes") = PullRequestJoins["pr_tmuxPanes"]
    /\ JoinField("pr_claudeSessions") = PullRequestJoins["pr_claudeSessions"]
    /\ JoinField("repo_worktrees") = RepoJoins["repo_worktrees"]
    /\ JoinField("worktree_tmuxSession") = WorktreeJoins["worktree_tmuxSession"]
    /\ JoinField("worktree_issue") = WorktreeJoins["worktree_issue"]
    /\ JoinField("worktree_pullRequest") = WorktreeJoins["worktree_pullRequest"]
  <1>1. DOMAIN JoinTables = {1, 2, 3, 4}
    BY DEF JoinTables
  <1>2. /\ JoinTables[1] = IssueJoins /\ JoinTables[2] = PullRequestJoins
        /\ JoinTables[3] = RepoJoins /\ JoinTables[4] = WorktreeJoins
    BY DEF JoinTables
  <1>3. /\ DOMAIN IssueJoins = {"issue_tmuxPanes", "issue_claudeSessions"}
        /\ DOMAIN PullRequestJoins = {"pr_tmuxPanes", "pr_claudeSessions"}
        /\ DOMAIN RepoJoins = {"repo_worktrees"}
        /\ DOMAIN WorktreeJoins = {"worktree_tmuxSession", "worktree_issue", "worktree_pullRequest"}
    BY DEF IssueJoins, PullRequestJoins, RepoJoins, WorktreeJoins
  <1>4. ASSUME NEW f, NEW i \in {1, 2, 3, 4}, f \in DOMAIN JoinTables[i],
               \A j \in {1, 2, 3, 4} : f \in DOMAIN JoinTables[j] => j = i
        PROVE  JoinField(f) = JoinTables[i][f]
    BY <1>1, <1>4 DEF JoinField
  <1>5. JoinField("issue_tmuxPanes") = IssueJoins["issue_tmuxPanes"]
    BY <1>2, <1>3, <1>4
  <1>6. JoinField("issue_claudeSessions") = IssueJoins["issue_claudeSessions"]
    BY <1>2, <1>3, <1>4
  <1>7. JoinField("pr_tmuxPanes") = PullRequestJoins["pr_tmuxPanes"]
    BY <1>2, <1>3, <1>4
  <1>8. JoinField("pr_claudeSessions") = PullRequestJoins["pr_claudeSessions"]
    BY <1>2, <1>3, <1>4
  <1>9. JoinField("repo_worktrees") = RepoJoins["repo_worktrees"]
    BY <1>2, <1>3, <1>4
  <1>10. JoinField("worktree_tmuxSession") = WorktreeJoins["worktree_tmuxSession"]
    BY <1>2, <1>3, <1>4
  <1>11. JoinField("worktree_issue") = WorktreeJoins["worktree_issue"]
    BY <1>2, <1>3, <1>4
  <1>12. JoinField("worktree_pullRequest") = WorktreeJoins["worktree_pullRequest"]
    BY <1>2, <1>3, <1>4
  <1> QED
    BY <1>5, <1>6, <1>7, <1>8, <1>9, <1>10, <1>11, <1>12

LEMMA Parents ==
    /\ Under("issue_tmuxPanes") = "issue" /\ Under("issue_claudeSessions") = "issue"
    /\ Under("pr_tmuxPanes") = "pullRequest" /\ Under("pr_claudeSessions") = "pullRequest"
    /\ Under("repo_worktrees") = "repos"
    /\ Under("worktree_tmuxSession") = "repo_worktrees" /\ Under("worktree_issue") = "repo_worktrees"
    /\ Under("worktree_pullRequest") = "repo_worktrees"
  BY JoinRows DEF Under, IssueJoins, PullRequestJoins, RepoJoins, WorktreeJoins, Join

LEMMA RootNames ==
    RootFields = {"health", "ping", "claudeSessions", "claudeSession", "claudeInstances", "repos", "issue",
                  "pullRequest", "issuesForRepo", "pullRequestsForRepo", "peers", "templatePing",
                  "tmuxSessions", "tmuxPanes", "slots", "freeSlots", "paneForBranch"}
  <1>1. DOMAIN Tables = 1 .. 9
    BY DEF Tables
  <1>2. /\ Tables[1] = CoreRoots /\ Tables[2] = ClaudeRoots /\ Tables[3] = GitRoots
        /\ Tables[4] = GithubNodeRoots /\ Tables[5] = GithubListRoots /\ Tables[6] = PeerRoots
        /\ Tables[7] = TemplateRoots /\ Tables[8] = TmuxRowRoots /\ Tables[9] = TmuxPickRoots
    BY DEF Tables
  <1>3. /\ DOMAIN CoreRoots = {"health", "ping"}
        /\ DOMAIN ClaudeRoots = {"claudeSessions", "claudeSession", "claudeInstances"}
        /\ DOMAIN GitRoots = {"repos"} /\ DOMAIN GithubNodeRoots = {"issue", "pullRequest"}
        /\ DOMAIN GithubListRoots = {"issuesForRepo", "pullRequestsForRepo"}
        /\ DOMAIN PeerRoots = {"peers"} /\ DOMAIN TemplateRoots = {"templatePing"}
        /\ DOMAIN TmuxRowRoots = {"tmuxSessions", "tmuxPanes"}
        /\ DOMAIN TmuxPickRoots = {"slots", "freeSlots", "paneForBranch"}
    BY DEF CoreRoots, ClaudeRoots, GitRoots, GithubNodeRoots, GithubListRoots, PeerRoots, TemplateRoots,
           TmuxRowRoots, TmuxPickRoots
  <1>4. \A f : f \in RootFields <=> \E i \in 1 .. 9 : f \in DOMAIN Tables[i]
    BY <1>1 DEF RootFields
  <1>5. \A f : (\E i \in 1 .. 9 : f \in DOMAIN Tables[i]) <=>
               \/ f \in DOMAIN Tables[1] \/ f \in DOMAIN Tables[2] \/ f \in DOMAIN Tables[3]
               \/ f \in DOMAIN Tables[4] \/ f \in DOMAIN Tables[5] \/ f \in DOMAIN Tables[6]
               \/ f \in DOMAIN Tables[7] \/ f \in DOMAIN Tables[8] \/ f \in DOMAIN Tables[9]
    OBVIOUS
  <1> QED
    BY <1>2, <1>3, <1>4, <1>5

----------------------------------------------------------------------------
(* Steps of a field. *)

\* What a step of another field leaves a join with: what it had, or, when its
\* object has just been resolved, nothing yet.
Same(g) == got'[g] = got[g] /\ pc'[g] = pc[g] /\ got'[Under(g)] = got[Under(g)]
Fresh(g) == got[g] = {} /\ (pc[g] \in {"wait", "todo"} \/ (pc[g] = "done" /\ got[Under(g)] = {}))

\* A step of f reads, or fails to.
MayFail == failed \subseteq failed' /\ failed' \subseteq sel.fields

LEMMA StatementFails ==
    ASSUME PlacesInv, NEW f \in sel.fields, NEW ok \in BOOLEAN, Statement(f, ok)
    PROVE  MayFail /\ (failed' = {} => ok /\ failed = {})
  BY DEF PlacesInv, Statement, MayFail

LEMMA SelectedParents == PlacesInv => \A j \in Joins : Under(j) \in sel.fields
  BY GraphAssumption DEF PlacesInv, Joins, Under

\* A field begins, and ends in one step: its joins, if any, begin.
LEMMA FinishStep ==
    ASSUME PlacesInv, NEW f \in sel.fields, pc[f] = "todo", NEW rows, Finish(f, rows),
           UNCHANGED <<sel, reply>>, MayFail
    PROVE  PlacesInv' /\ \A g \in Joins : g # f => Same(g) \/ (Fresh(g)' /\ pc[g] = "wait")
  <1> DEFINE all == got[f] \cup rows
             below == Children(f) \cup UNION {Children(c) : c \in Children(f)}
  <1>1. \A g \in sel.fields : got'[g] = IF g = f THEN all ELSE got[g]
    BY DEF Finish, PlacesInv
  <1>2. \A g \in sel.fields : pc'[g] = IF g = f \/ (all = {} /\ g \in below) THEN "done"
                                       ELSE IF g \in Children(f) THEN "todo" ELSE pc[g]
    BY DEF Finish, PlacesInv
  <1>3. \A h : \A g : g \in Children(h) <=> g \in Joins /\ Under(g) = h
    BY DEF Children, Joins, Under
  <1>4. \A g : g \in below <=> \/ g \in Joins /\ Under(g) = f
                               \/ g \in Joins /\ Under(g) \in Joins /\ Under(Under(g)) = f
    BY <1>3
  <1>5. \A g \in Joins : Under(g) = f => pc[g] = "wait"
    BY DEF PlacesInv
  <1>6. \A g \in Joins : Under(g) \in Joins /\ Under(Under(g)) = f => pc[g] = "wait"
    BY <1>5 DEF PlacesInv
  <1>7. \A g \in Joins : g \in sel.fields /\ Under(g) \in sel.fields
    BY SelectedParents DEF Joins
  <1> HIDE DEF all, below
  <1>8. \A g \in Joins : pc[g] = "wait" => g # f /\ got[g] = {}
    BY <1>7 DEF PlacesInv
  <1>9. \A g \in Joins : g # f => Same(g) \/ (Fresh(g)' /\ pc[g] = "wait")
    <2> SUFFICES ASSUME NEW g \in Joins, g # f PROVE Same(g) \/ (Fresh(g)' /\ pc[g] = "wait")
      OBVIOUS
    <2>1. Under(g)' = Under(g)
      BY DEF Under
    <2>2. CASE Under(g) = f
      BY <1>1, <1>2, <1>3, <1>4, <1>5, <1>7, <1>8, <2>1, <2>2 DEF Fresh
    <2>3. CASE Under(g) # f /\ g \in below
      <3>1. pc[g] = "wait" /\ got[g] = {} /\ Under(g) \in Joins /\ Under(Under(g)) = f
        BY <1>4, <1>6, <1>8, <2>3
      <3>2. pc[Under(g)] = "wait" /\ got[Under(g)] = {}
        BY <1>5, <1>8, <3>1
      <3> QED
        BY <1>1, <1>2, <1>3, <1>7, <2>1, <2>3, <3>1, <3>2 DEF Fresh, Same
    <2>4. CASE Under(g) # f /\ g \notin below
      BY <1>1, <1>2, <1>3, <1>7, <2>4 DEF Same
    <2> QED
      BY <2>2, <2>3, <2>4
  <1>10. pc' \in [sel.fields -> Places] /\ got' = [g \in sel.fields |-> got'[g]]
    BY DEF Finish, PlacesInv, Places
  <1>11. \A j \in Joins : pc'[Under(j)] # "done" => pc'[j] = "wait"
    <2> SUFFICES ASSUME NEW j \in Joins, pc'[Under(j)] # "done" PROVE pc'[j] = "wait"
      OBVIOUS
    <2>1. Under(j) # f
      BY <1>2, <1>7
    <2>2. pc[Under(j)] # "done"
      BY <1>2, <1>3, <1>5, <1>7
    <2>3. pc[j] = "wait" /\ j # f
      BY <1>8, <2>2 DEF PlacesInv
    <2>4. j \in below => all # {}
      <3> SUFFICES ASSUME j \in below, all = {} PROVE FALSE
        OBVIOUS
      <3>1. Under(j) \in below
        BY <1>4, <2>1
      <3> QED
        BY <1>2, <1>7, <3>1
    <2> QED
      BY <1>2, <1>3, <1>7, <2>1, <2>3, <2>4
  <1>12. \A g \in sel.fields : pc'[g] \in {"wait", "todo", "compute"} => got'[g] = {}
    BY <1>1, <1>2, <1>3, <1>5, <1>8 DEF PlacesInv
  <1>13. \A j \in Joins : got'[Under(j)] = {} => got'[j] = {} /\ pc'[j] \in {"wait", "done"}
    <2> SUFFICES ASSUME NEW j \in Joins, got'[Under(j)] = {} PROVE got'[j] = {} /\ pc'[j] \in {"wait", "done"}
      OBVIOUS
    <2>1. CASE Under(j) = f
      BY <1>1, <1>2, <1>4, <1>5, <1>7, <1>8, <2>1
    <2>2. CASE Under(j) # f
      <3>1. got[j] = {} /\ pc[j] \in {"wait", "done"}
        BY <1>1, <1>7, <2>2 DEF PlacesInv
      <3> QED
        BY <1>1, <1>2, <1>3, <1>7, <2>2, <3>1
    <2> QED
      BY <2>1, <2>2
  <1>14. reply.data = "none"
    BY DEF PlacesInv
  <1>15. UNCHANGED Joins /\ \A j : Under(j)' = Under(j)
    BY DEF Joins, Under
  <1> QED
    BY <1>9, <1>10, <1>11, <1>12, <1>13, <1>14, <1>15 DEF PlacesInv, MayFail

Leaves == JoinFields \ {"repo_worktrees"}

LEMMA Childless == \A f \in Leaves : Children(f) = {} /\ \A j \in JoinFields : Under(j) # f
  BY JoinNames, Parents DEF Leaves, Children, Under

\* A join without joins of its own goes on, or ends.
LEMMA LeafStep ==
    ASSUME PlacesInv, NEW f \in sel.fields, f \in Leaves, pc[f] \notin {"wait", "done"},
           NEW rows, NEW at \in {"compute", "read", "scan", "done"}, at = "compute" => rows = {},
           got' = [got EXCEPT ![f] = rows], pc' = [pc EXCEPT ![f] = at],
           UNCHANGED <<sel, reply>>, MayFail
    PROVE  PlacesInv' /\ \A g \in Joins : g # f => Same(g)
  <1>1. \A g \in sel.fields : /\ got'[g] = IF g = f THEN rows ELSE got[g]
                              /\ pc'[g] = IF g = f THEN at ELSE pc[g]
    BY DEF PlacesInv
  <1>2. pc' \in [sel.fields -> Places] /\ got' = [g \in sel.fields |-> got'[g]]
    BY DEF PlacesInv, Places
  <1>3. f \in Joins /\ \A g \in Joins : g \in sel.fields /\ Under(g) \in sel.fields /\ Under(g) # f
    BY SelectedParents, Childless DEF Joins, Leaves
  <1>4. UNCHANGED Joins /\ \A j : Under(j)' = Under(j)
    BY DEF Joins, Under
  <1>5. reply.data = "none"
    BY DEF PlacesInv
  <1>6. pc[Under(f)] = "done" /\ got[Under(f)] # {}
    BY <1>3 DEF PlacesInv
  <1> QED
    BY <1>1, <1>2, <1>3, <1>4, <1>5, <1>6 DEF PlacesInv, Same, MayFail

LEMMA LeafFinish ==
    ASSUME PlacesInv, NEW f \in sel.fields, f \in Leaves, NEW rows, Finish(f, rows)
    PROVE  got' = [got EXCEPT ![f] = got[f] \cup rows] /\ pc' = [pc EXCEPT ![f] = "done"]
  BY Childless DEF Finish, PlacesInv

LEMMA Continued ==
    ASSUME PlacesInv, NEW f \in sel.fields, NEW rows, NEW at, Continue(f, rows, at)
    PROVE  got' = [got EXCEPT ![f] = got[f] \cup rows] /\ pc' = [pc EXCEPT ![f] = at]
  BY DEF Continue, PlacesInv

----------------------------------------------------------------------------
(* Facts. *)

LEMMA TmuxFacts ==
    ASSUME FactsInv
    PROVE  /\ \A s \in sel.tmux : \E y \in ever.tmux : y.id = s /\ y.row = db.tmux[s]
           /\ \A p \in always.tmux : p.id \in sel.tmux /\ p.row = db.tmux[p.id]
  <1>1. Facts(db).tmux = {[id |-> s, row |-> db.tmux[s]] : s \in sel.tmux}
    BY DEF Facts
  <1>2. always.tmux \subseteq Facts(db).tmux /\ Facts(db).tmux \subseteq ever.tmux
    BY DEF FactsInv, Kinds
  <1> HIDE DEF FactsInv
  <1>3. ASSUME NEW k \in sel.tmux
        PROVE  \E y \in ever.tmux : y.id = k /\ y.row = db.tmux[k]
    <2>1. [id |-> k, row |-> db.tmux[k]] \in ever.tmux
      BY <1>1, <1>2, <1>3
    <2> QED
      BY <2>1
  <1> QED
    BY <1>1, <1>2, <1>3

LEMMA ClaudeFacts ==
    ASSUME FactsInv
    PROVE  /\ \A c \in sel.claude : db.claude[c] # Absent => \E y \in ever.claude : y.id = c /\ y.row = db.claude[c]
           /\ \A p \in always.claude : p.id \in sel.claude /\ db.claude[p.id] # Absent /\ p.row = db.claude[p.id]
  <1>1. Facts(db).claude = {[id |-> k, row |-> db.claude[k]] : k \in {x \in sel.claude : db.claude[x] # Absent}}
    BY DEF Facts
  <1>2. always.claude \subseteq Facts(db).claude /\ Facts(db).claude \subseteq ever.claude
    BY DEF FactsInv, Kinds
  <1> HIDE DEF FactsInv
  <1>3. ASSUME NEW k \in sel.claude, db.claude[k] # Absent
        PROVE  \E y \in ever.claude : y.id = k /\ y.row = db.claude[k]
    <2>1. [id |-> k, row |-> db.claude[k]] \in ever.claude
      BY <1>1, <1>2, <1>3
    <2> QED
      BY <2>1
  <1> QED
    BY <1>1, <1>2, <1>3

LEMMA PrFacts ==
    ASSUME FactsInv
    PROVE  /\ \A k \in sel.pr : db.pr[k] # Absent => \E y \in ever.pr : y.id = k /\ y.row = db.pr[k]
           /\ \A p \in always.pr : p.id \in sel.pr /\ db.pr[p.id] # Absent /\ p.row = db.pr[p.id]
  <1>1. Facts(db).pr = {[id |-> k, row |-> db.pr[k]] : k \in {x \in sel.pr : db.pr[x] # Absent}}
    BY DEF Facts
  <1>2. always.pr \subseteq Facts(db).pr /\ Facts(db).pr \subseteq ever.pr
    BY DEF FactsInv, Kinds
  <1> HIDE DEF FactsInv
  <1>3. ASSUME NEW k \in sel.pr, db.pr[k] # Absent
        PROVE  \E y \in ever.pr : y.id = k /\ y.row = db.pr[k]
    <2>1. [id |-> k, row |-> db.pr[k]] \in ever.pr
      BY <1>1, <1>2, <1>3
    <2> QED
      BY <2>1
  <1> QED
    BY <1>1, <1>2, <1>3

\* The ghosts only move one way.
Grow == /\ ever.tmux \subseteq ever'.tmux /\ always'.tmux \subseteq always.tmux
        /\ ever.claude \subseteq ever'.claude /\ always'.claude \subseteq always.claude
        /\ ever.pr \subseteq ever'.pr /\ always'.pr \subseteq always.pr

LEMMA LinkedSplit ==
    \A facts : LinkedBy(facts) = TmuxLinks(facts) \cup ClaudeLinks(facts) \cup PrLinks(facts)
  <1> SUFFICES ASSUME NEW facts
               PROVE  {x.row.head : x \in {y \in facts.pr : /\ y.row.head # NoBranch
                                              /\ \/ N \in FromBranch(y.row.head)
                                                 \/ \E r \in y.row.body : r.verb /\ r.local /\ r.n = N}}
                      = PrLinks(facts)
    BY DEF LinkedBy, TmuxLinks, ClaudeLinks
  <1>1. \A b : N \in ClosingRefs(b) <=> \E r \in b : r.verb /\ r.local /\ r.n = N
    BY DEF ClosingRefs
  <1> QED
    BY <1>1, Zenon DEF PrLinks, Links

LEMMA LinksGrow ==
    ASSUME Grow
    PROVE  /\ LinkedBy(ever) \subseteq LinkedBy(ever')
           /\ TmuxLinks(always') \subseteq TmuxLinks(always)
           /\ ClaudeLinks(always') \subseteq ClaudeLinks(always)
           /\ PrLinks(always') \subseteq PrLinks(always)
  BY LinkedSplit DEF Grow, TmuxLinks, ClaudeLinks, PrLinks

LEMMA Unlinked == FromBranch(NoBranch) = {} /\ \A facts : NoBranch \notin LinkedBy(facts)
  <1>1. FromBranch(NoBranch) = {}
    BY DEF FromBranch, NoBranch
  <1>2. \A facts : NoBranch \notin TmuxLinks(facts)
    BY <1>1 DEF TmuxLinks
  <1>3. \A facts : NoBranch \notin ClaudeLinks(facts)
    BY DEF ClaudeLinks
  <1>4. \A facts : NoBranch \notin PrLinks(facts)
    BY DEF PrLinks, Links
  <1> QED
    BY <1>1, <1>2, <1>3, <1>4, LinkedSplit

LEMMA WriteFacts ==
    ASSUME FactsInv, NEW d, Write(d)
    PROVE  FactsInv' /\ Grow
  <1>1. DOMAIN ever = Kinds /\ DOMAIN always = Kinds
    BY DEF FactsInv
  <1>2. \A t \in Kinds : ever'[t] = ever[t] \cup Facts(d)[t] /\ always'[t] = always[t] \cap Facts(d)[t]
    BY <1>1 DEF Write
  <1>3. Facts(db)' = Facts(d)
    BY DEF Write, Facts
  <1>4. ever' = [t \in Kinds |-> ever'[t]] /\ always' = [t \in Kinds |-> always'[t]]
    BY <1>1 DEF Write
  <1>5. FactsInv'
    BY <1>2, <1>3, <1>4 DEF FactsInv
  <1> QED
    BY <1>2, <1>5 DEF Grow, Kinds

LEMMA TablesStay ==
    ASSUME FactsInv, UNCHANGED <<sel, tables>>
    PROVE  FactsInv' /\ Grow
  BY DEF FactsInv, Grow, tables, Facts

----------------------------------------------------------------------------
(* Steps of others: the rows of a join stay as good as they were. *)

LEMMA OverStays == \A g : Same(g) => Over(g)' = Over(g) /\ Ids(g)' = Ids(g) /\ Under(g)' = Under(g)
  BY DEF Same, Over, Ids, Under

LEMMA FreshNotOver == \A g : Fresh(g) => ~Over(g) /\ got[g] = {} /\ pc[g] \notin {"compute", "read", "scan"}
  BY DEF Fresh, Over

LEMMA KeepsIssuePanes ==
    ASSUME IssuePanesInv, Grow, UNCHANGED <<sel, left>>, failed \subseteq failed',
           "issue_tmuxPanes" \in sel.fields => \/ Same("issue_tmuxPanes")
                                               \/ Fresh("issue_tmuxPanes")' /\ left = {},
           left \subseteq memo'.set,
           memo'.set = memo.set \/ "issue_tmuxPanes" \notin sel.fields
                                \/ ~(pc["issue_tmuxPanes"] = "read" \/ Over("issue_tmuxPanes"))
    PROVE  IssuePanesInv'
  <1> DEFINE f == "issue_tmuxPanes"
  <1>1. left' # {} => f \in sel.fields /\ pc'[f] = "read"
    BY DEF IssuePanesInv, Same
  <1>2. CASE f \notin sel.fields
    BY <1>1, <1>2 DEF IssuePanesInv
  <1>3. CASE f \in sel.fields /\ Same(f)
    <2>1. \A r \in got'[f] : \E y \in ever'.tmux : y.id = r.id /\ y.row.branch \in LinkedBy(ever')
      BY <1>3, LinksGrow DEF IssuePanesInv, Same, Grow
    <2>2. pc'[f] = "read" \/ Over(f)' => memo'.set = memo.set
      BY <1>3, OverStays DEF Same
    <2>3. pc'[f] = "read" \/ Over(f)' => \A p \in always'.tmux :
                /\ p.id \in Ids(f)' => p.row.branch \in memo'.set \ left'
                /\ failed' = {} /\ p.row.branch \in memo'.set \ left' => p.id \in Ids(f)'
      BY <1>3, <2>2, OverStays DEF IssuePanesInv, Same, Grow
    <2> QED
      BY <1>1, <1>3, <2>1, <2>3 DEF IssuePanesInv
  <1>4. CASE f \in sel.fields /\ Fresh(f)' /\ left = {}
    BY <1>1, <1>4, FreshNotOver DEF IssuePanesInv, Fresh, Over
  <1> QED
    BY <1>2, <1>3, <1>4

LEMMA KeepsIssueSessions ==
    ASSUME IssueSessionsInv, Grow, UNCHANGED sel, failed \subseteq failed',
           "issue_claudeSessions" \in sel.fields => Same("issue_claudeSessions") \/ Fresh("issue_claudeSessions")',
           memo'.set = memo.set \/ "issue_claudeSessions" \notin sel.fields \/ ~Over("issue_claudeSessions")
    PROVE  IssueSessionsInv'
  <1> DEFINE f == "issue_claudeSessions"
  <1>1. CASE f \notin sel.fields
    BY <1>1 DEF IssueSessionsInv
  <1>2. CASE f \in sel.fields /\ Same(f)
    <2>1. \A r \in got'[f] : \E y \in ever'.claude :
              y.id = r.id /\ (y.row.branch \in LinkedBy(ever') \/ y.row.issue = N)
      BY <1>2, LinksGrow DEF IssueSessionsInv, Same, Grow
    <2>2. Over(f)' => memo'.set = memo.set
      BY <1>2, OverStays DEF Same
    <2> QED
      BY <1>2, <2>1, <2>2, OverStays DEF IssueSessionsInv, Same, Grow
  <1>3. CASE f \in sel.fields /\ Fresh(f)'
    BY <1>3, FreshNotOver DEF IssueSessionsInv, Fresh, Over
  <1> QED
    BY <1>1, <1>2, <1>3

LEMMA HeadStays == \A g \in {"pr_tmuxPanes", "pr_claudeSessions"} : Same(g) => HeadRef' = HeadRef
  BY Parents DEF Same, HeadRef

LEMMA KeepsPrPanes ==
    ASSUME PrPanesInv, Grow, UNCHANGED sel, failed \subseteq failed',
           "pr_tmuxPanes" \in sel.fields => Same("pr_tmuxPanes") \/ Fresh("pr_tmuxPanes")'
    PROVE  PrPanesInv'
  <1> DEFINE f == "pr_tmuxPanes"
  <1>1. CASE f \notin sel.fields
    BY <1>1 DEF PrPanesInv
  <1>2. CASE f \in sel.fields /\ Same(f)
    <2>1. HeadRef' = HeadRef
      BY <1>2, HeadStays
    <2> QED
      BY <1>2, <2>1, OverStays DEF PrPanesInv, Same, Grow
  <1>3. CASE f \in sel.fields /\ Fresh(f)'
    BY <1>3, FreshNotOver DEF PrPanesInv, Fresh, Over
  <1> QED
    BY <1>1, <1>2, <1>3

LEMMA KeepsPrSessions ==
    ASSUME PrSessionsInv, Grow, UNCHANGED sel, failed \subseteq failed',
           "pr_claudeSessions" \in sel.fields => Same("pr_claudeSessions") \/ Fresh("pr_claudeSessions")'
    PROVE  PrSessionsInv'
  <1> DEFINE f == "pr_claudeSessions"
  <1>1. CASE f \notin sel.fields
    BY <1>1 DEF PrSessionsInv
  <1>2. CASE f \in sel.fields /\ Same(f)
    <2>1. HeadRef' = HeadRef
      BY <1>2, HeadStays
    <2>2. \A c : Keyed(c)' = Keyed(c)
      BY <2>1 DEF Keyed
    <2> QED
      BY <1>2, <2>1, <2>2, OverStays DEF PrSessionsInv, Same, Grow
  <1>3. CASE f \in sel.fields /\ Fresh(f)'
    BY <1>3, FreshNotOver DEF PrSessionsInv, Fresh, Over
  <1> QED
    BY <1>1, <1>2, <1>3

LEMMA KeepsTreePr ==
    ASSUME TreePrInv, Grow, UNCHANGED sel, failed \subseteq failed',
           "worktree_pullRequest" \in sel.fields => Same("worktree_pullRequest") \/ Fresh("worktree_pullRequest")'
    PROVE  TreePrInv'
  <1> DEFINE f == "worktree_pullRequest"
  <1>1. CASE f \notin sel.fields
    BY <1>1 DEF TreePrInv
  <1>2. CASE f \in sel.fields /\ Same(f)
    <2>1. TreeBranch' = TreeBranch
      BY <1>2, Parents DEF Same, TreeBranch
    <2> QED
      BY <1>2, <2>1, OverStays DEF TreePrInv, Same, Grow
  <1>3. CASE f \in sel.fields /\ Fresh(f)'
    BY <1>3, FreshNotOver DEF TreePrInv, Fresh, Over
  <1> QED
    BY <1>1, <1>2, <1>3

LEMMA KeepsMemo ==
    ASSUME MemoInv, Grow, UNCHANGED <<sel, memo>>, failed \subseteq failed',
           \A f \in IssueFields : Same(f) \/ Fresh(f)'
    PROVE  MemoInv'
  <1>1. IssueFields' = IssueFields
    BY DEF IssueFields
  <1>2. \A f \in IssueFields : Under(f) = "issue" /\ Under(f)' = "issue"
    BY Parents DEF IssueFields, Under
  <1>3. \A f \in IssueFields :
            \/ pc'[f] = pc[f] /\ got'["issue"] = got["issue"]
            \/ pc'[f] \in {"wait", "todo"}
            \/ pc'[f] = "done" /\ got'["issue"] = {}
    BY <1>2 DEF Same, Fresh
  <1>4. memo.set \subseteq LinkedBy(ever') /\ (failed' = {} => failed = {})
    BY LinksGrow DEF MemoInv
  <1> QED
    BY <1>1, <1>3, <1>4, LinksGrow DEF MemoInv

----------------------------------------------------------------------------
(* The roots, and the worktrees of a repo. *)

LEMMA SelectedJoins ==
    {"issue_tmuxPanes", "issue_claudeSessions", "pr_tmuxPanes", "pr_claudeSessions",
     "worktree_pullRequest"} \cap sel.fields \subseteq Joins
  BY JoinNames DEF Joins

LEMMA ParentStep ==
    ASSUME ReadsInv, NEW f \in sel.fields, f \notin Leaves, pc[f] = "todo", NEW rows, Finish(f, rows),
           UNCHANGED <<sel, tables, memo, left, reply>>, MayFail
    PROVE  ReadsInv'
  <1>1. PlacesInv' /\ \A g \in Joins : g # f => Same(g) \/ (Fresh(g)' /\ pc[g] = "wait")
    BY FinishStep DEF ReadsInv
  <1>2. FactsInv' /\ Grow
    BY TablesStay DEF ReadsInv
  <1>3. failed \subseteq failed'
    BY DEF MayFail
  <1>4. \A g \in {"issue_tmuxPanes", "issue_claudeSessions", "pr_tmuxPanes", "pr_claudeSessions",
                  "worktree_pullRequest"} : g \in sel.fields => Same(g) \/ (Fresh(g)' /\ pc[g] = "wait")
    BY <1>1, SelectedJoins, JoinNames DEF Leaves
  <1>5. MemoInv'
    <2>1. \A g \in IssueFields : Same(g) \/ Fresh(g)'
      BY <1>4 DEF IssueFields
    <2> QED
      BY <1>2, <1>3, <2>1, KeepsMemo DEF ReadsInv
  <1>6. IssuePanesInv'
    <2>1. "issue_tmuxPanes" \in sel.fields => \/ Same("issue_tmuxPanes")
                                              \/ Fresh("issue_tmuxPanes")' /\ left = {}
      BY <1>4 DEF ReadsInv, IssuePanesInv
    <2>2. left \subseteq memo'.set
      BY DEF ReadsInv, IssuePanesInv
    <2> QED
      BY <1>2, <1>3, <2>1, <2>2, KeepsIssuePanes DEF ReadsInv
  <1>7. IssueSessionsInv'
    BY <1>2, <1>3, <1>4, KeepsIssueSessions DEF ReadsInv
  <1>8. PrPanesInv'
    BY <1>2, <1>3, <1>4, KeepsPrPanes DEF ReadsInv
  <1>9. PrSessionsInv'
    BY <1>2, <1>3, <1>4, KeepsPrSessions DEF ReadsInv
  <1>10. TreePrInv'
    BY <1>2, <1>3, <1>4, KeepsTreePr DEF ReadsInv
  <1> QED
    BY <1>1, <1>2, <1>5, <1>6, <1>7, <1>8, <1>9, <1>10 DEF ReadsInv

LEMMA RootReads ==
    ASSUME ReadsInv, NEW f \in Selected(RootFields), ResolveRoot(f)
    PROVE  ReadsInv'
  <1>1. f \in sel.fields /\ f \notin Leaves
    BY RootNames, JoinNames DEF Selected, Leaves
  <1>2. PICK ok \in BOOLEAN : Statement(f, ok) /\ \E rows : Finish(f, rows)
    BY DEF ResolveRoot
  <1>3. PICK rows : Finish(f, rows)
    BY <1>2
  <1>4. MayFail
    BY <1>1, <1>2, StatementFails DEF ReadsInv
  <1> QED
    BY <1>1, <1>3, <1>4, ParentStep DEF ResolveRoot

LEMMA WorktreesRead ==
    ASSUME ReadsInv, NEW f \in Selected({"repo_worktrees"}), ResolveWorktrees(f)
    PROVE  ReadsInv'
  <1>1. f \in sel.fields /\ f \notin Leaves
    BY DEF Selected, Leaves
  <1>2. PICK ok \in BOOLEAN : Statement(f, ok) /\ Finish(f, Rows(ok, {[id |-> 1, branch |-> db.branch]}))
    BY DEF ResolveWorktrees
  <1>3. MayFail
    BY <1>1, <1>2, StatementFails DEF ReadsInv
  <1> QED
    BY <1>1, <1>2, <1>3, ParentStep DEF ResolveWorktrees

----------------------------------------------------------------------------
(* The joins of an issue. *)

\* A step of one join keeps what the others have.
LEMMA OthersKeep ==
    ASSUME ReadsInv, NEW f, \A g \in Joins : g # f => Same(g), UNCHANGED <<sel, tables>>, MayFail
    PROVE  /\ FactsInv' /\ Grow
           /\ f # "pr_tmuxPanes" => PrPanesInv'
           /\ f # "pr_claudeSessions" => PrSessionsInv'
           /\ f # "worktree_pullRequest" => TreePrInv'
           /\ memo' = memo /\ f \notin IssueFields => MemoInv'
           /\ memo' = memo /\ left' = left /\ f # "issue_tmuxPanes" => IssuePanesInv'
           /\ memo' = memo /\ f # "issue_claudeSessions" => IssueSessionsInv'
  <1>1. FactsInv' /\ Grow
    BY TablesStay DEF ReadsInv
  <1>2. failed \subseteq failed'
    BY DEF MayFail
  <1>3. \A g \in {"issue_tmuxPanes", "issue_claudeSessions", "pr_tmuxPanes", "pr_claudeSessions",
                  "worktree_pullRequest"} : g \in sel.fields /\ g # f => Same(g)
    BY SelectedJoins
  <1>4. f # "pr_tmuxPanes" => PrPanesInv'
    BY <1>1, <1>2, <1>3, KeepsPrPanes DEF ReadsInv
  <1>5. f # "pr_claudeSessions" => PrSessionsInv'
    BY <1>1, <1>2, <1>3, KeepsPrSessions DEF ReadsInv
  <1>6. f # "worktree_pullRequest" => TreePrInv'
    BY <1>1, <1>2, <1>3, KeepsTreePr DEF ReadsInv
  <1>7. memo' = memo /\ f \notin IssueFields => MemoInv'
    BY <1>1, <1>2, <1>3, KeepsMemo DEF ReadsInv, IssueFields
  <1>8. memo' = memo /\ left' = left /\ f # "issue_tmuxPanes" => IssuePanesInv'
    <2>1. left \subseteq memo.set
      BY DEF ReadsInv, IssuePanesInv
    <2> QED
      BY <1>1, <1>2, <1>3, <2>1, KeepsIssuePanes DEF ReadsInv
  <1>9. memo' = memo /\ f # "issue_claudeSessions" => IssueSessionsInv'
    BY <1>1, <1>2, <1>3, KeepsIssueSessions DEF ReadsInv
  <1> QED
    BY <1>1, <1>4, <1>5, <1>6, <1>7, <1>8, <1>9

LEMMA IssueField == \A f \in IssueFields : f \in sel.fields /\ f \in Leaves /\ f \in Joins /\ Under(f) = "issue"
  BY JoinNames, Parents DEF IssueFields, Leaves, Joins

\* issueBranches: the first sibling takes the memo, or the second finds it done.
LEMMA EnterReads ==
    ASSUME ReadsInv, NEW f \in IssueFields, EnterOnce(f)
    PROVE  ReadsInv'
  <1> DEFINE at == IF memo.once = "new" THEN "compute" ELSE "read"
  <1>1. f \in sel.fields /\ f \in Leaves /\ f \in Joins /\ Under(f) = "issue"
    BY IssueField
  <1>2. MayFail /\ failed' = failed /\ UNCHANGED <<sel, tables, reply>> /\ pc[f] = "todo"
    BY DEF EnterOnce, MayFail, ReadsInv, PlacesInv
  <1>3. got[f] = {} /\ PlacesInv
    BY <1>1, <1>2 DEF ReadsInv, PlacesInv
  <1>4. got' = [got EXCEPT ![f] = {}] /\ pc' = [pc EXCEPT ![f] = at]
    <2>1. Continue(f, {}, at)
      BY DEF EnterOnce
    <2>2. got' = [got EXCEPT ![f] = got[f] \cup {}] /\ pc' = [pc EXCEPT ![f] = at]
      BY <1>1, <1>3, <2>1, Continued
    <2> QED
      BY <1>3, <2>2
  <1>5. PlacesInv' /\ \A g \in Joins : g # f => Same(g)
    BY <1>1, <1>2, <1>3, <1>4, LeafStep
  <1>6. /\ FactsInv' /\ Grow /\ PrPanesInv' /\ PrSessionsInv' /\ TreePrInv'
        /\ memo' = memo /\ left' = left /\ f # "issue_tmuxPanes" => IssuePanesInv'
        /\ memo' = memo /\ f # "issue_claudeSessions" => IssueSessionsInv'
    BY <1>2, <1>5, OthersKeep DEF IssueFields
  <1>7. memo'.set = memo.set /\ memo' = [once |-> memo'.once, set |-> memo'.set]
        /\ memo'.once = (IF memo.once = "new" THEN "tmux" ELSE "done") /\ memo.once \in {"new", "done"}
    BY DEF EnterOnce, ReadsInv, MemoInv
  <1>8. IssueFields' = IssueFields /\ \A g \in IssueFields : g \in Joins /\ g \in sel.fields /\ Under(g) = "issue"
    BY <1>2, IssueField DEF IssueFields
  <1>9. got'[f] = {} /\ pc'[f] = at /\ got'["issue"] = got["issue"]
    <2>1. "issue" # f
      BY DEF IssueFields
    <2> QED
      BY <1>1, <1>3, <1>4, <2>1 DEF PlacesInv
  <1>10. MemoInv'
    <2>1. \A g \in IssueFields : g # f => pc'[g] = pc[g]
      BY <1>5, <1>8 DEF Same
    <2>2. memo.set \subseteq LinkedBy(ever')
      BY <1>6, LinksGrow DEF ReadsInv, MemoInv
    <2>3. failed' = {} =>
              /\ memo.once = "done" => TmuxLinks(always') \subseteq memo.set
              /\ memo.once = "done" => ClaudeLinks(always') \subseteq memo.set
              /\ memo.once = "done" => PrLinks(always') \subseteq memo.set
      BY <1>2, <1>6, LinksGrow DEF ReadsInv, MemoInv
    <2>4. \A g \in IssueFields : g # f /\ memo.once = "new" => pc[g] \notin {"compute", "read", "scan"}
                                                              /\ ~(pc[g] = "done" /\ got["issue"] # {})
      BY DEF ReadsInv, MemoInv
    <2>5. \A g \in IssueFields : g # f /\ memo.once = "done" => pc[g] # "compute"
      BY DEF ReadsInv, MemoInv
    <2> QED
      BY <1>7, <1>8, <1>9, <2>1, <2>2, <2>3, <2>4, <2>5 DEF MemoInv
  <1>11. IssuePanesInv'
    <2>1. CASE f = "issue_tmuxPanes"
      <3>1. left = {} /\ left' = (IF memo.once = "new" THEN {} ELSE memo.set)
        BY <1>2, <1>7, <2>1 DEF EnterOnce, ReadsInv, IssuePanesInv
      <3>2. Over(f)' = FALSE /\ Ids(f)' = {}
        BY <1>9 DEF Over, Ids
      <3> QED
        BY <1>1, <1>2, <1>7, <1>9, <2>1, <3>1, <3>2 DEF IssuePanesInv
    <2>2. CASE f # "issue_tmuxPanes"
      <3>1. left' = left /\ left \subseteq memo'.set
        BY <1>7, <2>2 DEF EnterOnce, ReadsInv, IssuePanesInv
      <3>2. "issue_tmuxPanes" \in sel.fields => Same("issue_tmuxPanes")
        BY <1>5, <2>2, SelectedJoins
      <3> QED
        BY <1>2, <1>6, <1>7, <3>1, <3>2, KeepsIssuePanes DEF ReadsInv
    <2> QED
      BY <2>1, <2>2
  <1>12. IssueSessionsInv'
    <2>1. CASE f = "issue_claudeSessions"
      <3>1. Over(f)' = FALSE
        BY <1>9 DEF Over
      <3> QED
        BY <1>9, <2>1, <3>1 DEF IssueSessionsInv
    <2>2. CASE f # "issue_claudeSessions"
      <3>1. "issue_claudeSessions" \in sel.fields => Same("issue_claudeSessions")
        BY <1>5, <2>2, SelectedJoins
      <3> QED
        BY <1>2, <1>6, <1>7, <3>1, KeepsIssueSessions DEF ReadsInv
    <2> QED
      BY <2>1, <2>2
  <1> QED
    BY <1>5, <1>6, <1>10, <1>11, <1>12 DEF ReadsInv

\* What the three statements of computeIssueBranches add.
LEMMA TmuxLinksRead ==
    ASSUME FactsInv, NEW ok \in BOOLEAN
    PROVE  LET set == {r.branch : r \in {x \in Rows(ok, TmuxSessions) : N \in FromBranch(x.branch)}} IN
           set \subseteq LinkedBy(ever) /\ (ok => TmuxLinks(always) \subseteq set)
  <1> DEFINE set == {r.branch : r \in {x \in Rows(ok, TmuxSessions) : N \in FromBranch(x.branch)}}
  <1>1. ASSUME NEW b \in set PROVE b \in TmuxLinks(ever)
    <2>1. PICK s \in sel.tmux : b = db.tmux[s].branch /\ N \in FromBranch(b)
      BY DEF Rows, TmuxSessions
    <2> QED
      BY <2>1, TmuxFacts DEF TmuxLinks
  <1>2. ASSUME ok, NEW b \in TmuxLinks(always) PROVE b \in set
    <2>1. PICK p \in always.tmux : b = p.row.branch /\ N \in FromBranch(b)
      BY <1>2 DEF TmuxLinks
    <2>2. [id |-> p.id, branch |-> db.tmux[p.id].branch, here |-> db.tmux[p.id].here] \in TmuxSessions
      BY TmuxFacts DEF TmuxSessions
    <2> QED
      BY <1>2, <2>1, <2>2, TmuxFacts DEF Rows
  <1> QED
    BY <1>1, <1>2, LinkedSplit

LEMMA ClaudeLinksRead ==
    ASSUME FactsInv, NEW ok \in BOOLEAN
    PROVE  LET set == {r.branch : r \in Rows(ok, SessionsByIssue(N))} \ {NoBranch} IN
           set \subseteq LinkedBy(ever) /\ (ok => ClaudeLinks(always) \subseteq set)
  <1> DEFINE set == {r.branch : r \in Rows(ok, SessionsByIssue(N))} \ {NoBranch}
  <1>1. ASSUME NEW b \in set PROVE b \in ClaudeLinks(ever)
    <2>1. PICK c \in sel.claude : /\ db.claude[c] # Absent /\ b = db.claude[c].branch
                                  /\ db.claude[c].issue = N /\ b # NoBranch
      BY DEF Rows, SessionsByIssue, SessionRows
    <2> QED
      BY <2>1, ClaudeFacts DEF ClaudeLinks
  <1>2. ASSUME ok, NEW b \in ClaudeLinks(always) PROVE b \in set
    <2>1. PICK p \in always.claude : b = p.row.branch /\ p.row.issue = N /\ b # NoBranch
      BY <1>2 DEF ClaudeLinks
    <2>2. [id |-> p.id, branch |-> db.claude[p.id].branch, issue |-> db.claude[p.id].issue] \in SessionsByIssue(N)
      BY <2>1, ClaudeFacts DEF SessionsByIssue, SessionRows
    <2> QED
      BY <1>2, <2>1, <2>2, ClaudeFacts DEF Rows
  <1> QED
    BY <1>1, <1>2, LinkedSplit

LEMMA PrLinksRead ==
    ASSUME FactsInv, NEW ok \in BOOLEAN
    PROVE  LET set == {r.head : r \in {x \in Rows(ok, CachedPRs) : Links(x.head, x.body, N)}} IN
           set \subseteq LinkedBy(ever) /\ (ok => PrLinks(always) \subseteq set)
  <1> DEFINE set == {r.head : r \in {x \in Rows(ok, CachedPRs) : Links(x.head, x.body, N)}}
  <1>1. ASSUME NEW b \in set PROVE b \in PrLinks(ever)
    <2>1. PICK k \in sel.pr : db.pr[k] # Absent /\ b = db.pr[k].head /\ Links(b, db.pr[k].body, N)
      BY DEF Rows, CachedPRs
    <2> QED
      BY <2>1, PrFacts DEF PrLinks
  <1>2. ASSUME ok, NEW b \in PrLinks(always) PROVE b \in set
    <2>1. PICK p \in always.pr : b = p.row.head /\ Links(b, p.row.body, N)
      BY <1>2 DEF PrLinks
    <2>2. [id |-> p.id, head |-> db.pr[p.id].head, body |-> db.pr[p.id].body] \in CachedPRs
      BY PrFacts DEF CachedPRs
    <2> QED
      BY <1>2, <2>1, <2>2, PrFacts DEF Rows
  <1> QED
    BY <1>1, <1>2, LinkedSplit

LEMMA PlacesStay ==
    ASSUME PlacesInv, UNCHANGED <<sel, pc, got, reply>>, MayFail
    PROVE  PlacesInv' /\ \A g \in Joins : Same(g)
  BY DEF PlacesInv, MayFail, Same, Joins, Under

\* computeIssueBranches: while one sibling computes, the other has not begun.
LEMMA ComputeReads ==
    ASSUME ReadsInv, NEW f \in IssueFields, ComputeBranches(f)
    PROVE  ReadsInv'
  <1>1. f \in sel.fields /\ f \in Leaves /\ f \in Joins /\ Under(f) = "issue"
    BY IssueField
  <1>2. PICK ok \in BOOLEAN :
            /\ Statement(f, ok)
            /\ CASE memo.once = "tmux" ->
                  /\ memo' = [once |-> "claude",
                              set |-> {r.branch : r \in {x \in Rows(ok, TmuxSessions) : N \in FromBranch(x.branch)}}]
                  /\ UNCHANGED <<pc, left>>
               [] memo.once = "claude" ->
                  /\ memo' = [once |-> "prs",
                              set |-> memo.set \cup ({r.branch : r \in Rows(ok, SessionsByIssue(N))} \ {NoBranch})]
                  /\ UNCHANGED <<pc, left>>
               [] OTHER ->
                  /\ memo' = [once |-> "done",
                              set |-> memo.set
                                      \cup {r.head : r \in {x \in Rows(ok, CachedPRs) : Links(x.head, x.body, N)}}]
                  /\ pc' = [pc EXCEPT ![f] = "read"]
                  /\ left' = IF f = "issue_tmuxPanes" THEN memo'.set ELSE left
    BY DEF ComputeBranches
  <1>3. MayFail /\ (failed' = {} => ok /\ failed = {})
    BY <1>1, <1>2, StatementFails DEF ReadsInv
  <1>4. UNCHANGED <<sel, tables, got, reply>> /\ pc[f] = "compute"
    BY DEF ComputeBranches
  <1>5. got[f] = {} /\ memo.once \in {"tmux", "claude", "prs"} /\ PlacesInv /\ FactsInv
    BY <1>1, <1>4 DEF ReadsInv, PlacesInv, MemoInv
  <1>6. pc' = [pc EXCEPT ![f] = IF memo.once = "prs" THEN "read" ELSE "compute"]
    BY <1>1, <1>2, <1>4, <1>5 DEF PlacesInv
  <1>7. PlacesInv' /\ \A g \in Joins : g # f => Same(g)
    <2>1. got' = [got EXCEPT ![f] = {}]
      BY <1>1, <1>4, <1>5 DEF PlacesInv
    <2> QED
      BY <1>1, <1>3, <1>4, <1>5, <1>6, <2>1, LeafStep
  <1>8. FactsInv' /\ Grow /\ PrPanesInv' /\ PrSessionsInv' /\ TreePrInv'
    BY <1>3, <1>4, <1>7, OthersKeep DEF IssueFields
  <1>9. \A g \in IssueFields : g # f => /\ pc[g] \notin {"compute", "read", "scan"}
                                        /\ ~(pc[g] = "done" /\ got["issue"] # {}) /\ pc'[g] = pc[g]
    BY <1>4, <1>5, <1>7, IssueField DEF ReadsInv, MemoInv, Same
  <1>10. pc'[f] = IF memo.once = "prs" THEN "read" ELSE "compute"
    BY <1>1, <1>5, <1>6 DEF PlacesInv
  <1>11. /\ memo' = [once |-> memo'.once, set |-> memo'.set]
         /\ memo'.once = IF memo.once = "tmux" THEN "claude" ELSE IF memo.once = "claude" THEN "prs" ELSE "done"
    BY <1>2, <1>5
  <1>12. ever' = ever /\ always' = always
    BY <1>4 DEF tables
  <1>13. /\ memo'.set \subseteq LinkedBy(ever)
         /\ failed' = {} =>
              /\ memo'.once \in {"claude", "prs", "done"} => TmuxLinks(always) \subseteq memo'.set
              /\ memo'.once \in {"prs", "done"} => ClaudeLinks(always) \subseteq memo'.set
              /\ memo'.once = "done" => PrLinks(always) \subseteq memo'.set
    <2>1. CASE memo.once = "tmux"
      BY <1>2, <1>3, <1>5, <2>1, TmuxLinksRead
    <2>2. CASE memo.once = "claude"
      BY <1>2, <1>3, <1>5, <2>2, ClaudeLinksRead DEF ReadsInv, MemoInv
    <2>3. CASE memo.once = "prs"
      BY <1>2, <1>3, <1>5, <2>3, PrLinksRead DEF ReadsInv, MemoInv
    <2> QED
      BY <1>5, <2>1, <2>2, <2>3
  <1>14. MemoInv'
    <2>1. IssueFields' = IssueFields
      BY <1>4 DEF IssueFields
    <2> QED
      BY <1>4, <1>9, <1>10, <1>11, <1>12, <1>13, <1>5, <2>1 DEF MemoInv
  <1>15. left = {} /\ failed \subseteq failed'
    BY <1>3, <1>4, <1>5, <1>9 DEF ReadsInv, IssuePanesInv, IssueFields, MayFail
  <1>16. \A g \in IssueFields : ~Over(g) /\ pc[g] # "read"
    BY <1>1, <1>4, <1>9, IssueField DEF Over
  <1>17. IssuePanesInv'
    <2>1. CASE f = "issue_tmuxPanes" /\ memo.once = "prs"
      <3>1. left' = memo'.set /\ pc'[f] = "read"
        BY <1>2, <1>10, <2>1
      <3>2. Ids(f)' = {} /\ got'[f] = {} /\ f \in sel'.fields
        BY <1>1, <1>4, <1>5 DEF Ids
      <3> QED
        BY <2>1, <3>1, <3>2 DEF IssuePanesInv
    <2>2. CASE ~(f = "issue_tmuxPanes" /\ memo.once = "prs")
      <3>1. left' = left /\ left \subseteq memo'.set
        BY <1>2, <1>5, <1>15, <2>2
      <3>2. "issue_tmuxPanes" \in sel.fields => Same("issue_tmuxPanes")
        BY <1>1, <1>4, <1>6, <1>7, <1>10, <2>2, SelectedJoins DEF Same
      <3>3. "issue_tmuxPanes" \in sel.fields => ~(pc["issue_tmuxPanes"] = "read" \/ Over("issue_tmuxPanes"))
        BY <1>16 DEF IssueFields
      <3> QED
        BY <1>4, <1>8, <1>15, <3>1, <3>2, <3>3, KeepsIssuePanes DEF ReadsInv
    <2> QED
      BY <2>1, <2>2
  <1>18. IssueSessionsInv'
    <2>1. CASE f = "issue_claudeSessions" /\ memo.once = "prs"
      BY <1>4, <1>5, <1>10, <2>1 DEF IssueSessionsInv, Over
    <2>2. CASE ~(f = "issue_claudeSessions" /\ memo.once = "prs")
      <3>1. "issue_claudeSessions" \in sel.fields => Same("issue_claudeSessions")
        BY <1>1, <1>4, <1>6, <1>7, <1>10, <2>2, SelectedJoins DEF Same
      <3>2. "issue_claudeSessions" \in sel.fields => ~Over("issue_claudeSessions")
        BY <1>16 DEF IssueFields
      <3> QED
        BY <1>4, <1>8, <1>15, <3>1, <3>2, KeepsIssueSessions DEF ReadsInv
    <2> QED
      BY <2>1, <2>2
  <1> QED
    BY <1>7, <1>8, <1>14, <1>17, <1>18 DEF ReadsInv

\* Once the branches are computed the memo stays.
LEMMA MemoStays ==
    ASSUME MemoInv, Grow, UNCHANGED <<sel, memo>>, failed \subseteq failed', memo.once = "done",
           \A g \in IssueFields : pc'[g] = pc[g] \/ pc'[g] # "compute"
    PROVE  MemoInv'
  <1>1. IssueFields' = IssueFields
    BY DEF IssueFields
  <1>2. memo.set \subseteq LinkedBy(ever')
    BY LinksGrow DEF MemoInv
  <1> QED
    BY <1>1, <1>2, LinksGrow DEF MemoInv

\* tmux.PaneForBranch: a pane that stayed is in the answer if it is on the branch.
LEMMA PanesRead ==
    ASSUME FactsInv, NEW ok \in BOOLEAN, NEW b
    PROVE  LET rows == Rows(ok, PaneForBranch(b)) IN
           /\ \A r \in rows : \E y \in ever.tmux : y.id = r.id /\ y.row.branch = b
           /\ \A p \in always.tmux : /\ (\E r \in rows : r.id = p.id) => p.row.branch = b
                                     /\ ok /\ p.row.branch = b => \E r \in rows : r.id = p.id
  <1> DEFINE rows == Rows(ok, PaneForBranch(b))
  <1>1. \A r \in rows : \E s \in sel.tmux : r = [id |-> s] /\ db.tmux[s].branch = b
    BY DEF Rows, PaneForBranch
  <1>2. ok => \A s \in sel.tmux : db.tmux[s].branch = b => [id |-> s] \in rows
    BY DEF Rows, PaneForBranch
  <1> HIDE DEF rows
  <1>3. ASSUME NEW r \in rows PROVE \E y \in ever.tmux : y.id = r.id /\ y.row.branch = b
    BY <1>1, TmuxFacts
  <1>4. ASSUME NEW p \in always.tmux, NEW r \in rows, r.id = p.id PROVE p.row.branch = b
    BY <1>1, <1>4, TmuxFacts
  <1>5. ASSUME NEW p \in always.tmux, ok, p.row.branch = b PROVE \E r \in rows : r.id = p.id
    <2>1. [id |-> p.id] \in rows
      BY <1>2, <1>5, TmuxFacts
    <2> QED
      BY <2>1
  <1>6. /\ \A r \in rows : \E y \in ever.tmux : y.id = r.id /\ y.row.branch = b
        /\ \A p \in always.tmux : /\ (\E r \in rows : r.id = p.id) => p.row.branch = b
                                  /\ ok /\ p.row.branch = b => \E r \in rows : r.id = p.id
    BY <1>3, <1>4, <1>5
  <1> QED
    BY <1>6 DEF rows

\* claude.QuerySessions: a session that stayed is there as it stayed.
LEMMA SessionsRead ==
    ASSUME FactsInv
    PROVE  /\ \A r \in QuerySessions : \E y \in ever.claude :
                 y.id = r.id /\ y.row.branch = r.branch /\ y.row.issue = r.issue
           /\ \A c \in always.claude : \A r \in QuerySessions :
                 r.id = c.id => r.branch = c.row.branch /\ r.issue = c.row.issue
           /\ \A c \in always.claude : \E r \in QuerySessions : r.id = c.id
  <1>1. \A r \in QuerySessions : \E x \in sel.claude :
            /\ db.claude[x] # Absent
            /\ r = [id |-> x, branch |-> db.claude[x].branch, issue |-> db.claude[x].issue]
    BY DEF QuerySessions, SessionRows
  <1>2. \A x \in sel.claude : db.claude[x] # Absent =>
            [id |-> x, branch |-> db.claude[x].branch, issue |-> db.claude[x].issue] \in QuerySessions
    BY DEF QuerySessions, SessionRows
  <1>3. ASSUME NEW r \in QuerySessions
        PROVE  \E y \in ever.claude : y.id = r.id /\ y.row.branch = r.branch /\ y.row.issue = r.issue
    <2>1. PICK x \in sel.claude : /\ db.claude[x] # Absent
                                  /\ r = [id |-> x, branch |-> db.claude[x].branch, issue |-> db.claude[x].issue]
      BY <1>1
    <2> QED
      BY <2>1, ClaudeFacts
  <1>4. ASSUME NEW c \in always.claude, NEW r \in QuerySessions, r.id = c.id
        PROVE  r.branch = c.row.branch /\ r.issue = c.row.issue
    BY <1>1, <1>4, ClaudeFacts
  <1>5. ASSUME NEW c \in always.claude PROVE \E r \in QuerySessions : r.id = c.id
    <2>1. [id |-> c.id, branch |-> db.claude[c.id].branch, issue |-> db.claude[c.id].issue] \in QuerySessions
      BY <1>2, ClaudeFacts
    <2> QED
      BY <2>1
  <1> QED
    BY <1>3, <1>4, <1>5

\* tmuxPanesForIssue
LEMMA IssuePanesRead ==
    ASSUME ReadsInv, NEW f \in Selected({"issue_tmuxPanes"}), IssuePanes(f)
    PROVE  ReadsInv'
  <1>1. f = "issue_tmuxPanes" /\ f \in IssueFields /\ f \in sel.fields /\ f \in Leaves /\ f \in Joins /\ Under(f) = "issue"
    BY IssueField DEF Selected, IssueFields
  <1>2. /\ pc[f] = "read" /\ UNCHANGED <<sel, tables, memo, reply>> /\ PlacesInv /\ FactsInv
        /\ memo.once = "done"
    BY <1>1 DEF IssuePanes, ReadsInv, MemoInv
  <1>3. \E ok \in BOOLEAN, gone \in SUBSET left, at \in {"read", "done"}, rows \in SUBSET PaneRows :
            /\ got' = [got EXCEPT ![f] = got[f] \cup rows] /\ pc' = [pc EXCEPT ![f] = at]
            /\ left' = left \ gone /\ MayFail /\ (failed' = {} => ok /\ failed = {})
            /\ at = "done" => left = {}
            /\ \/ rows = {} /\ gone = {}
               \/ \E b \in left : gone = {b} /\ rows = Rows(ok, PaneForBranch(b))
    <2>1. CASE left = {}
      <3>1. Finish(f, {}) /\ left' = left \ {} /\ failed' = failed
        BY <2>1 DEF IssuePanes
      <3>2. got' = [got EXCEPT ![f] = got[f] \cup {}] /\ pc' = [pc EXCEPT ![f] = "done"]
        BY <1>1, <1>2, <3>1, LeafFinish
      <3>3. MayFail
        BY <1>2, <3>1 DEF MayFail, PlacesInv
      <3> QED
        BY <2>1, <3>1, <3>2, <3>3
    <2>2. CASE left # {}
      <3>1. PICK b \in left, ok \in BOOLEAN :
                Statement(f, ok) /\ Continue(f, Rows(ok, PaneForBranch(b)), "read") /\ left' = left \ {b}
        BY <2>2 DEF IssuePanes
      <3>2. MayFail /\ (failed' = {} => ok /\ failed = {})
        BY <1>1, <1>2, <3>1, StatementFails
      <3>3. got' = [got EXCEPT ![f] = got[f] \cup Rows(ok, PaneForBranch(b))] /\ pc' = [pc EXCEPT ![f] = "read"]
        BY <1>1, <1>2, <3>1, Continued
      <3>4. Rows(ok, PaneForBranch(b)) \in SUBSET PaneRows
        BY DEF Rows, PaneForBranch, PaneRows
      <3> QED
        BY <3>1, <3>2, <3>3, <3>4
    <2> QED
      BY <2>1, <2>2
  <1>4. PICK ok \in BOOLEAN, gone \in SUBSET left, at \in {"read", "done"}, rows \in SUBSET PaneRows :
            /\ got' = [got EXCEPT ![f] = got[f] \cup rows] /\ pc' = [pc EXCEPT ![f] = at]
            /\ left' = left \ gone /\ MayFail /\ (failed' = {} => ok /\ failed = {})
            /\ at = "done" => left = {}
            /\ \/ rows = {} /\ gone = {}
               \/ \E b \in left : gone = {b} /\ rows = Rows(ok, PaneForBranch(b))
    BY <1>3
  <1>5. PlacesInv' /\ \A g \in Joins : g # f => Same(g)
    BY <1>1, <1>2, <1>4, LeafStep
  <1>6. FactsInv' /\ Grow /\ PrPanesInv' /\ PrSessionsInv' /\ TreePrInv' /\ IssueSessionsInv'
    BY <1>1, <1>2, <1>4, <1>5, OthersKeep
  <1>7. got'[f] = got[f] \cup rows /\ pc'[f] = at /\ failed \subseteq failed'
    BY <1>1, <1>2, <1>4 DEF PlacesInv, MayFail
  <1>8. MemoInv'
    <2>1. \A g \in IssueFields : pc'[g] = pc[g] \/ pc'[g] # "compute"
      BY <1>1, <1>5, <1>7, IssueField DEF Same
    <2> QED
      BY <1>2, <1>6, <1>7, <2>1, MemoStays DEF ReadsInv
  <1>9. ever' = ever /\ always' = always /\ sel' = sel /\ memo' = memo
    BY <1>2 DEF tables
  <1>10. /\ left \subseteq memo.set /\ memo.set \subseteq LinkedBy(ever)
         /\ \A r \in got[f] : \E y \in ever.tmux : y.id = r.id /\ y.row.branch \in LinkedBy(ever)
         /\ \A p \in always.tmux : /\ p.id \in Ids(f) => p.row.branch \in memo.set \ left
                                   /\ failed = {} /\ p.row.branch \in memo.set \ left => p.id \in Ids(f)
    BY <1>1, <1>2 DEF ReadsInv, IssuePanesInv, MemoInv
  <1>11. \A p : p.id \in Ids(f)' <=> p.id \in Ids(f) \/ \E r \in rows : r.id = p.id
    BY <1>7 DEF Ids
  <1>12. IssuePanesInv'
    <2>1. left' # {} => at = "read"
      BY <1>4
    <2>2. CASE rows = {} /\ gone = {}
      BY <1>1, <1>4, <1>7, <1>9, <1>10, <1>11, <2>1, <2>2 DEF IssuePanesInv
    <2>3. ASSUME NEW b \in left, gone = {b}, rows = Rows(ok, PaneForBranch(b)) PROVE IssuePanesInv'
      <3>1. /\ \A r \in rows : \E y \in ever.tmux : y.id = r.id /\ y.row.branch = b
            /\ \A p \in always.tmux : /\ (\E r \in rows : r.id = p.id) => p.row.branch = b
                                      /\ ok /\ p.row.branch = b => \E r \in rows : r.id = p.id
        BY <1>2, <2>3, PanesRead
      <3>2. left' = left \ {b} /\ b \in memo.set /\ b \in LinkedBy(ever)
        BY <1>4, <1>10, <2>3
      <3>3. \A r \in got'[f] : \E y \in ever.tmux : y.id = r.id /\ y.row.branch \in LinkedBy(ever)
        BY <1>7, <1>10, <3>1, <3>2
      <3>4. \A p \in always.tmux : /\ p.id \in Ids(f)' => p.row.branch \in memo.set \ left'
                                   /\ failed' = {} /\ p.row.branch \in memo.set \ left' => p.id \in Ids(f)'
        BY <1>4, <1>10, <1>11, <3>1, <3>2
      <3> QED
        BY <1>1, <1>7, <1>9, <1>10, <2>1, <3>2, <3>3, <3>4 DEF IssuePanesInv
    <2> QED
      BY <1>4, <2>2, <2>3
  <1> QED
    BY <1>5, <1>6, <1>8, <1>12 DEF ReadsInv

\* claudeSessionsForIssue, first the sessions keyed to the issue.
LEMMA IssueSessionsRead ==
    ASSUME ReadsInv, NEW f \in Selected({"issue_claudeSessions"}), IssueSessions(f)
    PROVE  ReadsInv'
  <1>1. /\ f = "issue_claudeSessions" /\ f \in IssueFields /\ f \in sel.fields /\ f \in Leaves /\ f \in Joins
        /\ Under(f) = "issue"
    BY IssueField DEF Selected, IssueFields
  <1>2. /\ pc[f] = "read" /\ UNCHANGED <<sel, tables, memo, left, reply>> /\ PlacesInv /\ FactsInv
        /\ memo.once = "done" /\ got[f] = {}
    BY <1>1 DEF IssueSessions, ReadsInv, MemoInv, IssueSessionsInv
  <1>3. PICK ok \in BOOLEAN : Statement(f, ok) /\ Continue(f, Rows(ok, SessionsByIssue(N)), "scan")
    BY DEF IssueSessions
  <1> DEFINE rows == Rows(ok, SessionsByIssue(N))
  <1>4. MayFail /\ (failed' = {} => ok /\ failed = {})
    BY <1>1, <1>2, <1>3, StatementFails
  <1>5. got' = [got EXCEPT ![f] = got[f] \cup rows] /\ pc' = [pc EXCEPT ![f] = "scan"]
    BY <1>1, <1>2, <1>3, Continued
  <1>6. \A r : r \in rows <=> ok /\ r \in QuerySessions /\ r.issue = N
    BY DEF Rows, SessionsByIssue, QuerySessions
  <1> HIDE DEF rows
  <1>7. PlacesInv' /\ \A g \in Joins : g # f => Same(g)
    BY <1>1, <1>2, <1>4, <1>5, LeafStep
  <1>8. FactsInv' /\ Grow /\ PrPanesInv' /\ PrSessionsInv' /\ TreePrInv' /\ IssuePanesInv'
    BY <1>1, <1>2, <1>4, <1>7, OthersKeep
  <1>9. got'[f] = rows /\ pc'[f] = "scan" /\ failed \subseteq failed'
    BY <1>1, <1>2, <1>4, <1>5 DEF PlacesInv, MayFail
  <1>10. MemoInv'
    <2>1. \A g \in IssueFields : pc'[g] = pc[g] \/ pc'[g] # "compute"
      BY <1>1, <1>7, <1>9, IssueField DEF Same
    <2> QED
      BY <1>2, <1>8, <1>9, <2>1, MemoStays DEF ReadsInv
  <1>11. IssueSessionsInv'
    <2>1. ever' = ever /\ always' = always /\ sel' = sel /\ Over(f)' = FALSE
      BY <1>2, <1>9 DEF tables, Over
    <2>2. \A r \in rows : \E y \in ever.claude : y.id = r.id /\ y.row.issue = N
      BY <1>2, <1>6, SessionsRead
    <2>3. \A c : c.id \in Ids(f)' <=> \E r \in rows : r.id = c.id
      BY <1>9 DEF Ids
    <2>4. \A c \in always.claude : /\ c.id \in Ids(f)' => c.row.issue = N
                                   /\ failed' = {} /\ c.row.issue = N => c.id \in Ids(f)'
      BY <1>2, <1>4, <1>6, <2>3, SessionsRead
    <2> QED
      BY <1>1, <1>9, <2>1, <2>2, <2>4 DEF IssueSessionsInv
  <1> QED
    BY <1>7, <1>8, <1>10, <1>11 DEF ReadsInv

\* The rows a scan adds: add keeps the first row of a session.
LEMMA AddsUnseen ==
    ASSUME NEW f, NEW rows, got'[f] = got[f] \cup Unseen(f, rows)
    PROVE  /\ \A r \in got'[f] : r \in got[f] \/ r \in rows
           /\ \A c : c.id \in Ids(f)' <=> c.id \in Ids(f) \/ \E r \in rows : r.id = c.id
  BY DEF Unseen, Ids

\* Then those on one of its branches.
LEMMA IssueSessionsScan ==
    ASSUME ReadsInv, NEW f \in Selected({"issue_claudeSessions"}), ScanIssueSessions(f)
    PROVE  ReadsInv'
  <1>1. /\ f = "issue_claudeSessions" /\ f \in IssueFields /\ f \in sel.fields /\ f \in Leaves /\ f \in Joins
        /\ Under(f) = "issue"
    BY IssueField DEF Selected, IssueFields
  <1>2. /\ pc[f] = "scan" /\ UNCHANGED <<sel, tables, memo, left, reply>> /\ PlacesInv /\ FactsInv
        /\ memo.once = "done"
    BY <1>1 DEF ScanIssueSessions, ReadsInv, MemoInv
  <1>3. PICK ok \in BOOLEAN :
            /\ Statement(f, ok)
            /\ Finish(f, Unseen(f, Rows(ok, {r \in QuerySessions : r.branch # NoBranch /\ r.branch \in memo.set})))
    BY DEF ScanIssueSessions
  <1> DEFINE rows == Rows(ok, {r \in QuerySessions : r.branch # NoBranch /\ r.branch \in memo.set})
  <1>4. MayFail /\ (failed' = {} => ok /\ failed = {})
    BY <1>1, <1>2, <1>3, StatementFails
  <1>5. got' = [got EXCEPT ![f] = got[f] \cup Unseen(f, rows)] /\ pc' = [pc EXCEPT ![f] = "done"]
    BY <1>1, <1>2, <1>3, LeafFinish
  <1>6. \A r : r \in rows <=> ok /\ r \in QuerySessions /\ r.branch # NoBranch /\ r.branch \in memo.set
    BY DEF Rows
  <1> HIDE DEF rows
  <1>7. PlacesInv' /\ \A g \in Joins : g # f => Same(g)
    BY <1>1, <1>2, <1>4, <1>5, LeafStep
  <1>8. FactsInv' /\ Grow /\ PrPanesInv' /\ PrSessionsInv' /\ TreePrInv' /\ IssuePanesInv'
    BY <1>1, <1>2, <1>4, <1>7, OthersKeep
  <1>9. got'[f] = got[f] \cup Unseen(f, rows) /\ pc'[f] = "done" /\ failed \subseteq failed'
    BY <1>1, <1>2, <1>4, <1>5 DEF PlacesInv, MayFail
  <1>10. MemoInv'
    <2>1. \A g \in IssueFields : pc'[g] = pc[g] \/ pc'[g] # "compute"
      BY <1>1, <1>7, <1>9, IssueField DEF Same
    <2> QED
      BY <1>2, <1>8, <1>9, <2>1, MemoStays DEF ReadsInv
  <1>11. IssueSessionsInv'
    <2>1. ever' = ever /\ always' = always /\ sel' = sel /\ memo' = memo
      BY <1>2 DEF tables
    <2>2. /\ \A r \in got[f] : \E y \in ever.claude :
                y.id = r.id /\ (y.row.branch \in LinkedBy(ever) \/ y.row.issue = N)
          /\ \A c \in always.claude : /\ c.id \in Ids(f) => c.row.issue = N
                                      /\ failed = {} /\ c.row.issue = N => c.id \in Ids(f)
          /\ memo.set \subseteq LinkedBy(ever)
      BY <1>1, <1>2 DEF ReadsInv, IssueSessionsInv, MemoInv
    <2>3. \A r \in rows : \E y \in ever.claude : y.id = r.id /\ y.row.branch \in LinkedBy(ever)
      BY <1>2, <1>6, <2>2, SessionsRead
    <2>4. \A r \in got'[f] : \E y \in ever.claude :
                y.id = r.id /\ (y.row.branch \in LinkedBy(ever) \/ y.row.issue = N)
      BY <1>9, <2>2, <2>3, AddsUnseen
    <2>5. \A c : c.id \in Ids(f)' <=> c.id \in Ids(f) \/ \E r \in rows : r.id = c.id
      BY <1>9, AddsUnseen
    <2>6. ASSUME NEW c \in always.claude
          PROVE  LET on == c.row.branch # NoBranch /\ c.row.branch \in memo.set IN
                 /\ c.id \in Ids(f)' => c.row.issue = N \/ on
                 /\ failed' = {} /\ (c.row.issue = N \/ on) => c.id \in Ids(f)'
      <3>1. (\E r \in rows : r.id = c.id) => c.row.branch # NoBranch /\ c.row.branch \in memo.set
        BY <1>2, <1>6, SessionsRead
      <3>2. ok /\ c.row.branch # NoBranch /\ c.row.branch \in memo.set => \E r \in rows : r.id = c.id
        BY <1>2, <1>6, SessionsRead
      <3> QED
        BY <1>4, <2>2, <2>5, <3>1, <3>2
    <2> QED
      BY <1>1, <1>9, <2>1, <2>4, <2>6 DEF IssueSessionsInv
  <1> QED
    BY <1>7, <1>8, <1>10, <1>11 DEF ReadsInv

----------------------------------------------------------------------------
(* The joins of a pull request. *)

LEMMA PrField ==
    \A f \in {"pr_tmuxPanes", "pr_claudeSessions"} :
        f \in sel.fields => f \in Leaves /\ f \in Joins /\ f \notin IssueFields /\ Under(f) = "pullRequest"
  BY JoinNames, Parents DEF IssueFields, Leaves, Joins

\* A step of a join of the pull request does not touch the pull request.
LEMMA HeadKept ==
    ASSUME PlacesInv, NEW f \in {"pr_tmuxPanes", "pr_claudeSessions"}, NEW rows,
           got' = [got EXCEPT ![f] = rows]
    PROVE  HeadRef' = HeadRef
  <1>1. got'["pullRequest"] = got["pullRequest"]
    BY DEF PlacesInv
  <1> QED
    BY <1>1 DEF HeadRef

\* panesForBranchModel
LEMMA PrPanesRead ==
    ASSUME ReadsInv, NEW f \in Selected({"pr_tmuxPanes"}), PullRequestPanes(f)
    PROVE  ReadsInv'
  <1>1. /\ f = "pr_tmuxPanes" /\ f \in sel.fields /\ f \in Leaves /\ f \in Joins /\ f \notin IssueFields
        /\ Under(f) = "pullRequest"
    BY PrField DEF Selected
  <1>2. /\ pc[f] = "todo" /\ UNCHANGED <<sel, tables, memo, left, reply>> /\ PlacesInv /\ FactsInv
        /\ got[f] = {}
    BY <1>1 DEF PullRequestPanes, ReadsInv, PlacesInv
  <1>3. PICK ok \in BOOLEAN : Statement(f, ok) /\ Finish(f, Rows(ok, PaneForBranch(HeadRef)))
    BY DEF PullRequestPanes
  <1> DEFINE rows == Rows(ok, PaneForBranch(HeadRef))
  <1>4. MayFail /\ (failed' = {} => ok /\ failed = {})
    BY <1>1, <1>2, <1>3, StatementFails
  <1>5. got' = [got EXCEPT ![f] = got[f] \cup rows] /\ pc' = [pc EXCEPT ![f] = "done"]
    BY <1>1, <1>2, <1>3, LeafFinish
  <1>6. /\ \A r \in rows : \E y \in ever.tmux : y.id = r.id /\ y.row.branch = HeadRef
        /\ \A p \in always.tmux : ok /\ p.row.branch = HeadRef => \E r \in rows : r.id = p.id
    BY <1>2, PanesRead
  <1> HIDE DEF rows
  <1>7. PlacesInv' /\ \A g \in Joins : g # f => Same(g)
    BY <1>1, <1>2, <1>4, <1>5, LeafStep
  <1>8. FactsInv' /\ MemoInv' /\ PrSessionsInv' /\ TreePrInv' /\ IssuePanesInv' /\ IssueSessionsInv'
    BY <1>1, <1>2, <1>4, <1>7, OthersKeep
  <1>9. PrPanesInv'
    <2>1. got'[f] = rows
      BY <1>1, <1>2, <1>5 DEF PlacesInv
    <2>2. ever' = ever /\ always' = always /\ sel' = sel /\ HeadRef' = HeadRef
      BY <1>1, <1>2, <1>5, HeadKept DEF tables
    <2>3. \A p : p.id \in Ids(f)' <=> \E r \in rows : r.id = p.id
      BY <2>1 DEF Ids
    <2>4. failed' = {} => \A p \in always.tmux : p.row.branch = HeadRef => p.id \in Ids(f)'
      BY <1>4, <1>6, <2>3
    <2> QED
      BY <1>1, <1>6, <2>1, <2>2, <2>4 DEF PrPanesInv
  <1> QED
    BY <1>7, <1>8, <1>9 DEF ReadsInv

\* A branch encodes one issue at most.
LEMMA OneIssue == \A b : \A n, m \in FromBranch(b) : n = m
  BY DEF FromBranch

\* claudeSessionsOnBranchModel, first by the issue of the head branch.
LEMMA PrSessionsRead ==
    ASSUME ReadsInv, NEW f \in Selected({"pr_claudeSessions"}), PullRequestSessions(f)
    PROVE  ReadsInv'
  <1>1. /\ f = "pr_claudeSessions" /\ f \in sel.fields /\ f \in Leaves /\ f \in Joins /\ f \notin IssueFields
        /\ Under(f) = "pullRequest"
    BY PrField DEF Selected
  <1>2. /\ pc[f] = "todo" /\ UNCHANGED <<sel, tables, memo, left, reply>> /\ PlacesInv /\ FactsInv
        /\ got[f] = {}
    BY <1>1 DEF PullRequestSessions, ReadsInv, PlacesInv
  <1>3. PICK n \in FromBranch(HeadRef), ok \in BOOLEAN :
            Statement(f, ok) /\ Continue(f, Rows(ok, SessionsByIssue(n)), "scan")
    BY DEF PullRequestSessions
  <1> DEFINE rows == Rows(ok, SessionsByIssue(n))
  <1>4. MayFail /\ (failed' = {} => ok /\ failed = {})
    BY <1>1, <1>2, <1>3, StatementFails
  <1>5. got' = [got EXCEPT ![f] = got[f] \cup rows] /\ pc' = [pc EXCEPT ![f] = "scan"]
    BY <1>1, <1>2, <1>3, Continued
  <1>6. \A r : r \in rows <=> ok /\ r \in QuerySessions /\ r.issue = n
    BY DEF Rows, SessionsByIssue, QuerySessions
  <1> HIDE DEF rows
  <1>7. PlacesInv' /\ \A g \in Joins : g # f => Same(g)
    BY <1>1, <1>2, <1>4, <1>5, LeafStep
  <1>8. FactsInv' /\ MemoInv' /\ PrPanesInv' /\ TreePrInv' /\ IssuePanesInv' /\ IssueSessionsInv'
    BY <1>1, <1>2, <1>4, <1>7, OthersKeep
  <1>9. PrSessionsInv'
    <2>1. got'[f] = rows /\ pc'[f] = "scan"
      BY <1>1, <1>2, <1>5 DEF PlacesInv
    <2>2. ever' = ever /\ always' = always /\ sel' = sel /\ HeadRef' = HeadRef /\ Over(f)' = FALSE
      BY <1>1, <1>2, <1>5, <2>1, HeadKept DEF tables, Over
    <2>3. \A c : Keyed(c)' = Keyed(c) /\ (Keyed(c) <=> c.row.issue = n)
      BY <1>3, <2>2, OneIssue DEF Keyed
    <2>4. \A r \in rows : \E y \in ever.claude : y.id = r.id /\ Keyed(y)
      BY <1>2, <1>6, <2>3, SessionsRead
    <2>5. \A c : c.id \in Ids(f)' <=> \E r \in rows : r.id = c.id
      BY <2>1 DEF Ids
    <2>6. failed' = {} => \A c \in always.claude : Keyed(c) => c.id \in Ids(f)'
      BY <1>2, <1>4, <1>6, <2>3, <2>5, SessionsRead
    <2> QED
      BY <1>1, <2>1, <2>2, <2>3, <2>4, <2>6 DEF PrSessionsInv
  <1> QED
    BY <1>7, <1>8, <1>9 DEF ReadsInv

\* Then those on the head branch.
LEMMA PrSessionsScan ==
    ASSUME ReadsInv, NEW f \in Selected({"pr_claudeSessions"}), ScanPullRequestSessions(f)
    PROVE  ReadsInv'
  <1>1. /\ f = "pr_claudeSessions" /\ f \in sel.fields /\ f \in Leaves /\ f \in Joins /\ f \notin IssueFields
        /\ Under(f) = "pullRequest"
    BY PrField DEF Selected
  <1>2. /\ pc[f] = "scan" \/ (pc[f] = "todo" /\ FromBranch(HeadRef) = {})
        /\ UNCHANGED <<sel, tables, memo, left, reply>> /\ PlacesInv /\ FactsInv
    BY DEF ScanPullRequestSessions, ReadsInv
  <1>3. PICK ok \in BOOLEAN :
            Statement(f, ok) /\ Finish(f, Unseen(f, Rows(ok, {r \in QuerySessions : r.branch = HeadRef})))
    BY DEF ScanPullRequestSessions
  <1> DEFINE rows == Rows(ok, {r \in QuerySessions : r.branch = HeadRef})
  <1>4. MayFail /\ (failed' = {} => ok /\ failed = {})
    BY <1>1, <1>2, <1>3, StatementFails
  <1>5. got' = [got EXCEPT ![f] = got[f] \cup Unseen(f, rows)] /\ pc' = [pc EXCEPT ![f] = "done"]
    BY <1>1, <1>2, <1>3, LeafFinish
  <1>6. \A r : r \in rows <=> ok /\ r \in QuerySessions /\ r.branch = HeadRef
    BY DEF Rows
  <1> HIDE DEF rows
  <1>7. PlacesInv' /\ \A g \in Joins : g # f => Same(g)
    BY <1>1, <1>2, <1>4, <1>5, LeafStep
  <1>8. FactsInv' /\ MemoInv' /\ PrPanesInv' /\ TreePrInv' /\ IssuePanesInv' /\ IssueSessionsInv'
    BY <1>1, <1>2, <1>4, <1>7, OthersKeep
  <1>9. PrSessionsInv'
    <2>1. got'[f] = got[f] \cup Unseen(f, rows) /\ pc'[f] = "done"
      BY <1>1, <1>2, <1>5 DEF PlacesInv
    <2>2. ever' = ever /\ always' = always /\ sel' = sel /\ HeadRef' = HeadRef
      BY <1>1, <1>2, <1>5, HeadKept DEF tables
    <2>3. \A c : Keyed(c)' = Keyed(c)
      BY <2>2 DEF Keyed
    <2>4. /\ \A r \in got[f] : \E y \in ever.claude : y.id = r.id /\ (y.row.branch = HeadRef \/ Keyed(y))
          /\ failed = {} => \A c \in always.claude : Keyed(c) => c.id \in Ids(f)
      BY <1>1, <1>2 DEF ReadsInv, PrSessionsInv, Keyed
    <2>5. \A r \in rows : \E y \in ever.claude : y.id = r.id /\ y.row.branch = HeadRef
      BY <1>2, <1>6, SessionsRead
    <2>6. \A r \in got'[f] : \E y \in ever.claude : y.id = r.id /\ (y.row.branch = HeadRef \/ Keyed(y))
      BY <2>1, <2>4, <2>5, AddsUnseen
    <2>7. \A c : c.id \in Ids(f)' <=> c.id \in Ids(f) \/ \E r \in rows : r.id = c.id
      BY <2>1, AddsUnseen
    <2>8. failed' = {} => \A c \in always.claude : c.row.branch = HeadRef \/ Keyed(c) => c.id \in Ids(f)'
      <3>1. \A c \in always.claude : ok /\ c.row.branch = HeadRef => \E r \in rows : r.id = c.id
        BY <1>2, <1>6, SessionsRead
      <3> QED
        BY <1>4, <2>4, <2>7, <3>1
    <2> QED
      BY <1>1, <2>1, <2>2, <2>3, <2>6, <2>8 DEF PrSessionsInv
  <1> QED
    BY <1>7, <1>8, <1>9 DEF ReadsInv

----------------------------------------------------------------------------
(* The joins of a worktree. *)

LEMMA TreeField ==
    \A f \in {"worktree_tmuxSession", "worktree_issue", "worktree_pullRequest"} :
        f \in sel.fields => f \in Leaves /\ f \in Joins /\ f \notin IssueFields /\ Under(f) = "repo_worktrees"
  BY JoinNames, Parents DEF IssueFields, Leaves, Joins

\* A join in one step that nothing else depends on.
LEMMA PlainRead ==
    ASSUME ReadsInv, NEW f \in {"worktree_tmuxSession", "worktree_issue"}, f \in sel.fields, pc[f] = "todo",
           NEW rows, Finish(f, rows), UNCHANGED <<sel, tables, memo, left, reply>>, MayFail
    PROVE  ReadsInv'
  <1>1. f \in Leaves /\ f \in Joins /\ f \notin IssueFields /\ PlacesInv
    BY TreeField DEF ReadsInv
  <1>2. got' = [got EXCEPT ![f] = got[f] \cup rows] /\ pc' = [pc EXCEPT ![f] = "done"]
    BY <1>1, LeafFinish
  <1>3. PlacesInv' /\ \A g \in Joins : g # f => Same(g)
    BY <1>1, <1>2, LeafStep
  <1> QED
    BY <1>1, <1>3, OthersKeep DEF ReadsInv

LEMMA TreeSessionRead ==
    ASSUME ReadsInv, NEW f \in Selected({"worktree_tmuxSession"}), WorktreeSession(f)
    PROVE  ReadsInv'
  <1>1. f = "worktree_tmuxSession" /\ f \in sel.fields
    BY DEF Selected
  <1>2. PICK ok \in BOOLEAN : Statement(f, ok) /\ Finish(f, SessionForWorktree(Rows(ok, TmuxSessions)))
    BY DEF WorktreeSession
  <1>3. MayFail
    BY <1>1, <1>2, StatementFails DEF ReadsInv
  <1> QED
    BY <1>1, <1>2, <1>3, PlainRead DEF WorktreeSession

LEMMA TreeIssueRead ==
    ASSUME ReadsInv, NEW f \in Selected({"worktree_issue"}), WorktreeIssue(f)
    PROVE  ReadsInv'
  <1>1. f = "worktree_issue" /\ f \in sel.fields
    BY DEF Selected
  <1>2. (\E rows : Finish(f, rows)) /\ MayFail
    <2>1. CASE FromBranch(TreeBranch) = {}
      BY <2>1 DEF WorktreeIssue, MayFail, ReadsInv, PlacesInv
    <2>2. CASE FromBranch(TreeBranch) # {}
      <3>1. PICK n \in FromBranch(TreeBranch), ok \in BOOLEAN : Statement(f, ok) /\ Finish(f, Rows(ok, CachedIssue(n)))
        BY <2>2 DEF WorktreeIssue
      <3> QED
        BY <1>1, <3>1, StatementFails DEF ReadsInv
    <2> QED
      BY <2>1, <2>2
  <1>3. PICK rows : Finish(f, rows)
    BY <1>2
  <1> QED
    BY <1>1, <1>2, <1>3, PlainRead DEF WorktreeIssue

\* A finite set of numbers has a largest, or there is one of least
\* cardinality that has none.
LEMMA MaxIn ==
    ASSUME NEW S \in SUBSET Nat, S # {}, IsFiniteSet(S)
    PROVE  \E m \in S : \A y \in S : m >= y
  <1> DEFINE Bad(T) == T # {} /\ IsFiniteSet(T) /\ \A m \in T : \E y \in T : ~(m >= y)
             Sizes == {Cardinality(T) : T \in {U \in SUBSET Nat : Bad(U)}}
  <1> SUFFICES ASSUME Bad(S) PROVE FALSE
    OBVIOUS
  <1>1. Sizes \in SUBSET Nat /\ Sizes # {}
    <2>1. \A T \in SUBSET Nat : Bad(T) => Cardinality(T) \in Nat
      BY FS_CardinalityType
    <2> QED
      BY <2>1
  <1>2. PICK n \in Sizes : \A k \in Sizes : ~(k < n)
    <2> HIDE DEF Sizes
    <2>1. \E x \in Sizes : \A y \in Sizes : ~(<<y, x>> \in OpToRel(<, Nat))
      BY <1>1, NatLessThanWellFounded, WFMin, Zenon
    <2>2. \A x \in Sizes : x \in Nat
      BY <1>1
    <2> QED
      BY <2>1, <2>2 DEF OpToRel
  <1>3. PICK T \in SUBSET Nat : Bad(T) /\ Cardinality(T) = n
    OBVIOUS
  <1>4. PICK x \in T : TRUE
    BY <1>3
  <1> DEFINE R == T \ {x}
  <1>5. IsFiniteSet(R) /\ Cardinality(R) = n - 1 /\ n \in Nat /\ R \in SUBSET Nat
    BY <1>1, <1>3, <1>4, FS_RemoveElement
  <1>6. ~Bad(R)
    <2> SUFFICES ASSUME Bad(R) PROVE FALSE
      OBVIOUS
    <2>1. Cardinality(R) \in Sizes
      BY <1>5
    <2>2. n - 1 < n /\ Cardinality(R) = n - 1
      BY <1>5
    <2> HIDE DEF Sizes, R
    <2> QED
      BY <1>2, <2>1, <2>2
  <1>7. CASE R = {}
    <2>1. T = {x} /\ x \in Nat
      BY <1>4, <1>7
    <2> QED
      BY <1>3, <2>1
  <1>8. CASE R # {}
    <2>1. PICK m \in R : \A y \in R : m >= y
      BY <1>5, <1>6, <1>8
    <2>2. m \in Nat /\ x \in Nat /\ m \in T /\ \A y \in T : y \in Nat /\ (y = x \/ y \in R)
      BY <1>3, <1>4
    <2>3. CASE m >= x
      BY <1>3, <2>1, <2>2, <2>3
    <2>4. CASE ~(m >= x)
      <3>1. \A y \in T : x >= y
        BY <2>1, <2>2, <2>4
      <3> QED
        BY <1>3, <1>4, <3>1
    <2> QED
      BY <2>3, <2>4
  <1> QED
    BY <1>7, <1>8

\* github.CachedPRs: a pull request that stayed is there as it stayed.
LEMMA PrsRead ==
    ASSUME FactsInv
    PROVE  /\ \A r \in CachedPRs : r.id \in sel.pr /\ \E y \in ever.pr : y.id = r.id /\ y.row.head = r.head
           /\ \A y \in always.pr : \E r \in CachedPRs : r.id = y.id /\ r.head = y.row.head
  <1>1. ASSUME NEW r \in CachedPRs
        PROVE  r.id \in sel.pr /\ \E y \in ever.pr : y.id = r.id /\ y.row.head = r.head
    <2>1. PICK k \in sel.pr : db.pr[k] # Absent /\ r = [id |-> k, head |-> db.pr[k].head, body |-> db.pr[k].body]
      BY <1>1 DEF CachedPRs
    <2> QED
      BY <2>1, PrFacts
  <1>2. ASSUME NEW y \in always.pr
        PROVE  \E r \in CachedPRs : r.id = y.id /\ r.head = y.row.head
    <2>1. [id |-> y.id, head |-> db.pr[y.id].head, body |-> db.pr[y.id].body] \in CachedPRs
      BY <1>2, PrFacts DEF CachedPRs
    <2> QED
      BY <1>2, <2>1, PrFacts
  <1> QED
    BY <1>1, <1>2

LEMMA TreeKept ==
    ASSUME PlacesInv, NEW rows, got' = [got EXCEPT !["worktree_pullRequest"] = rows]
    PROVE  TreeBranch' = TreeBranch
  <1>1. got'["repo_worktrees"] = got["repo_worktrees"]
    BY DEF PlacesInv
  <1> QED
    BY <1>1 DEF TreeBranch

\* PullRequest, the candidate with the branch's number.
LEMMA TreePrRead ==
    ASSUME ReadsInv, NEW f \in Selected({"worktree_pullRequest"}), DirectPullRequest(f)
    PROVE  ReadsInv'
  <1>1. /\ f = "worktree_pullRequest" /\ f \in sel.fields /\ f \in Leaves /\ f \in Joins /\ f \notin IssueFields
        /\ Under(f) = "repo_worktrees"
    BY TreeField DEF Selected
  <1>2. /\ pc[f] = "todo" /\ UNCHANGED <<sel, tables, memo, left, reply>> /\ PlacesInv /\ FactsInv
        /\ got[f] = {}
    BY <1>1 DEF DirectPullRequest, ReadsInv, PlacesInv
  <1>3. \E rows \in SUBSET CachedPRs, at \in {"scan", "done"} :
            /\ got' = [got EXCEPT ![f] = rows] /\ pc' = [pc EXCEPT ![f] = at] /\ MayFail
            /\ \A r \in rows : r.head = TreeBranch
            /\ at = "done" => TreeBranch = NoBranch
    <2>1. CASE TreeBranch = NoBranch
      <3>1. Finish(f, {}) /\ failed' = failed
        BY <2>1 DEF DirectPullRequest
      <3>2. got' = [got EXCEPT ![f] = got[f] \cup {}] /\ pc' = [pc EXCEPT ![f] = "done"]
        BY <1>1, <1>2, <3>1, LeafFinish
      <3>3. got' = [got EXCEPT ![f] = {}] /\ MayFail
        BY <1>2, <3>1, <3>2 DEF MayFail, PlacesInv
      <3> QED
        BY <2>1, <3>2, <3>3
    <2>2. CASE TreeBranch # NoBranch /\ FromBranch(TreeBranch) = {}
      <3>1. Continue(f, {}, "scan") /\ failed' = failed
        BY <2>2 DEF DirectPullRequest
      <3>2. got' = [got EXCEPT ![f] = got[f] \cup {}] /\ pc' = [pc EXCEPT ![f] = "scan"]
        BY <1>1, <1>2, <3>1, Continued
      <3>3. got' = [got EXCEPT ![f] = {}] /\ MayFail
        BY <1>2, <3>1, <3>2 DEF MayFail, PlacesInv
      <3> QED
        BY <3>2, <3>3
    <2>3. CASE TreeBranch # NoBranch /\ FromBranch(TreeBranch) # {}
      <3>1. PICK n \in FromBranch(TreeBranch), ok \in BOOLEAN :
                Statement(f, ok) /\ Continue(f, {r \in Rows(ok, CachedPR(n)) : r.head = TreeBranch}, "scan")
        BY <2>3 DEF DirectPullRequest
      <3> DEFINE rows == {r \in Rows(ok, CachedPR(n)) : r.head = TreeBranch}
      <3>2. got' = [got EXCEPT ![f] = got[f] \cup rows] /\ pc' = [pc EXCEPT ![f] = "scan"]
        BY <1>1, <1>2, <3>1, Continued
      <3>3. \A r \in rows : r \in CachedPRs /\ r.head = TreeBranch
        BY DEF Rows, CachedPR
      <3>4. MayFail
        BY <1>1, <1>2, <3>1, StatementFails
      <3> HIDE DEF rows
      <3>5. got' = [got EXCEPT ![f] = rows]
        BY <1>2, <3>2
      <3> QED
        BY <3>2, <3>3, <3>4, <3>5
    <2> QED
      BY <2>1, <2>2, <2>3
  <1>4. PICK rows \in SUBSET CachedPRs, at \in {"scan", "done"} :
            /\ got' = [got EXCEPT ![f] = rows] /\ pc' = [pc EXCEPT ![f] = at] /\ MayFail
            /\ \A r \in rows : r.head = TreeBranch
            /\ at = "done" => TreeBranch = NoBranch
    BY <1>3
  <1>5. PlacesInv' /\ \A g \in Joins : g # f => Same(g)
    BY <1>1, <1>2, <1>4, LeafStep
  <1>6. FactsInv' /\ MemoInv' /\ PrPanesInv' /\ PrSessionsInv' /\ IssuePanesInv' /\ IssueSessionsInv'
    BY <1>1, <1>2, <1>4, <1>5, OthersKeep
  <1>7. TreePrInv'
    <2>1. got'[f] = rows /\ pc'[f] = at
      BY <1>1, <1>2, <1>4 DEF PlacesInv
    <2>2. ever' = ever /\ sel' = sel /\ TreeBranch' = TreeBranch
      BY <1>1, <1>2, <1>4, TreeKept DEF tables
    <2>3. Over(f)' => TreeBranch' = NoBranch
      BY <1>4, <2>1, <2>2 DEF Over
    <2> QED
      BY <1>1, <1>2, <1>4, <2>1, <2>2, <2>3, PrsRead DEF TreePrInv
  <1> QED
    BY <1>5, <1>6, <1>7 DEF ReadsInv

\* pullRequestForWorktree: the largest of the candidates.
LEMMA TreePrScan ==
    ASSUME ReadsInv, NEW f \in Selected({"worktree_pullRequest"}), ScanPullRequests(f)
    PROVE  ReadsInv'
  <1>1. /\ f = "worktree_pullRequest" /\ f \in sel.fields /\ f \in Leaves /\ f \in Joins /\ f \notin IssueFields
        /\ Under(f) = "repo_worktrees"
    BY TreeField DEF Selected
  <1>2. pc[f] = "scan" /\ UNCHANGED <<sel, tables, memo, left, reply>> /\ PlacesInv /\ FactsInv
    BY DEF ScanPullRequests, ReadsInv
  <1>3. PICK ok \in BOOLEAN :
            /\ Statement(f, ok)
            /\ LET all == got[f] \cup {r \in Rows(ok, CachedPRs) : r.head = TreeBranch}
               IN  /\ got' = [got EXCEPT ![f] = {r \in all : \A q \in all : r.id >= q.id}]
                   /\ pc' = [pc EXCEPT ![f] = "done"]
    BY DEF ScanPullRequests
  <1> DEFINE all == got[f] \cup {r \in Rows(ok, CachedPRs) : r.head = TreeBranch}
             best == {r \in all : \A q \in all : r.id >= q.id}
  <1>4. MayFail /\ (failed' = {} => ok /\ failed = {})
    BY <1>1, <1>2, <1>3, StatementFails
  <1>5. got' = [got EXCEPT ![f] = best] /\ pc' = [pc EXCEPT ![f] = "done"]
    BY <1>3
  <1>6. /\ \A r \in all : r.id \in sel.pr /\ \E y \in ever.pr : y.id = r.id /\ y.row.head = TreeBranch
        /\ ok => \A y \in always.pr : y.row.head = TreeBranch => \E r \in all : r.id = y.id
    <2>1. \A r \in got[f] : r.id \in sel.pr /\ \E y \in ever.pr : y.id = r.id /\ y.row.head = TreeBranch
      BY <1>1 DEF ReadsInv, TreePrInv
    <2>2. \A r \in all : r \in got[f] \/ (r \in CachedPRs /\ r.head = TreeBranch)
      BY DEF Rows
    <2>3. ok => \A r \in CachedPRs : r.head = TreeBranch => r \in all
      BY DEF Rows
    <2> QED
      BY <1>2, <2>1, <2>2, <2>3, PrsRead
  <1> HIDE DEF all
  <1>7. \A q \in all : \E r \in best : r.id >= q.id
    <2> SUFFICES ASSUME NEW q \in all PROVE \E r \in best : r.id >= q.id
      OBVIOUS
    <2> DEFINE A == {r.id : r \in all}
    <2>1. IsFiniteSet(sel.pr) /\ sel.pr \subseteq Nat
      BY <1>2, GraphAssumption DEF PlacesInv
    <2>2. A \subseteq sel.pr
      BY <1>6
    <2>3. A \in SUBSET Nat /\ A # {} /\ IsFiniteSet(A)
      BY <2>1, <2>2, FS_Subset
    <2>4. PICK m \in A : \A y \in A : m >= y
      BY <2>3, MaxIn
    <2>5. PICK r \in all : r.id = m
      OBVIOUS
    <2> QED
      BY <2>4, <2>5
  <1> HIDE DEF best
  <1>8. PlacesInv' /\ \A g \in Joins : g # f => Same(g)
    BY <1>1, <1>2, <1>4, <1>5, LeafStep
  <1>9. FactsInv' /\ MemoInv' /\ PrPanesInv' /\ PrSessionsInv' /\ IssuePanesInv' /\ IssueSessionsInv'
    BY <1>1, <1>2, <1>4, <1>8, OthersKeep
  <1>10. TreePrInv'
    <2>1. got'[f] = best /\ best \subseteq all
      BY <1>1, <1>2, <1>5 DEF PlacesInv, best
    <2>2. ever' = ever /\ always' = always /\ sel' = sel /\ TreeBranch' = TreeBranch
      BY <1>1, <1>2, <1>5, TreeKept DEF tables
    <2>3. failed' = {} => \A y \in always.pr : y.row.head = TreeBranch => \E r \in best : r.id >= y.id
      BY <1>4, <1>6, <1>7
    <2> QED
      BY <1>1, <1>6, <2>1, <2>2, <2>3 DEF TreePrInv
  <1> QED
    BY <1>8, <1>9, <1>10 DEF ReadsInv

----------------------------------------------------------------------------
(* Every step. *)

\* Steps of the tables' writers, and of the response.
LEMMA FieldsStay ==
    ASSUME ReadsInv, PlacesInv', FactsInv', Grow, UNCHANGED <<sel, pc, got, memo, left, failed>>
    PROVE  ReadsInv'
  <1>1. \A g : Same(g)
    BY DEF Same
  <1>2. failed \subseteq failed' /\ left \subseteq memo'.set
    BY DEF ReadsInv, IssuePanesInv
  <1>3. MemoInv'
    BY <1>1, <1>2, KeepsMemo DEF ReadsInv
  <1>4. IssuePanesInv' /\ IssueSessionsInv'
    BY <1>1, <1>2, KeepsIssuePanes, KeepsIssueSessions DEF ReadsInv
  <1>5. PrPanesInv' /\ PrSessionsInv' /\ TreePrInv'
    BY <1>1, <1>2, KeepsPrPanes, KeepsPrSessions, KeepsTreePr DEF ReadsInv
  <1> QED
    BY <1>3, <1>4, <1>5 DEF ReadsInv

LEMMA Written ==
    ASSUME ReadsInv, NEW d, Write(d)
    PROVE  ReadsInv'
  <1>1. UNCHANGED <<sel, pc, got, memo, left, failed, reply>>
    BY DEF Write
  <1>2. FactsInv' /\ Grow
    BY WriteFacts DEF ReadsInv
  <1>3. PlacesInv'
    BY <1>1, PlacesStay DEF ReadsInv, PlacesInv, MayFail
  <1> QED
    BY <1>1, <1>2, <1>3, FieldsStay

LEMMA Responded ==
    ASSUME ReadsInv, Respond
    PROVE  ReadsInv'
  <1>1. UNCHANGED <<sel, tables, pc, got, memo, left, failed>> /\ \A f \in sel.fields : pc[f] = "done"
    BY DEF Respond
  <1>2. FactsInv' /\ Grow
    BY <1>1, TablesStay DEF ReadsInv
  <1>3. PlacesInv'
    BY <1>1 DEF ReadsInv, PlacesInv, Joins, Under
  <1> QED
    BY <1>1, <1>2, <1>3, FieldsStay

LEMMA ReadsInit == QueryInit => ReadsInv
  <1> SUFFICES ASSUME QueryInit PROVE ReadsInv
    OBVIOUS
  <1>1. PlacesInv
    <2>1. sel \in Selections /\ failed = {} /\ reply.data = "none" /\ got = [f \in sel.fields |-> {}]
      BY DEF QueryInit
    <2>2. pc = [f \in sel.fields |-> IF f \in RootFields THEN "todo" ELSE "wait"]
      BY DEF QueryInit
    <2>3. \A j \in Joins : j \in sel.fields /\ Under(j) \in sel.fields /\ j \notin RootFields
      BY <2>1, GraphAssumption, JoinNames, RootNames DEF Joins, Under
    <2> QED
      BY <2>1, <2>2, <2>3 DEF PlacesInv, Places
  <1>2. FactsInv
    <2>1. Facts(db) = [t \in Kinds |-> Facts(db)[t]]
      BY DEF Facts, Kinds
    <2>2. ever = Facts(db) /\ always = Facts(db)
      BY DEF QueryInit
    <2> QED
      BY <2>1, <2>2 DEF FactsInv
  <1>3. \A f \in sel.fields : got[f] = {} /\ pc[f] \in {"todo", "wait"}
    BY DEF QueryInit
  <1>4. memo = [once |-> "new", set |-> {}] /\ left = {}
    BY DEF QueryInit
  <1>5. \A f \in sel.fields : ~Over(f)
    BY <1>3 DEF Over
  <1>6. MemoInv
    BY <1>3, <1>4 DEF MemoInv, IssueFields
  <1>7. IssuePanesInv /\ IssueSessionsInv /\ PrPanesInv /\ PrSessionsInv /\ TreePrInv
    BY <1>3, <1>4, <1>5 DEF IssuePanesInv, IssueSessionsInv, PrPanesInv, PrSessionsInv, TreePrInv
  <1> QED
    BY <1>1, <1>2, <1>6, <1>7 DEF ReadsInv

LEMMA ReadsNext == ReadsInv /\ [QueryNext]_queryVars => ReadsInv'
  <1> SUFFICES ASSUME ReadsInv, [QueryNext]_queryVars PROVE ReadsInv'
    OBVIOUS
  <1>1. CASE \/ \E s \in sel.tmux : WriteSession(s)
             \/ \E c \in sel.claude : WriteClaude(c)
             \/ \E c \in sel.claude : PruneClaude(c)
             \/ \E k \in sel.pr : WritePullRequest(k)
    <2>1. PICK d : Write(d)
      BY <1>1 DEF WriteSession, WriteClaude, PruneClaude, WritePullRequest
    <2> QED
      BY <2>1, Written
  <1>2. ASSUME NEW f \in Selected(RootFields), ResolveRoot(f) PROVE ReadsInv'
    BY <1>2, RootReads
  <1>3. ASSUME NEW f \in Selected({"repo_worktrees"}), ResolveWorktrees(f) PROVE ReadsInv'
    BY <1>3, WorktreesRead
  <1>4. ASSUME NEW f \in Selected(DOMAIN IssueJoins), EnterOnce(f) \/ ComputeBranches(f) PROVE ReadsInv'
    <2>1. f \in IssueFields
      BY DEF Selected, IssueFields, IssueJoins
    <2> QED
      BY <1>4, <2>1, EnterReads, ComputeReads
  <1>5. ASSUME NEW f \in Selected({"issue_tmuxPanes"}), IssuePanes(f) PROVE ReadsInv'
    BY <1>5, IssuePanesRead
  <1>6. ASSUME NEW f \in Selected({"issue_claudeSessions"}), IssueSessions(f) \/ ScanIssueSessions(f) PROVE ReadsInv'
    BY <1>6, IssueSessionsRead, IssueSessionsScan
  <1>7. ASSUME NEW f \in Selected({"pr_tmuxPanes"}), PullRequestPanes(f) PROVE ReadsInv'
    BY <1>7, PrPanesRead
  <1>8. ASSUME NEW f \in Selected({"pr_claudeSessions"}), PullRequestSessions(f) \/ ScanPullRequestSessions(f)
        PROVE  ReadsInv'
    BY <1>8, PrSessionsRead, PrSessionsScan
  <1>9. ASSUME NEW f \in Selected({"worktree_tmuxSession"}), WorktreeSession(f) PROVE ReadsInv'
    BY <1>9, TreeSessionRead
  <1>10. ASSUME NEW f \in Selected({"worktree_issue"}), WorktreeIssue(f) PROVE ReadsInv'
    BY <1>10, TreeIssueRead
  <1>11. ASSUME NEW f \in Selected({"worktree_pullRequest"}), DirectPullRequest(f) \/ ScanPullRequests(f)
         PROVE  ReadsInv'
    BY <1>11, TreePrRead, TreePrScan
  <1>12. CASE Respond
    BY <1>12, Responded
  <1>13. CASE UNCHANGED queryVars
    <2>1. UNCHANGED <<sel, tables, pc, got, memo, left, failed, reply>>
      BY <1>13 DEF queryVars
    <2>2. PlacesInv'
      BY <2>1, PlacesStay DEF ReadsInv, PlacesInv, MayFail
    <2>3. FactsInv' /\ Grow
      BY <2>1, TablesStay DEF ReadsInv
    <2> QED
      BY <2>1, <2>2, <2>3, FieldsStay
  <1> QED
    BY <1>1, <1>2, <1>3, <1>4, <1>5, <1>6, <1>7, <1>8, <1>9, <1>10, <1>11, <1>12, <1>13 DEF QueryNext, Finished

LEMMA ReadsAlways == QuerySpec => []ReadsInv
  BY ReadsInit, ReadsNext, PTL DEF QuerySpec

----------------------------------------------------------------------------
(* What the answer says. *)

\* When the response is there every join of an object that is there is over.
LEMMA AnsweredOver ==
    ASSUME ReadsInv, Answered
    PROVE  /\ left = {}
           /\ \A f \in Joins : got[Under(f)] # {} => Over(f)
           /\ \A f \in Joins : got[Under(f)] = {} => Ids(f) = {}
           /\ \A f \in IssueFields : got["issue"] # {} => memo.once = "done"
  <1>1. \A f \in sel.fields : pc[f] = "done"
    BY DEF Answered, ReadsInv, PlacesInv
  <1>2. left = {}
    BY <1>1 DEF ReadsInv, IssuePanesInv
  <1>3. \A f \in Joins : got[Under(f)] # {} => Over(f)
    BY <1>1 DEF Over, Joins
  <1>4. \A f \in Joins : got[Under(f)] = {} => Ids(f) = {}
    BY DEF ReadsInv, PlacesInv, Ids
  <1>5. \A f \in IssueFields : got["issue"] # {} => memo.once = "done"
    BY <1>1, IssueField DEF ReadsInv, MemoInv
  <1> QED
    BY <1>2, <1>3, <1>4, <1>5

LEMMA ReadsLinked == ReadsInv => JoinsAreLinked
  <1> SUFFICES ASSUME ReadsInv, Answered, NEW f \in Selected(DOMAIN IssueJoins \cup DOMAIN PullRequestJoins),
                      Rooted(f)
               PROVE  /\ failed = {} => Joined(always, f) \subseteq Ids(f)
                      /\ Ids(f) \subseteq Joined(ever, f)
    BY DEF JoinsAreLinked
  <1>1. f \in sel.fields /\ f \in {"issue_tmuxPanes", "issue_claudeSessions", "pr_tmuxPanes", "pr_claudeSessions"}
    BY DEF Selected, IssueJoins, PullRequestJoins
  <1>2. f \in Joins /\ Over(f) /\ left = {}
    BY <1>1, AnsweredOver, SelectedJoins DEF Rooted, Under
  <1>3. f \in IssueFields /\ failed = {} => LinkedBy(always) \subseteq memo.set
    <2>1. f \in IssueFields => memo.once = "done"
      BY <1>2, AnsweredOver, IssueField DEF Over
    <2> QED
      BY <2>1, LinkedSplit DEF ReadsInv, MemoInv
  <1>4. CASE f = "issue_tmuxPanes"
    <2>1. \A facts : Joined(facts, f) = {x.id : x \in {y \in facts.tmux : y.row.branch \in LinkedBy(facts)}}
      BY <1>4 DEF Joined, PanesOn
    <2>2. /\ \A r \in got[f] : \E y \in ever.tmux : y.id = r.id /\ y.row.branch \in LinkedBy(ever)
          /\ failed = {} => \A p \in always.tmux : p.row.branch \in memo.set => p.id \in Ids(f)
      BY <1>1, <1>2, <1>4 DEF ReadsInv, IssuePanesInv
    <2>3. f \in IssueFields
      BY <1>1, <1>4 DEF IssueFields
    <2>4. failed = {} => \A p \in always.tmux : p.row.branch \in LinkedBy(always) => p.id \in Ids(f)
      BY <1>3, <2>2, <2>3
    <2> QED
      BY <2>1, <2>2, <2>4 DEF Ids
  <1>5. CASE f = "issue_claudeSessions"
    <2>1. \A facts : Joined(facts, f) = {x.id : x \in {y \in facts.claude : y.row.branch \in LinkedBy(facts)
                                                                             \/ y.row.issue = N}}
      BY <1>5 DEF Joined, SessionsOn
    <2>2. \A r \in got[f] : \E y \in ever.claude :
                 y.id = r.id /\ (y.row.branch \in LinkedBy(ever) \/ y.row.issue = N)
      BY <1>1, <1>5 DEF ReadsInv, IssueSessionsInv
    <2>3. failed = {} => \A c \in always.claude :
                 c.row.issue = N \/ (c.row.branch # NoBranch /\ c.row.branch \in memo.set) => c.id \in Ids(f)
      BY <1>1, <1>2, <1>5 DEF ReadsInv, IssueSessionsInv
    <2>4. f \in IssueFields
      BY <1>1, <1>5 DEF IssueFields
    <2>5. failed = {} => \A c \in always.claude :
                 c.row.issue = N \/ c.row.branch \in LinkedBy(always) => c.id \in Ids(f)
      BY <1>3, <2>3, <2>4, Unlinked
    <2> QED
      BY <2>1, <2>2, <2>5, Unlinked DEF Ids
  <1>6. CASE f = "pr_tmuxPanes"
    <2>1. \A facts : Joined(facts, f) = {x.id : x \in {y \in facts.tmux : y.row.branch \in {HeadRef}}}
      BY <1>6 DEF Joined, PanesOn
    <2>2. /\ \A r \in got[f] : \E y \in ever.tmux : y.id = r.id /\ y.row.branch = HeadRef
          /\ failed = {} => \A p \in always.tmux : p.row.branch = HeadRef => p.id \in Ids(f)
      BY <1>1, <1>2, <1>6 DEF ReadsInv, PrPanesInv
    <2> QED
      BY <2>1, <2>2 DEF Ids
  <1>7. CASE f = "pr_claudeSessions"
    <2>1. \A facts : Joined(facts, f) = {x.id : x \in {y \in facts.claude : y.row.branch \in {HeadRef} \/ Keyed(y)}}
      BY <1>7 DEF Joined, SessionsOn, Keyed
    <2>2. /\ \A r \in got[f] : \E y \in ever.claude : y.id = r.id /\ (y.row.branch = HeadRef \/ Keyed(y))
          /\ failed = {} => \A c \in always.claude : c.row.branch = HeadRef \/ Keyed(c) => c.id \in Ids(f)
      BY <1>1, <1>2, <1>7 DEF ReadsInv, PrSessionsInv
    <2> QED
      BY <2>1, <2>2 DEF Ids
  <1> QED
    BY <1>1, <1>4, <1>5, <1>6, <1>7

LEMMA ReadsAgree == ReadsInv => SiblingsAgree
  <1> DEFINE P == "issue_tmuxPanes"
             C == "issue_claudeSessions"
  <1> SUFFICES ASSUME ReadsInv, Clean, DOMAIN IssueJoins \subseteq sel.fields,
                      NEW p \in always.tmux, NEW c \in always.claude,
                      p.row.branch = c.row.branch, p.row.branch # NoBranch, c.row.issue # N
               PROVE  p.id \in Ids(P) <=> c.id \in Ids(C)
    BY DEF SiblingsAgree
  <1>1. P \in sel.fields /\ C \in sel.fields
    BY DEF IssueJoins
  <1>2. P \in Joins /\ C \in Joins /\ Under(P) = "issue" /\ Under(C) = "issue"
    BY <1>1, IssueField DEF IssueFields
  <1>3. Answered /\ failed = {}
    BY DEF Clean
  <1>4. CASE got["issue"] = {}
    BY <1>2, <1>3, <1>4, AnsweredOver
  <1>5. CASE got["issue"] # {}
    <2>1. Over(P) /\ Over(C) /\ left = {}
      BY <1>2, <1>3, <1>5, AnsweredOver
    <2>2. p.id \in Ids(P) <=> p.row.branch \in memo.set
      BY <1>1, <1>3, <2>1 DEF ReadsInv, IssuePanesInv
    <2>3. c.id \in Ids(C) <=> c.row.branch \in memo.set
      BY <1>1, <1>3, <2>1 DEF ReadsInv, IssueSessionsInv
    <2> QED
      BY <2>2, <2>3
  <1> QED
    BY <1>4, <1>5

LEMMA ReadsNewest == ReadsInv => NewestPullRequest
  <1> SUFFICES ASSUME ReadsInv, Clean, NEW f \in Selected({"worktree_pullRequest"}), Rooted(f),
                      TreeBranch # NoBranch
               PROVE  /\ Ids(f) \subseteq Joined(ever, f)
                      /\ \A k \in Joined(always, f) : \E j \in Ids(f) : j >= k
    BY DEF NewestPullRequest
  <1>1. f = "worktree_pullRequest" /\ f \in sel.fields /\ f \in Joins
    BY SelectedJoins DEF Selected
  <1>2. Over(f) /\ failed = {}
    BY <1>1, AnsweredOver DEF Rooted, Clean, Under
  <1>3. \A facts : Joined(facts, f) = {x.id : x \in {y \in facts.pr : y.row.head = TreeBranch}}
    BY <1>1 DEF Joined
  <1>4. /\ \A r \in got[f] : \E y \in ever.pr : y.id = r.id /\ y.row.head = TreeBranch
        /\ \A y \in always.pr : y.row.head = TreeBranch => \E r \in got[f] : r.id >= y.id
    BY <1>1, <1>2 DEF ReadsInv, TreePrInv
  <1> QED
    BY <1>3, <1>4 DEF Ids

\* The joins of an issue and of a pull request, as JoinsAreLinked states them:
\* every link that lasts as long as the query is in the answer, unless a read
\* failed, and nothing is in it that was never linked.
THEOREM JoinsLinked == QuerySpec => []JoinsAreLinked
  BY ReadsAlways, ReadsLinked, PTL

\* SiblingsAgree: the two joins of an issue go by the same branches, whatever
\* is written between their reads.
THEOREM SiblingsAlike == QuerySpec => []SiblingsAgree
  BY ReadsAlways, ReadsAgree, PTL

\* NewestPullRequest: a worktree shows no older pull request than one that
\* was on its branch throughout.
THEOREM NewestShown == QuerySpec => []NewestPullRequest
  BY ReadsAlways, ReadsNewest, PTL

----------------------------------------------------------------------------
(* Nulls. *)

\* What the mappings leave null is nullable.
LEMMA NullsOptional ==
    ASSUME NEW root, NEW r, NEW bare \in BOOLEAN, "staleSince" \notin root.of.req
    PROVE  NullsOf(root, r, bare) \cap root.of.req = {}
  <1>1. claudeSessionModel(r, bare) \cap ClaudeSession.req = {}
    BY DEF claudeSessionModel, ClaudeSession, Object, If
  <1>2. If(MarshalObject(ClaudeSession, claudeSessionModel(r, bare)) = "Null", {"session"}) = {}
    BY <1>1 DEF MarshalObject, If
  <1>3. tmuxSessionModel(r, bare) \cap TmuxSession.req = {}
    BY DEF tmuxSessionModel, TmuxSession, Object, If
  <1>4. panesToModel(bare) \cap TmuxPane.req = {}
    BY DEF panesToModel, TmuxPane, Object, If
  <1>5. slotsModel(bare) \cap Slot.req = {}
    BY DEF slotsModel, Slot, Object, If
  <1>6. mapIssue(bare) \cap Issue.req = {}
    <2>1. MarshalList({MarshalObject(Assignee, {})}) # "Null"
      BY DEF MarshalList, MarshalObject
    <2> QED
      BY <2>1 DEF mapIssue, Issue, Object, If
  <1>7. mapPR(bare) \cap PullRequest.req = {}
    BY DEF mapPR, PullRequest, Object, If
  <1>8. peerModel(bare) \cap Peer.req = {}
    BY DEF peerModel, Peer, Object, If
  <1>9. worktreeNode(r, bare) \cap Worktree.req = {}
    BY DEF worktreeNode, Worktree, Object, If
  <1>10. If(bare, {"lastEventAt"}) \cap Health.req = {}
    BY DEF Health, Object, If
  <1>11. If(bare, {"staleSince"}) \cap root.of.req = {}
    BY DEF If
  <1>12. \A T : List(T).of = T /\ Node(T).of = T
    BY DEF List, Node
  <1> QED
    BY <1>1, <1>2, <1>3, <1>4, <1>5, <1>6, <1>7, <1>8, <1>9, <1>10, <1>11, <1>12 DEF NullsOf

LEMMA NotNull ==
    ASSUME NEW root, NEW rows, NEW joins, NEW bare \in BOOLEAN, root.shape \in {"list", "scalar"},
           "staleSince" \notin root.of.req, joins \cap root.of.req = {}
    PROVE  ValueOf(root, rows, joins, bare) # "Null"
  <1>1. \A r : MarshalObject(root.of, NullsOf(root, r, bare) \cup joins) = "Value"
    <2> SUFFICES ASSUME NEW r PROVE MarshalObject(root.of, NullsOf(root, r, bare) \cup joins) = "Value"
      OBVIOUS
    <2>1. NullsOf(root, r, bare) \cap root.of.req = {}
      BY NullsOptional
    <2> QED
      BY <2>1 DEF MarshalObject
  <1>2. MarshalList({MarshalObject(root.of, NullsOf(root, r, bare) \cup joins) : r \in rows}) = "Value"
    BY <1>1 DEF MarshalList
  <1> QED
    BY <1>2 DEF ValueOf

\* The roots a null of which would blank the response are lists and scalars.
LEMMA RequiredRows ==
    \A f \in RequiredRoots : QueryRoot(f).shape \in {"list", "scalar"} /\ "staleSince" \notin QueryRoot(f).of.req
  <1> DEFINE Fine(root) == root.shape \in {"list", "scalar"} /\ "staleSince" \notin root.of.req
  <1> SUFFICES ASSUME NEW f \in RequiredRoots PROVE Fine(QueryRoot(f))
    OBVIOUS
  <1>1. /\ Fine(List(Health)) /\ Fine(Scalar) /\ Fine(List(ClaudeSession)) /\ Fine(List(ClaudeInstance))
        /\ Fine(List(Repo)) /\ Fine(List(Issue)) /\ Fine(List(PullRequest)) /\ Fine(List(Peer))
        /\ Fine(List(TmuxSession)) /\ Fine(List(TmuxPane)) /\ Fine(List(Slot))
    BY DEF List, Scalar, Object, Health, ClaudeSession, ClaudeInstance, Repo, Issue, PullRequest, Peer,
           TmuxSession, TmuxPane, Slot
  <1> HIDE DEF Fine
  <1>2. f \notin {"claudeSession", "issue", "pullRequest"}
    BY DEF RequiredRoots, RequiredCoreAndClaude, RequiredGitAndGithub, RequiredPeerAndTmux
  <1>3. f \in RootFields
    BY RootNames DEF RequiredRoots, RequiredCoreAndClaude, RequiredGitAndGithub, RequiredPeerAndTmux
  <1>4. PICK i \in DOMAIN Tables : f \in DOMAIN Tables[i] /\ QueryRoot(f) = Tables[i][f]
    BY <1>3 DEF RootFields, QueryRoot
  <1>5. \A g \in DOMAIN CoreRoots : Fine(CoreRoots[g])
    BY <1>1 DEF CoreRoots
  <1>6. \A g \in DOMAIN ClaudeRoots : g # "claudeSession" => Fine(ClaudeRoots[g])
    BY <1>1 DEF ClaudeRoots
  <1>7. \A g \in DOMAIN GitRoots : Fine(GitRoots[g])
    BY <1>1 DEF GitRoots
  <1>8. \A g \in DOMAIN GithubNodeRoots : g \in {"issue", "pullRequest"}
    BY DEF GithubNodeRoots
  <1>9. \A g \in DOMAIN GithubListRoots : Fine(GithubListRoots[g])
    BY <1>1 DEF GithubListRoots
  <1>10. \A g \in DOMAIN PeerRoots : Fine(PeerRoots[g])
    BY <1>1 DEF PeerRoots
  <1>11. \A g \in DOMAIN TemplateRoots : Fine(TemplateRoots[g])
    BY <1>1 DEF TemplateRoots
  <1>12. \A g \in DOMAIN TmuxRowRoots : Fine(TmuxRowRoots[g])
    BY <1>1 DEF TmuxRowRoots
  <1>13. \A g \in DOMAIN TmuxPickRoots : Fine(TmuxPickRoots[g])
    BY <1>1 DEF TmuxPickRoots
  <1>14. Tables[i] \in {CoreRoots, ClaudeRoots, GitRoots, GithubNodeRoots, GithubListRoots, PeerRoots,
                        TemplateRoots, TmuxRowRoots, TmuxPickRoots}
    BY DEF Tables
  <1> QED
    BY <1>2, <1>4, <1>5, <1>6, <1>7, <1>8, <1>9, <1>10, <1>11, <1>12, <1>13, <1>14

\* The one object below a required root that has joins is the repo, and its
\* worktrees' own joins are nullable.
LEMMA NoNullJoins ==
    ASSUME NEW f \in RequiredRoots, NEW bare \in BOOLEAN
    PROVE  NullJoins(f, bare) = {}
  <1>1. \A j \in Children(f) : j \in JoinFields /\ Under(j) = f
    BY DEF Children, Under
  <1>2. \A j \in Children(f) : j = "repo_worktrees"
    BY <1>1, JoinNames, Parents DEF RequiredRoots, RequiredCoreAndClaude, RequiredGitAndGithub, RequiredPeerAndTmux
  <1> DEFINE w == "repo_worktrees"
  <1>3. JoinField(w).root = List(Worktree)
    BY JoinRows DEF RepoJoins, Join
  <1>4. NullJoins2(w, bare) \subseteq {"tmuxSession", "issue", "pullRequest"}
    <2>1. \A j \in Children(w) : j \in JoinFields /\ Under(j) = w
      BY DEF Children, Under
    <2>2. \A j \in Children(w) : j \in {"worktree_tmuxSession", "worktree_issue", "worktree_pullRequest"}
      BY <2>1, JoinNames, Parents
    <2>3. /\ JoinField("worktree_tmuxSession").field = "tmuxSession"
          /\ JoinField("worktree_issue").field = "issue"
          /\ JoinField("worktree_pullRequest").field = "pullRequest"
      BY JoinRows DEF WorktreeJoins, Join
    <2> QED
      BY <2>2, <2>3 DEF NullJoins2
  <1>5. /\ List(Worktree).shape = "list" /\ List(Worktree).of = Worktree
        /\ "staleSince" \notin Worktree.req /\ {"tmuxSession", "issue", "pullRequest"} \cap Worktree.req = {}
    BY DEF List, Worktree, Object
  <1>6. ValueOf(JoinField(w).root, got[w], NullJoins2(w, bare), bare) # "Null"
    <2>1. NullJoins2(w, bare) \cap Worktree.req = {}
      BY <1>4, <1>5
    <2> QED
      BY <1>3, <1>5, <2>1, NotNull
  <1> QED
    BY <1>2, <1>6 DEF NullJoins

LEMMA ReportingRoots == Reporting \subseteq RequiredRoots \cap RootFields
  BY RootNames DEF Reporting, TmuxRowRoots, TmuxPickRoots, PeerRoots, RequiredRoots, RequiredPeerAndTmux

LEMMA BlankResponse ==
    ASSUME Respond
    PROVE  BlankOnlyOnFailure'
  <1>1. PICK bare \in BOOLEAN :
            reply' = [data |-> MarshalQuery([f \in sel.fields \cap RootFields |-> RootValue(f, bare)]),
                      errors |-> failed \cap Reporting]
    BY DEF Respond
  <1>2. UNCHANGED <<sel, failed>>
    BY DEF Respond
  <1>3. \A f \in RequiredRoots : RootValue(f, bare) = "Null" <=> f \in failed \cap Reporting
    <2> SUFFICES ASSUME NEW f \in RequiredRoots, f \notin failed \cap Reporting PROVE RootValue(f, bare) # "Null"
      BY DEF RootValue
    <2>1. ValueOf(QueryRoot(f), got[f], NullJoins(f, bare), bare) # "Null"
      BY RequiredRows, NoNullJoins, NotNull
    <2> QED
      BY <2>1 DEF RootValue
  <1>4. reply'.data = "Null" <=> \E f \in sel.fields \cap RootFields : f \in RequiredRoots /\ f \in failed \cap Reporting
    BY <1>1, <1>3 DEF MarshalQuery
  <1>5. reply'.errors = failed \cap Reporting
    BY <1>1
  <1> QED
    BY <1>2, <1>4, <1>5, ReportingRoots DEF BlankOnlyOnFailure

\* A response is not taken back, and no read comes after it.
LEMMA ResponseStays ==
    ASSUME ReadsInv, [QueryNext]_queryVars, Answered
    PROVE  UNCHANGED <<sel, failed, reply>>
  <1>1. reply.data # "none" /\ \A f \in sel.fields : pc[f] = "done"
    BY DEF Answered, ReadsInv, PlacesInv
  <1>2. \A d : ~Write(d)
    BY <1>1 DEF Write
  <1>3. ~ \/ \E s \in sel.tmux : WriteSession(s)
          \/ \E c \in sel.claude : WriteClaude(c)
          \/ \E c \in sel.claude : PruneClaude(c)
          \/ \E k \in sel.pr : WritePullRequest(k)
    BY <1>2 DEF WriteSession, WriteClaude, PruneClaude, WritePullRequest
  <1>4. \A F : \A f \in Selected(F) : f \in sel.fields
    BY DEF Selected
  <1>5. \A f \in sel.fields : ~(ResolveRoot(f) \/ ResolveWorktrees(f) \/ EnterOnce(f) \/ ComputeBranches(f))
    BY <1>1 DEF ResolveRoot, ResolveWorktrees, EnterOnce, ComputeBranches
  <1>6. \A f \in sel.fields : ~(IssuePanes(f) \/ IssueSessions(f) \/ ScanIssueSessions(f))
    BY <1>1 DEF IssuePanes, IssueSessions, ScanIssueSessions
  <1>7. \A f \in sel.fields : ~(PullRequestPanes(f) \/ PullRequestSessions(f) \/ ScanPullRequestSessions(f))
    BY <1>1 DEF PullRequestPanes, PullRequestSessions, ScanPullRequestSessions
  <1>8. \A f \in sel.fields : ~(WorktreeSession(f) \/ WorktreeIssue(f) \/ DirectPullRequest(f) \/ ScanPullRequests(f))
    BY <1>1 DEF WorktreeSession, WorktreeIssue, DirectPullRequest, ScanPullRequests
  <1>9. ~Respond
    BY <1>1 DEF Respond
  <1>10. UNCHANGED queryVars
    BY <1>3, <1>4, <1>5, <1>6, <1>7, <1>8, <1>9 DEF QueryNext, Finished
  <1> QED
    BY <1>10 DEF queryVars

LEMMA BlankNext == ReadsInv /\ BlankOnlyOnFailure /\ [QueryNext]_queryVars => BlankOnlyOnFailure'
  <1> SUFFICES ASSUME ReadsInv, BlankOnlyOnFailure, [QueryNext]_queryVars PROVE BlankOnlyOnFailure'
    OBVIOUS
  <1>1. CASE Answered
    BY <1>1, ResponseStays DEF BlankOnlyOnFailure, Answered
  <1>2. CASE Respond
    BY <1>2, BlankResponse
  <1>3. CASE ~Answered /\ ~Respond
    <2>1. reply' = reply
      BY <1>3 DEF QueryNext, queryVars, WriteSession, WriteClaude, PruneClaude, WritePullRequest, Write,
             ResolveRoot, ResolveWorktrees, EnterOnce, ComputeBranches, IssuePanes, IssueSessions,
             ScanIssueSessions, PullRequestPanes, PullRequestSessions, ScanPullRequestSessions,
             WorktreeSession, WorktreeIssue, DirectPullRequest, ScanPullRequests, Finished
    <2> QED
      BY <1>3, <2>1 DEF BlankOnlyOnFailure, Answered
  <1> QED
    BY <1>1, <1>2, <1>3

\* BlankOnlyOnFailure: through the whole schema, no empty column and no failed
\* join reaches a required root; the data is null exactly when a tmux or peer
\* root's read failed, and then the response has errors.
THEOREM BlankSaysWhy == QuerySpec => []BlankOnlyOnFailure
  <1>1. QueryInit => BlankOnlyOnFailure
    BY DEF QueryInit, BlankOnlyOnFailure, Answered
  <1> QED
    BY <1>1, ReadsAlways, BlankNext, PTL DEF QuerySpec

----------------------------------------------------------------------------
(* TmuxPanes: watch, and the tables of the panes and sessions joined above. *)

Announcing == {"mark", "marksess", "tell"}

\* watch announces only while its up flag is set, and the flag is cleared
\* together with the announcement: what DownSaidOnce needs to be inductive.
WatchInv ==
    /\ wpc \in Announcing => wup
    /\ quiet => ~wup

\* The two tables and reconcile's locals: a row is one of a known pane, and
\* a list in memory holds what the server may run.
TablesTypeOK ==
    /\ world \in View
    /\ pane \in [Panes -> Row \cup {None}]
    /\ sess \in [Sessions -> {"none", "live", "stale"}]
    /\ lsess \subseteq Sessions /\ lpane \in View /\ prev \in View
    /\ told \in View
    /\ rpc = "sess" => todo \subseteq Sessions
    /\ rpc = "upsert" => todo \subseteq {p \in Panes : lpane[p] # None}
    /\ rpc = "gone" => todo \subseteq {p \in Panes : lpane[p] = None}
    /\ rpc \notin {"sess", "upsert", "gone"} => todo = {}
    /\ say \subseteq Panes

----------------------------------------------------------------------------

LEMMA ReconcileLeavesWatch ==
    ASSUME ReconcileStep \/ ServerChanges \/ Notified
    PROVE  UNCHANGED <<wpc, wup, quiet>>
  BY DEF ReconcileStep, StartPoll, ListSessions, ListPanes, ListFails, PollMarksPanes,
         PollMarksSessions, ReadPrev, UpsertSession, SessionsStored, UpsertPane, PanesStored,
         ClosePane, TellPane, PollDone, PollFails, ServerChanges, Notified, watchVars

LEMMA WatchNext == WatchInv /\ [Next]_vars => WatchInv'
  <1> SUFFICES ASSUME WatchInv, [Next]_vars PROVE WatchInv'
    OBVIOUS
  <1>1. CASE UNCHANGED <<wpc, wup, quiet>>
    BY <1>1 DEF WatchInv
  <1>2. CASE WatchStep
    <2>1. CASE Probe
      BY <2>1 DEF Probe, WatchInv, Announcing
    <2>2. CASE Attach
      BY <2>2 DEF Attach, WatchInv, Announcing
    <2>3. CASE Lost
      BY <2>3 DEF Lost, WatchInv, Announcing
    <2>4. CASE DownMarksPanes \/ DownMarksSessions
      BY <2>4 DEF DownMarksPanes, DownMarksSessions, WatchInv, Announcing
    <2>5. CASE TellDown
      BY <2>5 DEF TellDown, WatchInv, Announcing
    <2>6. CASE Sleep
      BY <2>6 DEF Sleep, WatchInv, Announcing
    <2> QED
      BY <1>2, <2>1, <2>2, <2>3, <2>4, <2>5, <2>6 DEF WatchStep
  <1>3. CASE HoldEnds \/ AttachFallsOut
    BY <1>3 DEF HoldEnds, AttachFallsOut, WatchInv, Announcing
  <1>4. CASE Restart
    BY <1>4 DEF Restart, WatchInv, Announcing
  <1>5. CASE UNCHANGED vars
    BY <1>1, <1>5 DEF vars, watchVars
  <1> QED
    BY <1>1, <1>2, <1>3, <1>4, <1>5, ReconcileLeavesWatch DEF Next

\* watch: server.down is not emitted again before a session was held,
\* however often probes and attaches fail in between and whatever reconcile
\* does meanwhile.
THEOREM DownOnce == Spec => []DownSaidOnce
  <1>1. Init => WatchInv
    BY DEF Init, WatchInv, Announcing
  <1>2. WatchInv /\ [Next]_vars => WatchInv'
    BY WatchNext
  <1>3. WatchInv => DownSaidOnce
    BY DEF WatchInv, DownSaidOnce, Announcing
  <1> QED
    BY <1>1, <1>2, <1>3, PTL DEF Spec

----------------------------------------------------------------------------
(* The tables. *)

LEMMA StaleKeepsRows ==
    ASSUME pane \in [Panes -> Row \cup {None}]
    PROVE  StaleRows \in [Panes -> Row \cup {None}]
  <1>1. ASSUME NEW p \in Panes, pane[p] # None PROVE [pane[p] EXCEPT !.stale = TRUE] \in Row
    <2>1. pane[p] \in Row
      BY <1>1
    <2> QED
      BY <2>1 DEF Row
  <1> QED
    BY <1>1 DEF StaleRows

LEMMA TablesReconcile ==
    ASSUME TablesTypeOK, ReconcileStep
    PROVE  TablesTypeOK'
  <1>0. Nowhere \in View
    BY DEF Nowhere, View
  <1>1. CASE StartPoll
    BY <1>1 DEF StartPoll, TablesTypeOK, srvVars, tabVars
  <1>2. CASE ListSessions
    <2>1. {SessionOf[p] : p \in {q \in Panes : world[q] # None}} \subseteq Sessions
      BY DEF Sessions
    <2> QED
      BY <1>2, <2>1 DEF ListSessions, TablesTypeOK, srvVars, tabVars
  <1>3. CASE ListPanes
    BY <1>3 DEF ListPanes, TablesTypeOK, srvVars, tabVars
  <1>4. CASE ListFails
    BY <1>0, <1>4 DEF ListFails, Forget, TablesTypeOK, srvVars, tabVars
  <1>5. CASE PollMarksPanes
    BY <1>5, StaleKeepsRows DEF PollMarksPanes, TablesTypeOK, srvVars
  <1>6. CASE PollMarksSessions
    BY <1>6 DEF PollMarksSessions, StaleSessions, TablesTypeOK, srvVars
  <1>7. CASE ReadPrev
    <2>1. prev' \in View
      <3>1. ASSUME NEW p \in Panes, pane[p] # None PROVE pane[p].cmd \in Cmds
        <4>1. pane[p] \in Row
          BY <3>1 DEF TablesTypeOK
        <4> QED
          BY <4>1 DEF Row
      <3> QED
        BY <1>7, <3>1 DEF ReadPrev, View
    <2> QED
      BY <1>7, <2>1 DEF ReadPrev, TablesTypeOK, srvVars, tabVars
  <1>8. CASE \E s \in Sessions : UpsertSession(s)
    BY <1>8 DEF UpsertSession, TablesTypeOK, srvVars
  <1>9. CASE SessionsStored
    BY <1>9 DEF SessionsStored, TablesTypeOK, srvVars, tabVars
  <1>10. CASE \E p \in Panes : UpsertPane(p)
    <2>1. PICK p \in Panes : UpsertPane(p)
      BY <1>10
    <2>2. lpane[p] \in Cmds
      BY <2>1 DEF UpsertPane, TablesTypeOK, View
    <2>3. [cmd |-> lpane[p], stale |-> FALSE] \in Row
      BY <2>2 DEF Row
    <2> QED
      BY <2>1, <2>3 DEF UpsertPane, TablesTypeOK, srvVars
  <1>11. CASE PanesStored
    BY <1>0, <1>11 DEF PanesStored, TablesTypeOK, srvVars, tabVars
  <1>12. CASE \E p \in Panes : ClosePane(p)
    <2>1. PICK p \in Panes : ClosePane(p)
      BY <1>12
    <2>2. (IF pane[p] = None THEN None ELSE [pane[p] EXCEPT !.stale = TRUE]) \in Row \cup {None}
      <3>1. CASE pane[p] = None
        BY <3>1
      <3>2. CASE pane[p] # None
        <4>1. pane[p] \in Row
          BY <3>2 DEF TablesTypeOK
        <4> QED
          BY <4>1 DEF Row
      <3> QED
        BY <3>1, <3>2
    <2> QED
      BY <2>1, <2>2 DEF ClosePane, TablesTypeOK, srvVars
  <1>13. CASE \E p \in Panes : TellPane(p)
    <2>1. PICK p \in Panes : TellPane(p)
      BY <1>13
    <2>2. told' \in View
      BY <2>1 DEF TellPane, TablesTypeOK, View
    <2> QED
      BY <2>1, <2>2 DEF TellPane, TablesTypeOK, srvVars, tabVars
  <1>14. CASE PollDone
    BY <1>0, <1>14 DEF PollDone, Forget, TablesTypeOK, srvVars, tabVars
  <1>15. CASE PollFails
    BY <1>0, <1>15 DEF PollFails, Forget, TablesTypeOK, srvVars, tabVars
  <1> QED
    BY <1>1, <1>2, <1>3, <1>4, <1>5, <1>6, <1>7, <1>8, <1>9, <1>10, <1>11, <1>12, <1>13, <1>14,
       <1>15 DEF ReconcileStep

LEMMA TablesNext == TablesTypeOK /\ [Next]_vars => TablesTypeOK'
  <1> SUFFICES ASSUME TablesTypeOK, [Next]_vars PROVE TablesTypeOK'
    OBVIOUS
  <1>0. Nowhere \in View
    BY DEF Nowhere, View
  <1>1. CASE UNCHANGED <<srvVars, tabVars, recVars, told>>
    BY <1>1 DEF TablesTypeOK, srvVars, tabVars, recVars
  <1>2. CASE ServerChanges
    BY <1>2, TmuxAssumption DEF ServerChanges, TablesTypeOK, tabVars, recVars
  <1>3. CASE WatchStep
    <2>1. CASE Probe \/ Attach \/ Lost \/ Sleep
      BY <1>1, <2>1 DEF Probe, Attach, Lost, Sleep
    <2>2. CASE DownMarksPanes
      BY <2>2, StaleKeepsRows DEF DownMarksPanes, TablesTypeOK, srvVars, recVars
    <2>3. CASE DownMarksSessions
      BY <2>3 DEF DownMarksSessions, StaleSessions, TablesTypeOK, srvVars, recVars
    <2>4. CASE TellDown
      BY <1>0, <2>4 DEF TellDown, TablesTypeOK, srvVars, tabVars, recVars
    <2> QED
      BY <1>3, <2>1, <2>2, <2>3, <2>4 DEF WatchStep
  <1>4. CASE Notified \/ HoldEnds \/ AttachFallsOut
    BY <1>1, <1>4 DEF Notified, HoldEnds, AttachFallsOut
  <1>5. CASE Restart
    BY <1>0, <1>5 DEF Restart, Forget, TablesTypeOK, srvVars, tabVars
  <1>6. CASE UNCHANGED vars
    BY <1>1, <1>6 DEF vars
  <1> QED
    BY <1>2, <1>3, <1>4, <1>5, <1>6, TablesReconcile DEF Next

\* reconcile and markAllStale, interleaved: the panes about to be upserted
\* are all listed ones and the panes about to be closed all vanished ones,
\* so every row written and every event emitted shows what a pane ran.
THEOREM TablesTyped == Spec => []TablesTypeOK
  <1>1. Init => TablesTypeOK
    BY TmuxAssumption DEF Init, TablesTypeOK, Nowhere, View
  <1>2. TablesTypeOK /\ [Next]_vars => TablesTypeOK'
    BY TablesNext
  <1> QED
    BY <1>1, <1>2, PTL DEF Spec
=============================================================================
