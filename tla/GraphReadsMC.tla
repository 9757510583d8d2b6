---------------------------- MODULE GraphReadsMC ----------------------------
(* Instances of GraphReads for TLC: an issue with its joins, a pull request *)
(* with its joins, a repo with a worktree, and every root beside tmuxPanes. *)
EXTENDS GraphReads

Issue7  == <<"issue", 7, "">>
Issue0  == <<"issue", 0, "">>
Fix7    == <<"fix/issue", 7, "">>
ThreeBranches == {Issue7, Fix7, NoBranch}
FourBranches  == {Issue7, Issue0, Fix7, NoBranch}

Ref(verb, local) == [verb |-> verb, local |-> local, n |-> 7]
ThreeBodies == {{}, {Ref(TRUE, TRUE)}, {Ref(FALSE, TRUE)}}

Query(fields, tmux, claude, pr, branches, tree, here) ==
    [fields |-> fields, tmux |-> tmux, claude |-> claude, pr |-> pr, branches |-> branches,
     tree |-> tree, here |-> here]

Queries ==
    {Query({"issue"} \cup DOMAIN IssueJoins, {1}, {1}, {9}, ThreeBranches, {Issue7}, {TRUE}),
     Query({"pullRequest"} \cup DOMAIN PullRequestJoins, {1}, {1}, {9}, FourBranches, {Issue7}, {TRUE}),
     Query({"repos", "repo_worktrees"} \cup DOMAIN WorktreeJoins, {}, {}, {7, 9}, ThreeBranches, FourBranches, {TRUE}),
     Query({"repos", "repo_worktrees", "worktree_tmuxSession"}, {1, 2}, {}, {}, ThreeBranches, {Issue7}, BOOLEAN)}
    \cup {Query({f, "tmuxPanes"}, {1}, {1}, {}, ThreeBranches, {Issue7}, {TRUE}) : f \in RootFields}
=============================================================================
