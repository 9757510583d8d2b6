----------------------------- MODULE GithubKeys -----------------------------
(***************************************************************************)
(* The github cache key grammar (plugins/github/keys.go). A string is a    *)
(* sequence of atoms: separators (":", "/", "#", "@") and the pieces       *)
(* between them, a name being a sequence too, so that prefixes, cuts and   *)
(* searches do what they do on the bytes. A map from strings to strings is *)
(* a function, absent entries left out of its domain.                      *)
(***************************************************************************)
EXTENDS Integers, Sequences, SequencesExt, FiniteSetsExt

Spec1(keyfmt, rest, events, obj, field) ==
    [keyfmt |-> keyfmt, rest |-> rest, events |-> events, obj |-> obj, field |-> field]

repoPath == <<"/repos/", "{owner}", "/", "{repo}">>

kindSpecs ==
    [issue    |-> Spec1(<<"issue", ":", "{owner}", "/", "{repo}", "#", "{disc}">>,
                        repoPath \o <<"/", "issues", "/", "{disc}">>,
                        {"issues", "issue_comment"}, "issue", "number"),
     pr       |-> Spec1(<<"pr", ":", "{owner}", "/", "{repo}", "#", "{disc}">>,
                        repoPath \o <<"/", "pulls", "/", "{disc}">>,
                        {"pull_request", "pull_request_review", "pull_request_review_comment"},
                        "pull_request", "number"),
     checkRun |-> Spec1(<<"checkRun", ":", "{owner}", "/", "{repo}", "/", "{disc}">>,
                        repoPath \o <<"/", "check-runs", "/", "{disc}">>, {"check_run"}, "check_run", "id"),
     review   |-> Spec1(<<"review", ":", "{owner}", "/", "{repo}", "#", "{disc}", "/", "{subid}">>,
                        repoPath \o <<"/", "pulls", "/", "{disc}", "/", "reviews", "/", "{subid}">>, {}, "", ""),
     comment  |-> Spec1(<<"comment", ":", "{owner}", "/", "{repo}", "#", "{disc}", "/", "{subid}">>,
                        repoPath \o <<"/", "issues", "/", "comments", "/", "{subid}">>, {}, "", ""),
     label    |-> Spec1(<<"label", ":", "{owner}", "/", "{repo}", "/", "{disc}">>,
                        repoPath \o <<"/", "labels", "/", "{disc}">>, {"label"}, "label", "name"),
     release  |-> Spec1(<<"release", ":", "{owner}", "/", "{repo}", "/", "{disc}">>,
                        repoPath \o <<"/", "releases", "/", "tags", "/", "{disc}">>, {"release"}, "release", "tag_name"),
     commit   |-> Spec1(<<"commit", ":", "{owner}", "/", "{repo}", "/", "{disc}">>,
                        repoPath \o <<"/", "commits", "/", "{disc}">>, {}, "", ""),
     ref      |-> Spec1(<<"ref", ":", "{owner}", "/", "{repo}", "/", "{sub}">>,
                        repoPath \o <<"/", "git", "/", "refs", "/", "{sub}">>, {}, "", ""),
     repo     |-> Spec1(<<"repo", ":", "{owner}", "/", "{repo}">>, repoPath, {}, "", ""),
     user     |-> Spec1(<<"user", ":", "{login}">>, <<"/users/", "{login}">>, {}, "", "")]

\* specByEvent: the kinds an event name maps to, at most one.
kindsOfEvent(event) == {k \in DOMAIN kindSpecs : event \in kindSpecs[k].events}

----------------------------------------------------------------------------
(* Parsing. *)

\* The first place of one of the atoms in s, 0 for none, and the last of one.
IndexAny(s, atoms) == LET at == {i \in DOMAIN s : s[i] \in atoms} IN IF at = {} THEN 0 ELSE Min(at)
LastIndex(s, atom) == LET at == {i \in DOMAIN s : s[i] = atom} IN IF at = {} THEN 0 ELSE Max(at)

Before(s, i) == SubSeq(s, 1, i - 1)
After(s, i) == SubSeq(s, i + 1, Len(s))

\* The kind token; kinds are single atoms.
kindOf(key) == LET i == IndexAny(key, {":"}) IN IF i = 0 THEN <<>> ELSE Before(key, i)

stripHost(key) == LET i == LastIndex(key, "@") IN IF i = 0 THEN key ELSE Before(key, i)

\* parseKey: owner up to the first "/", repo up to the next "#" or "/", and
\* then the discriminator up to a further "/".
parseKey(key) ==
    LET body == stripHost(key)
        rest == IF IndexAny(body, {":"}) = 0 THEN body ELSE After(body, IndexAny(body, {":"}))
        cut  == IndexAny(rest, {"/"})
        owner == IF cut = 0 THEN rest ELSE Before(rest, cut)
        tail == IF cut = 0 THEN <<>> ELSE After(rest, cut)
        at   == IndexAny(tail, {"#", "/"})
        rem  == After(tail, at)
        sub  == IndexAny(rem, {"/"})
        disc == IF sub = 0 THEN rem ELSE Before(rem, sub)
    IN  IF kindOf(key) = <<"user">> THEN [login |-> rest]
        ELSE IF at = 0 THEN [owner |-> owner, repo |-> tail]
        ELSE IF tail[at] = "/" THEN [owner |-> owner, repo |-> Before(tail, at), disc |-> disc, sub |-> rem]
        ELSE IF sub = 0 THEN [owner |-> owner, repo |-> Before(tail, at), disc |-> disc]
        ELSE [owner |-> owner, repo |-> Before(tail, at), disc |-> disc, subid |-> After(rem, sub)]

\* The placeholder of each part.
placeholder ==
    [owner |-> "{owner}", repo |-> "{repo}", disc |-> "{disc}", subid |-> "{subid}", sub |-> "{sub}", login |-> "{login}"]

\* fill: the placeholders of the parts there are replaced, others stay.
fill(template, parts) ==
    FlattenSeq([i \in DOMAIN template |->
        LET of == {p \in DOMAIN parts : placeholder[p] = template[i]}
        IN  IF of = {} THEN <<template[i]>> ELSE parts[CHOOSE p \in of : TRUE]])

\* url.PathEscape: the separators lose their meaning.
PathEscape(s) == [i \in DOMAIN s |-> IF s[i] = "/" THEN "%2F" ELSE IF s[i] = "#" THEN "%23" ELSE s[i]]

restPath(key) ==
    LET p == parseKey(key)
        escaped == [f \in DOMAIN p |-> IF f \in {"disc", "subid"} THEN PathEscape(p[f]) ELSE p[f]]
    IN  fill(kindSpecs[kindOf(key)[1]].rest, escaped)

Part(p, f) == IF f \in DOMAIN p THEN p[f] ELSE <<>>

\* "repo:<owner>/<repo>", or nothing without a repo scope.
scopePrefix(key) ==
    LET p == parseKey(key)
    IN  IF Part(p, "owner") = <<>> \/ Part(p, "repo") = <<>> THEN <<>>
        ELSE <<"repo", ":">> \o p.owner \o <<"/">> \o p.repo

\* The tag of a list result: its scope and the kind it lists.
composite(key) == IF scopePrefix(key) = <<>> THEN <<>> ELSE scopePrefix(key) \o <<"|">> \o kindOf(key)

\* The owner and repo grammar: no separators, and no dot-dot.
safeName(s) == \A i \in DOMAIN s : s[i] \notin {":", "/", "#", "@", "..", "%", "?"}

safeKey(key) == LET p == parseKey(key) IN safeName(Part(p, "owner")) /\ safeName(Part(p, "repo"))

\* A string, and one without the separators that end a part of a key.
IsText(s) == s \in Seq({s[i] : i \in DOMAIN s})
PlainText(s) == IsText(s) /\ \A i \in DOMAIN s : s[i] \notin {"/", "#", "@"}

----------------------------------------------------------------------------
(* Webhook payloads: [event, owner, repo, disc, isPR, prs], empty sequences *)
(* for what the payload does not carry.                                     *)

NoKey == <<>>

\* eventKey: the object an event touches. A comment on a pull request is an
\* issue_comment too, and touches the pull request.
eventKey(p) ==
    IF \/ kindsOfEvent(p.event) = {} \/ p.owner = <<>> \/ p.repo = <<>> \/ p.disc = <<>>
       \/ ~safeName(p.owner) \/ ~safeName(p.repo)
    THEN NoKey
    ELSE LET kind == IF p.event = "issue_comment" /\ p.isPR THEN "pr" ELSE CHOOSE k \in kindsOfEvent(p.event) : TRUE
         IN  fill(kindSpecs[kind].keyfmt, [owner |-> p.owner, repo |-> p.repo, disc |-> p.disc])

\* relatedKeys: the pull requests a check run ran against.
relatedKeys(p) ==
    IF p.event # "check_run" \/ p.owner = <<>> \/ p.repo = <<>> \/ ~safeName(p.owner) \/ ~safeName(p.repo) THEN {}
    ELSE {fill(kindSpecs["pr"].keyfmt, [owner |-> p.owner, repo |-> p.repo, disc |-> d]) : d \in p.prs \ {<<>>}}

\* nodesByKind: the keys its LIKE pattern matches.
nodesByKind(keys, kind, owner, repo) ==
    {k \in keys : IsPrefix(<<kind, ":">> \o owner \o <<"/">> \o repo \o <<"#">>, k)}
=============================================================================
