# A verification project for supergraph

supergraph is one daemon per box. Plugins (github, claude, tmux, git, peer) each
watch a data source, keep a read model in a SQLite file of their own and emit
envelopes; the core stores the envelopes, tracks each plugin's health and fans the
events out to GraphQL subscriptions. Boxes mirror each other through the peer
plugin. This directory holds TLA+ models of that code, the TLC configurations that
check them on small instances, and TLAPS proofs about the core, the plugins and the
commands.

`tlc -workers 2 -config X.cfg M` runs one check (`PROJECT.json` lists run, module,
configuration and properties); `tlapm XProofs.tla` checks the proofs of one of the
eight `*Proofs` modules.
`PROJECT.json` also maps every definition to the lines it models.

## 1. Inventory

| Part | State | Operations | What is hard | What makes it correct |
|---|---|---|---|---|
| Supervisor, `serve` (`core/supervisor.go`, `cmd/supergraph/serve.go`) | open stores, Start goroutines, emit closures | boot, emit, recover, Stop, join | emits of many goroutines, panics, shutdown against a plugin that does not return | a dead plugin is shown dead; emits return; the process exits |
| Event store (`core/store.go`) | ring of newest events per plugin | append and prune, crash, reopen | commits race, crash between steps | the ring is the newest rows; nothing is shown before it is durable |
| Bus, event subscriptions (`core/bus.go`, `server/server.go`) | bounded channel per subscriber | subscribe, publish, pump, cancel | slow clients, cancel against publish | at most once, in order, own source only; never blocks an emit |
| Health, pluginLag (`core/health.go`, `server/server.go`) | last event time, forced states | Record, Mark*, Snapshot, push | silence produces no event to wake anybody | no false green; silence is pushed |
| github cache (`proxy`, `executor`, `store`, `reconcile`) | node rows with ETag, lists, tags, flights | point read, list, purge, since pull, revalidate | unlocked read-fetch-write by five kinds of goroutine | a 304 never confirms an old body; one fetch a key; rows heal |
| github ingest (`webhook`, `ingest`, `reconcile`) | delivery ids, redelivery cursor, hook id | webhook, sweep, forward child, `ensureHook` | lost, repeated and late deliveries, restarts | an acknowledged delivery purged its objects; the cursor passes no listed delivery unattended; one hook |
| github keys (`keys`, `query`) | none | parse, fill, REST path, scope, event keys | one grammar used by purge, refetch, resolvers and filters | all of them mean the same object by a key |
| GraphQL resolvers (`graph/`) | none but `issueMemo`, for one query | roots and joins over the plugins' tables | concurrent fields, tables written meanwhile, swallowed errors, nulls that spread | joins are what the rows say; siblings agree; an empty column blanks nothing |
| peer (`liveness`, `mirror`, `executor`, `client`) | peer_state row, mirrored rows | dial, subscribe, drop, refresh, purge | loop and request handlers write one row | no peer of a peer; a box that is down reads stale |
| claude (`hook`, `tail`, `store`, `statefile`) | session row, dedup rows, byte cursor | fold by hook, fold by transcript, state file, sweep, prune | two channels carry the same transition, stamped alike or not, partial and oversized lines, restarts | folded once per stamp, every record taken, dead sessions stale |
| tmux (`snapshot`, `control`, `store`) | session and pane rows | poll, control-mode watch, serverDown | poll and watcher write one table | rows follow the server; one server.down per outage |
| git (`reconcile`, `store`) | repo and worktree rows, in-memory hash gate | list, upsert, mark stale, emit | failures and crashes in the middle of a round | one root's failure touches nothing else; table and events converge |
| `supergraph subscribe` | retry loop, one connection | arguments, dial, handshake, read, back off | the stream ends anywhere; filters by prefix and suffix | status and output agree; lines are what was asked for |
| `claude-hook`, `query`, `schema`, `status`, `install-claude-hook`; configuration; bearer check | config file, settings file | read config, post, probe; read, merge, rename | server and files change under a command, two installers, kills | statuses tell of the server; the settings survive |
| Service units, test and template plugins | none | fixed calls, fixtures | - | not modelled |

Interactions: plugins call the core's `emit`; the core calls `Migrate`, `Start` and
`Cursor` of plugins; `lagStream` reads health whenever the bus or a ticker wakes it;
a peer's liveness loop is a client of a remote `lagStream`; `supergraph subscribe`
is a client of an EventsChannel pump behind a resolver's filter; resolvers read the
plugins' tables and never fetch; the commands meet the server in its HTTP routes only. Inside a plugin the goroutines share SQLite
tables, one autocommitted statement at a time, and seldom anything else: that is
where most of the hazards in `PROJECT.json` are.

## 2. Modules

| Module | Models | Composes |
|---|---|---|
| `Hub` | supervisor, emit path, ring, health, bus, pumps, shutdown | |
| `DurableTail` | abstract: what a reader of the event stream is promised | refined by `Hub` (`ImplementsDurableTail`) |
| `PluginLag` | `lagStream` | extends `Hub` |
| `GithubCache` | the github read-through cache | |
| `GithubKeys` | the key grammar, as operators | |
| `GithubIngest` | webhook receiver, redelivery sweep, forward supervisor, hook creation | extends `GithubKeys` |
| `PeerMirror` | the peer plugin for one remote | |
| `ClaudeSessions` | the claude plugin for one session | |
| `TmuxPanes` | the tmux plugin | |
| `GitWorktrees` | the git plugin | |
| `GraphSchema` | the executable schema as tables; how nulls spread | |
| `GraphReads` | one query: roots, joins, memo, response, beside writing plugins | extends `GraphSchema` |
| `SubscribeCli` | `supergraph subscribe`, its connection, the subscription filters | extends `GraphSchema`, `GithubKeys` |
| `HostCommands` | the short-lived commands, config, bearer check, settings file | |
| `Cli` | the dispatch | extends `SubscribeCli`, `HostCommands` |
| `HubProofs`, `GithubCacheProofs`, `GithubIngestProofs`, `PeerMirrorProofs`, `ClaudeSessionsProofs`, `GitWorktreesProofs`, `GraphReadsProofs`, `CliProofs` | theorems (section 4) | each extends the module it is named after, `HubProofs` through `PluginLag`; `GraphReadsProofs` extends `TmuxPanes` too |

The `*MC` modules hold the constants of the instances. Conventions: one action is
one step another goroutine can observe, that is one SQL statement, one request, one
channel operation; statements are never grouped, because the code opens no
transactions around them. Handlers of several steps carry a program counter. Time
is a tick counter, a body is its version, a key is a model value, except in
`GithubKeys`, where a string is a sequence of separators and the pieces between them,
so that prefixes and cuts act as they do on the bytes. Operators that
precede the definition they resemble and that no action uses are deliberately
wrong variants: `PROJECT.json` names, for every property, one that breaks it.
Variables marked "history" are read by properties only.

How state and actions correspond to code:

* **Hub.** `booting`/`phase` is `Supervisor.Run`'s loop and each Start goroutine;
  `EmitStep` is `emitFor` cut at its three calls (append, `Record`, `publish`);
  `ring` and `log` are the events table and everything ever committed to it;
  `chan`, `hold`, `received` are the bus channel, the value a pump holds between its
  two selects, and what the client got; `serve`, `run`, `joined` are the shutdown
  sequence of `serve.go`. `Crash` ends the process anywhere, `Reboot` starts it on
  the surviving stores.
* **GithubCache.** A worker (a reader's flight or the reconcile pass) goes through
  REST request, canonical GraphQL read and upsert; `ListStep` is `runOp` for lists;
  `HookStep` is the purge of a webhook; `PassStep` is `reconcile.go`.
* **GithubIngest.** `HookStep` is `handleWebhook`, `SweepStep` is `redeliver`,
  `ForwardStep` the supervisor of `gh webhook forward`; `EnsureHook`, `CreateHook` and
  `PutHook` are `ensureHook`. The sweep lists `PageSize` deliveries, the newest
  (GitHub's default is 30): `redeliver` asks for one page. What a delivery touches is computed from its payload by
  `eventKey` and `relatedKeys`. GitHub is external.
* **PeerMirror.** `LinkStep` is `runLiveness`/`subscribeLag`, `CallStep` is
  `handleOp`/`mirror`, the mark of a live peer (`Seen`) and the purge (`Mirrored`) one
  statement each. Times are cut down to what is read of them: whether `stale_since` is set,
  and the age of a row against the TTL. How long a backoff lasts is left out here and
  in `TmuxPanes`; a sleep may end at any time.
* **ClaudeSessions.** `HookStep` is `handleHook`; `ScanStep` is one tick of
  `runTail`: transcript lines, state file, sweep, prune. Sessions share no row, so
  one is enough. A transition has a sighting for each channel that carries it, and
  `Key` is the (event, ts) pair a sighting is deduplicated by: an empty ts is replaced
  by the time of arrival, so such a sighting has a key of its own. `Oversized` records
  are passed over.
* **TmuxPanes.** `ReconcileStep` is `reconcile`, `WatchStep` is `watch` with
  `attachOnce` and `serverDown`; `told` is what a consumer of the events believes.
  `eventSource = "control"`, the default, is assumed. `Views` are the server states
  of a run: which panes there are and what each runs.
* **GitWorktrees.** `Reconcile` is `reconcile` statement by statement; `Faults` says
  which calls may fail in a run and `struck` which did. Roots are distinct repositories.
* **GraphSchema.** A type is its required, nullable and joined fields, from the
  `_Type` functions of `generated.go`; a root or join is a type and a shape; only
  whether a value is null is kept of it.
* **GraphReads.** `sel` is the query, `db` the rows the joins read, one action one
  SQL statement of one field. `Write` actions are the plugins' upserts and deletes
  in between. `ever` and `always` record which rows were there at some time and all
  the time: what a consistent answer can be measured against without transactions.
  `FromBranch` is a set of one or no number, since "issue0" does encode one; the column of
  a session without an issue holds 0 too (`IssueFromBranch`).
* **SubscribeCli.** `phase` is where `runSubscribe`/`subscribeOnce` stand; `ask` is the
  command line, `--max-retries` included (0 is the default of 3, below zero makes no
  attempt and exits 2); `Relays` is the filter of the resolver that serves it. The
  context is never cancelled: `main` executes the command without one.
* **HostCommands.** `config` is the file, `srv` what the running server loaded of it;
  `proc[p]` is a command and where it stands: after reading the config, before the
  rename, and so on. A request of it is answered, refused, or lost (`Request`: the 2 s
  timeout, a broken connection, an answer that does not decode).

## 3. Runs

Every passing run explores its whole state space (7 thousand to 5 million states). Bounds are constants named `Max*`.

| Run | Instance | Shows |
|---|---|---|
| `hub_delivery` | 2 plugins with 2 emitting goroutines each, 1 tail on the second, ring 1, buffer 1, 2 events, clock to 1, 2 boots | nothing is visible before it is durable; the ring is the newest rows; a failed or dead plugin reads stale; a tail keeps each goroutine's order; `Hub` implements `DurableTail`, restarts included |
| `hub_live` | `Hub` with `PluginLag`: 1 plugin, 1 watcher that may stop reading, 2 events, clock to 2 | emits return, shutdown completes, and a plugin that falls silent is pushed to a watcher that reads |
| `github_fetch` | an issue and a check run, reader, lister, pass, webhook, 1 failure | an ETag answered 304 belongs to a current body |
| `github_flight` | 2 readers of one expiring issue whose last version is pinned, lost webhooks, pass, 1 failure | one fetch per key; every reader returns; rows reach the current version once upstream rests |
| `ingest_sweep` | a check run and a comment on a pull request, a page of 1, 2 handlers, 2 hooks, 2 boots, 1 failure | the cursor passes nothing unattended that was within its page; an acknowledged delivery purged every object, unless a request of it failed; one hook per failure beside the first |
| `peer_mesh` | 2 callers, own, foreign and echoed row, TTL 1, clock to 2, 2 changes of the box or link, 1 failed statement | no peer of a peer; stale events only after a live link; a box that is down ends up stale |
| `claude_fold` | 3 tool calls: one stamped alike on both channels, one hooked without a stamp, one in an oversized record; 2 records, state file, retention 1, clock to 2, 1 failure or restart | folded once per key; every record taken; dead sessions stale; old ones pruned |
| `tmux_watch` | 2 panes of one session, 2 commands, server up or down at the start, 2 server changes, 1 failure or restart | server.down not repeated; no live row of a dead server; table and events converge |
| `git_rows` | 2 worktrees, 2 roots, 2 heads, one of them ahead of its upstream, 2 changes, 1 failure of any kind or crash | staled only by its own root's list; table and events converge |
| `graph_query` | an issue, a pull request or a repo with a worktree and their joins, 1 to 2 rows a table, 3 branches (and issue0 for a pull request and a worktree), 3 bodies; every root beside `tmuxPanes`; one write and one failed read in between | joins are linked, siblings agree, the newest pull request, nothing but a tmux or peer root blanks the response |
| `cli_run` | subscribe: 10 command lines, 6 events of alike repos, owners and hosts, up to 4 attempts; and any 2 of 5 commands, lost requests, 4 configs, 5 settings files, 2 changes | status, lines, an ended stream is left; statuses tell of the server; settings survive |
| `github_list_revert` | the smallest instance | a disagreement of section 5 |

Two of everything that can race, one more event than the smallest buffer or ring
holds, two boots or a restart where something persists, and a failure placed anywhere:
every hazard listed needs no more actors than that, and the mutants confirm that
the bounds are large enough for each property to be broken.

### Fairness

Weak fairness only, and only of steps that Go's scheduler, a ticker or a timer
guarantees: goroutines that are runnable run, tickers fire, requests with a timeout
return. Not assumed: that clients read (`SilenceIsPushed` has it as a premise, for the
watcher it is about), that `Start` returns, that a signal, a change upstream, a
webhook or a notification comes, that a healthy remote pushes a frame.
`DownReadsStale` assumes that TCP breaks the read of a box that is gone. Failures are
bounded by a constant, so "eventually" means after the last one. `SubscribeCli` assumes
that the client runs and nothing about the server: a wait for the ack or for a frame may last for
ever, and `EndedStreamLeft` is about a stream whose ending has arrived. A query and
the other commands have safety properties only; `graph_query` checks deadlock, so no
field waits for a memo that nobody computes.

### Conditions to keep in mind

* `FoldedOncePerKey` speaks of the time before the retention has passed: a prune
  removes dedup rows, and a late duplicate can then be counted again. It promises
  one fold for sightings with the same stamp only; the two sightings of a tool call whose
  hook has none are two folds (section 5).
* `EveryRecordTaken` promises a fold only where no statement failed and no process died:
  a claim whose upsert does not follow blocks every later one. Two tool calls of one record share a
  key, so "folded" is said of the key.
* `ClaudeSessions` has pid liveness on, its default.
* `PanesConverge` says "again and again", not "from now on": a watcher that falls
  out of a short attach marks everything stale until the next poll.
* `PanesAreTold` is about a server that is there from the start and never goes away,
  calls that do not fail, and a watcher that never falls out of a short attach (it
  would emit `tmux.server.down` while panes live);
  section 5 says what happens otherwise.
* `CursorTrailsAttempts` speaks of a repo with one hook: the cursor is one for all
  hooks, and with a second one the older deliveries of the first are passed over. It
  excepts deliveries that a full page of newer ones kept off the listing (section 5).
* `PurgedUnlessFailed` excepts deliveries with a failed request (section 5).
* `JoinsAreLinked` takes the pull request's head as it was read, the empty one too,
  and `SiblingsAgree` leaves out sessions keyed to the issue by number (section 5).
  Linked by number means by the column, so the head issue0 is linked to every session
  without an issue: that is what the code does, against its comment (section 5).
* `EndTellsServer` promises `status` a server on loopback only: neither it nor
  `query` sends a token. A lost request is excepted: then `status` says "not running" of
  a server that runs, and the hook is gone. `SettingsSurvive` excepts a save behind an
  installer's back, and the settings of the model have `hooks` that are an object of arrays (section 5).
* `NotModifiedIsCurrent` takes the version a REST ETag stands for as the version of the
  GraphQL body beside it. That is so for issues, the kind of the instance; `queries/pr.graphql:7-8`
  selects fields of a pull request that its REST ETag does not cover.
* `NeverUpIsSilent` says when no event may be emitted, not that one must: an outage that
  a 401 in the executor marked first is not announced (`plugins/peer/liveness.go:40`). `OldIsPruned` does not say what else a
  prune may take with it (section 5).
* `LiveIsTold` excludes failed emits, and `GoneIsUntold` also crashes and failed
  marks: each of those really breaks it.

## 4. Proofs

TLC shows a property on the instance of a run; the theorems below show it for every
value of the constants: any number of plugins, readers, keys, handlers, deliveries,
panes, roots or commands, and any bound on failures, restarts and changes. The
inductive invariants were checked as invariants of the runs before they were proved.
Each module rests on named assumptions about its constants, which the run of its component
evaluates: sizes are naturals, "none" values are not values, tables of constants have
the domains the code gives them.

**`HubProofs`** (`HubAssumption`: the sizes are naturals, the ring at least 1).

* `TypeCorrect`: `TypeOK`, action by action; the part with content is that
  `publish` never lets a channel exceed its buffer.
* `DeadStaysStale`: `DeadReadsStale`, from `DeadIsForced` (a dead or failed
  plugin is forced stale). The property itself is not inductive: it speaks of
  the snapshot, which also depends on times that every `Record` changes.
* `ExitJoins`: `CleanExitJoins`, from `JoinOrder`: the boot loop is over before the
  supervisor waits, and it is done only when no Start goroutine is left. This one is
  proved only; no run repeats it.
* `RingKeepsNewest`: `RingIsNewest`. It rests on `NewestAppend` (pruning the kept
  rows after an append equals pruning the whole history) and `OnlyAppendWrites`.
* `DurableFirst`: `NothingBeforeDurable`, from `Durability`, which extends the claim to
  what an emitter is about to record or publish, to channels and to pumps.
* `TailInOrder`: `TailKeepsEmitOrder`, from `EmitOrder`: the order is asserted of every
  channel, of a channel together with the value its pump holds, and of both together
  with what the client has; an emit under way is newer than all of them.
* `CoreIsDurableTail`: `ImplementsDurableTail`. Initial states map to initial states; only
  `AppendEvent` changes what is committed and it commits something new, only a pump's send
  changes what is received and by `Durability` and `EmitOrder` that is committed, of
  the client's source and not received yet; every other step is a stutter.
* `LagLeavesHub`: all of the safety above for `LagSpec`, the core with any number of
  `pluginLag` streams. A stream touches the core in one place, where it takes an envelope off
  its own bus channel (`LagSteps`), and the conjunction `HubInv` of the core's inductive
  invariants survives that step. `LagIsDurableTail`: the composition refines `DurableTail` too.

**`GithubCacheProofs`** (`CacheAssumption`).

* `CacheConsistent`: `CacheInv`, the invariant behind the 304 path. A row shows a version
  no older than its ETag's and no newer than GitHub's (`Fits`); this has to be said of rows in
  the table, in the hands of a fetch between its requests, in the pass's queue and in a list
  answer on its way to the table, since each of them is written back later.
* `NotModifiedHolds`: `NotModifiedIsCurrent`, from it.
* `OneFetchHolds`: `OneFetchPerKey`, from `FlightOK`: a fetching reader leads its key's flight,
  a flight is led by the reader that fetches its key, waiters wait for a flight.

**`GithubIngestProofs`** (`IngestAssumption`).

* `OneHook`: `OneHookPerFailure`, from `HookInv`, which counts the hook `ensureHook`
  has created and not stored yet.
* `CursorTrails`: `CursorTrailsAttempts`, from `IngestInv`. The sweep works on a listing that
  ages while it asks for attempts, so the invariant says what an old listing still tells:
  an "OK" in it is still true, because a delivery nobody asked for again is one request
  only (`AttemptOK`), and with one hook it has no gap between the cursor and its newest
  entry but deliveries a full page of newer ones pushed off it (`SweepInv`).
* `TouchedPurged`: `AllTouchedPurged`, from `PurgeInv`: a stored delivery id means that its
  keys are purged, or a handler is purging them, or a request of it failed.
* `ObjectsPurged`: `PayloadsArePlain => (Spec => []PurgedUnlessFailed)`. `PayloadsArePlain` is what
  GitHub guarantees: owners and repos pass `safeName`, and they and the numbers are not
  empty and hold no "/", "#" or "@"; `GithubIngestMC` has TLC evaluate it. From it
  `PayloadsAddress` shows, for strings of any length, that among the keys a delivery touches each of its objects
  has one that `parseKey`, `restPath`, `composite` and the resolvers' LIKE pattern all take for
  that object (`KeyAddresses`). No induction over strings is needed: a key is a template of
  seven or eight pieces, so `FlattenSeq` is unfolded as often (`FlattenUnfolds`,
  `Flatten7`, `Flatten8`), and a text is cut at the first separator (`CutAt`) where it was joined,
  because the pieces before it have none.

**`PeerMirrorProofs`** (`PeerAssumption`). `FirstHopOnly`: `NoPeerOfPeer`, from `HopInv` (what a
request holds between fetch and upsert is the remote's own as well). `SilentUntilUp`:
`NeverUpIsSilent`, from `SaidInv` (`everUp` outside a live link means a loss of that link).

**`ClaudeSessionsProofs`** (`ClaudeAssumption`: the blocks of a record share its stamp). `FoldedOnce`:
`FoldedOncePerKey`, from `FoldInv`: until the retention has passed, an applied sighting has its dedup row,
a claim not yet applied is the only one of its key, the row counts at most the applied
tool calls, and no prune is between its deletes.

**`GitWorktreesProofs`** (`GitAssumption`). `StaleImpliesVanished`: the action property
`StaleOnlyIfVanished`, from `SweepInv`: while a root's worktrees are upserted each listed one
is seen or still to come, unless an upsert failed, and what is marked are rows of
this root that its list lacks.

**`GraphReadsProofs`** (`GraphAssumption`: the issue number is positive, a selected join hangs off a
selected field, finitely many pull requests; `TmuxAssumption`). The four invariants of a query rest on `ReadsInv`. A
query opens no transaction, so nothing it has read need still be in the tables; the invariant holds
every intermediate value against the history variables instead: rows that stayed (`always`)
and rows that were there at some time (`ever`).

* `JoinsLinked`: `JoinsAreLinked`. The strengthening says what each half-finished join has so far:
  which of the branches of the memo are looked up already and which are `left`, what the first of the two
  claude statements contributes, and which of the three statements of the memo are over
  (`MemoInv`), up to the failure that breaks a link.
* `SiblingsAlike`: `SiblingsAgree`. One sibling computes the memo and the other reads nothing before
  (`MemoInv`); after that the set is fixed, and each join's rows among those that
  stayed are on it, all of them if no read failed (`IssuePanesInv`, `IssueSessionsInv`).
* `NewestShown`: `NewestPullRequest`, from `TreePrInv` and the maximum of the finite set of
  candidates.
* `BlankSaysWhy`: `BlankOnlyOnFailure`, by walking the executable schema: every required column is filled
  and every nullable or list field stops a null, so only a required tmux or peer root can
  null the data.
* `DownOnce`: `DownSaidOnce` of `TmuxPanes`, the writer of the panes that are joined, from `WatchInv` (the watcher announces only
  under its up flag). `TablesTyped`: what `reconcile` carries from one statement to the
  next is consistent with its own listing.

**`CliProofs`** (`SubscribeAssumption`, `HostAssumption`, `CliAssumption`).

* `StatusHolds`: `StatusTellsOutput`, from `StatusInv` (a `--once` that still runs has printed nothing).
* `LinesAsAsked`: `NamesArePlain => (Spec => []PrintedAsAsked)`, from `LineInv`: lines, then the
  frames on the connection, then what is still to be published, are one increasing
  sequence, across reconnects. `NamesArePlain` (the names on the command line hold no "/",
  "#" or "@"; evaluated in `CliMC`) is needed: the resolvers filter by prefix and suffix, and the
  prefix of an owner "a/b" matches keys that `parseKey` reads as owner "a", repo "b". `FiltersKeep` shows
  that the filters then relay only what was asked for, whatever the event's key, by
  comparing the places of the first and last separators.
* `EndsTellServer`: `EndTellsServer`, from `HostInv`: what a command has read of the config is what the
  server runs on, as long as neither was touched; the first token read opens the server, so
  that only a loss keeps a request from it.
* `SettingsKept`: `SettingsSurvive`, from `SettingsInv`: what an installer is about to rename into place is
  whole, and holds the user's entries unless they were saved behind its back.

Left to TLC:

* liveness under fairness, out of this prover's reach: `SilenceIsPushed`, `EmitReturns`,
  `ShutdownCompletes`, `ReadersReturn`, `NodesHeal`, `DownReadsStale`, `EveryRecordTaken`,
  `DeadSessionReadsStale`, `OldIsPruned`, `DownRowsGoStale`, `PanesConverge`, `PanesAreTold`,
  `RowsConverge`, `LiveIsTold`, `GoneIsUntold`, `EndedStreamLeft`.

Every invariant of a passing run, and every action property, is stated by a theorem.

## 5. Disagreements between the code and what is said of it

One has a run that TLC must refute and a finding that quotes the line: a cached
list reverts healed rows for ever (`github_list_revert`, against the staleness bound of
`docs/edr/github.md:97`).

The others were met while modelling, and TLC produced each from these models with an
invariant or property that states the quoted line. They are listed for the reader of
the code and are not part of the runs.

| Where | What the code does | What is said |
|---|---|---|
| `core/bus.go:53` | a full channel drops the event being published | line 8: "losing the oldest events" |
| `core/health.go:66` | two goroutines record out of order and lastEventAt moves back | line 62: "latest event time" |
| `core/health.go:110` | a dead plugin is stale with lagSeconds 0 | `docs/PRD.md:67`: "growing `lagSeconds`" |
| `plugins/github/store.go:132` | a purge between the statements of `putList` leaves a list without its tag | `docs/edr/github.md:78`: "no miss on lists" |
| `plugins/github/proxy.go:117` | a failed canonical read clobbers a shape stored after the row was read | `store.go:190`: "keep a GraphQL-shaped node" |
| `plugins/github/executor.go:245` | what the since pull heals is never announced | `docs/edr/github.md:100`: "emits `github.node.updated`" |
| `plugins/github/webhook.go:46` | a delivery is marked before its purge: when that fails, the replay is dropped as seen and answered 200 | line 40: "a healed drop lands exactly once" |
| `plugins/github/keys.go:150` | a label or tag with a slash is cut at it by `parseKey`, before `restPath` escapes | lines 146-148: escaped "so a slash or dot-dot in an untrusted value cannot break out" |
| `plugins/github/ingest.go:108` | the sweep reads one page, then moves the cursor to the newest id on it: of more missed deliveries than a page lists the older ones are never asked for again | line 32: "a delivery missed while it was down is replayed" |
| `plugins/github/ingest.go:124` | a lost attempts request is not repeated | line 32: a missed delivery "is replayed" |
| `plugins/peer/mirror.go:81` | a late answer clears the stale mark during an outage, and the outage can be announced twice | `liveness.go:17`: "cleared only on a fresh connect" |
| `plugins/peer/mirror.go:56` | a 401 marks a peer stale whose silent subscription stays live | `docs/edr/peer.md:101`: "a live subscription **is** the liveness signal" |
| `plugins/peer/executor.go:59` | a failed refresh answers with no rows | line 54: "degrades to serving whatever is cached" |
| `plugins/claude/hook.go:53` | a hook without a ts is stamped with its arrival, and the forwarder (`cmd/supergraph/install.go:181-206`) sends none: the transcript's sighting of that tool call has another key and is counted too | `features/claude.feature:137`: "yields one row and no double-count"; its test posts a ts itself (`features/steps_claude_test.go:641`) |
| `plugins/claude/redact.go:118` | two tool calls of one record share a dedup key; the second is lost | `store.go:121`: "already seen via the other channel" |
| `plugins/claude/store.go:123` | a crash or a failed upsert after the claim loses the fold: the record read again is a duplicate | line 121: "already seen via the other channel" |
| `plugins/claude/store.go:185` | a hook folded between the state file's read and write is overwritten | line 166: "never lowers state for a folded session" |
| `plugins/claude/store.go:367` | a session folded between the prune's query and delete is deleted | line 341: "whose last event is older than cutoff" |
| `plugins/tmux/snapshot.go:72` | a session that vanishes while the server lives keeps a live row | `docs/edr/tmux.md:35`: "marks vanished entities" |
| `plugins/tmux/control.go:109` | a server only the polls saw dies without server.down | `docs/edr/tmux.md:90`: once per up to down transition |
| `plugins/tmux/snapshot.go:67` | a poll that overlaps serverDown leaves a live pane nobody announced | line 66: a change "consumers must see" |
| `plugins/git/reconcile.go:149` | a change whose emit fails is never emitted | line 144: "emits exactly once" |
| `plugins/git/store.go:146` | rows marked before a failed mark are never announced as removed | line 114: "the removal set" |
| `cmd/supergraph/subscribe.go:295` | "subscribed" is printed before the server registered | line 293: registered "before any event" |
| `graph/github_map.go:131` | a pull request cached in the REST shape has no `headRefName` and is joined to every pane and session without a branch | line 129: "panes on the exact head branch" |
| `graph/github_map.go:154` | the head "issue0" derives to (0, true), and 0 is the column of a session without an issue: the pull request is joined to all of those | line 139: "sessions keyed to the head branch's derived issue, plus any session on the exact branch" |
| `plugins/claude/store.go:103` | a session that changes to a branch without an issue keeps its number and stays joined to the old issue | `graph/github_map.go:35`: "keyed to N by the same derivation" |
| `graph/github.resolvers.go:98` | the transport may send a refused subscription as data without an event: `--once` prints "null" and exits 0 | `cmd/supergraph/subscribe.go:119-121`: "0 ok, 1 usage error, 2 exhausted retries" |
| `cmd/supergraph/service.go:75` | `status` and `query` send no token: a non-loopback server reads "not running" | `cmd/supergraph/service.go:72`: exit 0 "when the server answers" |
| `cmd/supergraph/install.go:97` | `hooks` that is no object, and an event's value that is no array, are replaced (not in the model); settings that are the JSON null make the command panic | line 81: "preserving every existing hook" |
| `cmd/supergraph/subscribe.go:149` | the retry budget is for the life of the command | line 108: "after a drop before giving up" |

## 6. Not modelled

Of the generated code: introspection, complexity, argument parsing and the scalars.
Transports, playground and routing of the HTTP server. The service units (fixed
`launchctl` and `systemctl` calls). The template plugin, the fakes and the load harness:
fixtures. Parsers of tmux, git, REST and GraphQL text; redaction; typed readers of
plugin options; the github notifications poll (off by default: it moves a cursor
nothing reads) and the rate floor; the events of the github plugin; the early
returns of the forward supervisor without `gh`; SQLite's busy timeout; panics
outside Start. `PROJECT.json` lists the hazards no property covers, with the reason.

## 7. Plan

Done, in order of importance: `Hub` with `DurableTail`;
`PluginLag`; `GithubCache`; `GithubIngest` with `GithubKeys`; `PeerMirror`;
`ClaudeSessions`; `TmuxPanes`; `GitWorktrees`; `GraphReads` with `GraphSchema`;
`SubscribeCli`, `HostCommands` and `Cli`; then the proofs of section 4.

To come:

1. Prove the safety half of table and events in `GitWorktrees` and `TmuxPanes`.
2. Abstract specifications: a read model that follows a source (refined by
   `GitWorktrees` and `TmuxPanes`), an at-most-once fold (refined by
   `ClaudeSessions`).
3. Model: two boxes composed from `PeerMirror` and `PluginLag`, with the echo of
   mirrored rows; a tail across a restart composed from `SubscribeCli` and `Hub`.
