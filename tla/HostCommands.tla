---------------------------- MODULE HostCommands ----------------------------
(***************************************************************************)
(* The short-lived commands of one host (cmd/supergraph) beside a server   *)
(* that is started, stopped and reconfigured: claude-hook, query, schema,  *)
(* status, and install-claude-hook, which merges a block into a settings   *)
(* file the user edits too.                                                *)
(*                                                                         *)
(* A config file is [ok, listen, tokens], not ok when it is missing,       *)
(* unparsable or without hostId; "loop" is the default address, "net" one  *)
(* of the host's own that is not loopback; tokens are numbers, named in    *)
(* their order. A settings file is [json, user, ours]: what it parses as   *)
(* ("missing", "torn", "null", "object"), the user's entries, and how      *)
(* often our command is wired to each event.                               *)
(***************************************************************************)
EXTENDS Integers, FiniteSetsExt

CONSTANTS
    Procs,       \* commands running at a time
    HostConfigs, \* config files
    Hooks,       \* claudeHookEvents
    UserEntries, \* entries of the user's in the settings
    MaxChanges   \* bound: edits of either file, starts and stops

ASSUME HostAssumption ==
    \A c \in HostConfigs :
        c \in [ok : BOOLEAN, listen : {"loop", "net"}, tokens : SUBSET (Nat \ {0})]

VARIABLES
    config,   \* the config file
    srv,      \* the config the running server loaded, Down without one
    settings, \* the settings file
    proc,     \* proc[p]: [cmd, pc, read, code]: read is what it took from a file
    fate,     \* fate[p]: what became of p's request
    steady,   \* commands for whom config and server have not changed since they began (ghost)
    met,      \* commands during which a server was up (ghost)
    was,      \* the settings at the start (ghost)
    kept,     \* the user's entries as last saved (ghost)
    raced,    \* an edit fell between an installer's read and its rename (ghost)
    changes

hostVars == <<config, srv, settings, proc, fate, steady, met, was, kept, raced, changes>>
files == <<config, srv, settings, was, kept, raced, changes>>

----------------------------------------------------------------------------
(* Configuration and server. *)

ListenIsLoopback(listen) == listen = "loop"

\* A file without hostId, or off loopback without tokens, does not load.
Loads(c) == c.ok /\ (ListenIsLoopback(c.listen) \/ c.tokens # {})

Defaults == [ok |-> FALSE, listen |-> "loop", tokens |-> {}]
Down == Defaults
Loaded(c) == IF Loads(c) THEN c ELSE Defaults

\* server.New: off loopback, every route asks for one of the tokens.
Admits(s, listen, token) ==
    /\ s # Down /\ s.listen = listen
    /\ ListenIsLoopback(s.listen) \/ token \in s.tokens

NoToken == 0

FirstTokenOnLoopback(c) == IF c.tokens = {} \/ ~ListenIsLoopback(c.listen) THEN NoToken ELSE Min(c.tokens)

\* The forwarder's bearer: the first token by name.
FirstToken(c) == IF c.tokens = {} THEN NoToken ELSE Min(c.tokens)

HostInit(cmds, configs, contents) ==
    /\ config \in configs
    /\ srv \in {Down} \cup {c \in configs : Loads(c)}
    /\ settings \in contents
    /\ proc \in [Procs -> {[cmd |-> c, pc |-> IF c = "none" THEN "exit" ELSE "read", read |-> "nothing", code |-> -1] : c \in cmds}]
    /\ fate = [p \in Procs |-> "unsent"]
    /\ steady = IF srv # Down /\ srv = config THEN Procs ELSE {}
    /\ met = IF srv = Down THEN {} ELSE Procs
    /\ was = settings
    /\ kept = settings.user
    /\ raced = FALSE /\ changes = 0

Running == {p \in Procs : proc[p].pc # "exit"}

Change == changes < MaxChanges /\ changes' = changes + 1

EditConfig ==
    /\ Change /\ config' \in HostConfigs \ {config}
    /\ steady' = steady \ Running
    /\ UNCHANGED <<srv, settings, proc, fate, met, was, kept, raced>>

\* serve starts with the config as it is, or ends.
StartServer ==
    /\ Change /\ srv = Down /\ Loads(config) /\ srv' = config
    /\ steady' = steady \ Running
    /\ met' = met \cup Running
    /\ UNCHANGED <<config, settings, proc, fate, was, kept, raced>>

StopServer ==
    /\ Change /\ srv # Down /\ srv' = Down
    /\ steady' = steady \ Running
    /\ UNCHANGED <<config, settings, proc, fate, met, was, kept, raced>>

----------------------------------------------------------------------------
(* The commands. *)

At(p, cmd, pc) == proc[p].cmd = cmd /\ proc[p].pc = pc
Goes(p, pc, read) == proc' = [proc EXCEPT ![p] = [@ EXCEPT !.pc = pc, !.read = read]]
Exits(p, code) == proc' = [proc EXCEPT ![p] = [@ EXCEPT !.pc = "exit", !.code = code]]

\* hookEndpoint, resolveEndpoint, statusCmd: a config that does not load is
\* the default address without a token.
ReadConfig(p) ==
    /\ proc[p].cmd \in {"hook", "query", "schema", "status"} /\ proc[p].pc = "read"
    /\ Goes(p, "post", Loaded(config))
    /\ UNCHANGED <<files, fate, steady, met>>

\* A request with token is answered as asked for, or refused by the server or
\* for want of one, or lost: the 2 s timeout of hook and status, a broken
\* connection, an answer that does not decode. The server may have taken a lost one.
Request(p, token) ==
    \E f \in {"lost", IF Admits(srv, proc[p].read.listen, token) THEN "answered" ELSE "refused"} :
        fate' = [fate EXCEPT ![p] = f]

\* forwardClaudeHook: whatever comes of the POST, the status is 0.
PostHook(p) ==
    /\ At(p, "hook", "post")
    /\ Request(p, FirstToken(proc[p].read))
    /\ Exits(p, 0)
    /\ UNCHANGED <<files, steady, met>>

\* runNamedQuery: an operation that is in no file, or a --var without "=", is
\* status 1 before anything is sent.
LoadFails(p) ==
    /\ At(p, "query", "post")
    /\ Exits(p, 1)
    /\ UNCHANGED <<files, fate, steady, met>>

\* postGraphQL sends no token; a refusal does not decode and is status 1, and
\* so is an answer with errors.
PostQuery(p) ==
    /\ At(p, "query", "post")
    /\ Request(p, NoToken)
    /\ \/ fate'[p] = "answered" /\ Exits(p, 0)
       \/ Exits(p, 1)
    /\ UNCHANGED <<files, steady, met>>

\* runSchema posts the same way; a type the server does not have is status 1.
PostSchema(p) ==
    /\ At(p, "schema", "post")
    /\ Request(p, NoToken)
    /\ \/ fate'[p] = "answered" /\ Exits(p, 0)
       \/ Exits(p, 1)
    /\ UNCHANGED <<files, steady, met>>

\* healthProbe: without a 200 and its rows within 2 s it is "not running" and
\* status 3.
Probe(p) ==
    /\ At(p, "status", "post")
    /\ Request(p, NoToken)
    /\ IF fate'[p] = "answered" THEN Goes(p, "rows", proc[p].read) ELSE Exits(p, 3)
    /\ UNCHANGED <<files, steady, met>>

\* The rows are asked for again; without them nothing more is printed.
ProbeRows(p) ==
    /\ At(p, "status", "rows")
    /\ Exits(p, 0)
    /\ UNCHANGED <<files, fate, steady, met>>

----------------------------------------------------------------------------
(* install-claude-hook --install-hook *)

\* mergeHookBlock reads the settings: no file is an empty object, one that
\* does not parse ends the command, and so does the JSON null, by a panic.
ReadSettings(p) ==
    /\ At(p, "install", "read")
    /\ CASE settings.json = "torn" -> Exits(p, 1)
         [] settings.json = "null" -> Exits(p, 2)
         [] OTHER -> Goes(p, "temp", settings)
    /\ UNCHANGED <<files, fate, steady, met>>

\* hookBlock merged into what was read: our command once for every event.
Merged(read) == [json |-> "object", user |-> read.user, ours |-> [e \in Hooks |-> Max({1, read.ours[e]})]]

TruncatesInPlace(p) ==
    /\ At(p, "install", "temp")
    /\ Goes(p, "rename", Merged(proc[p].read))
    /\ settings' = [settings EXCEPT !.json = "torn"]
    /\ UNCHANGED <<config, srv, was, kept, raced, changes, fate, steady, met>>

\* writeFileAtomic: the merged file beside the old one; or this fails and
\* ends the command.
WriteTemp(p) ==
    /\ At(p, "install", "temp")
    /\ \/ Goes(p, "rename", Merged(proc[p].read))
       \/ Exits(p, 1)
    /\ UNCHANGED <<files, fate, steady, met>>

Rename(p) ==
    /\ At(p, "install", "rename")
    /\ \/ settings' = proc[p].read /\ Exits(p, 0)
       \/ settings' = settings /\ Exits(p, 1)
    /\ UNCHANGED <<config, srv, was, kept, raced, changes, fate, steady, met>>

\* The command is killed: what it wrote so far stays, a temp file too.
Crash(p) ==
    /\ proc[p].cmd = "install" /\ proc[p].pc # "exit"
    /\ Exits(p, 137)
    /\ UNCHANGED <<files, fate, steady, met>>

\* The user saves the settings with other entries, our wiring kept (external).
EditSettings ==
    /\ Change /\ settings.json = "object"
    /\ \E u \in SUBSET UserEntries : settings' = [settings EXCEPT !.user = u] /\ kept' = u
    /\ raced' = (raced \/ \E p \in Procs : proc[p].cmd = "install" /\ proc[p].pc \in {"temp", "rename"})
    /\ UNCHANGED <<config, srv, proc, fate, steady, met, was>>

----------------------------------------------------------------------------

HostNext ==
    \/ EditConfig
    \/ StartServer
    \/ StopServer
    \/ EditSettings
    \/ \E p \in Procs :
          \/ ReadConfig(p)
          \/ PostHook(p)
          \/ LoadFails(p)
          \/ PostQuery(p)
          \/ PostSchema(p)
          \/ Probe(p)
          \/ ProbeRows(p)
          \/ ReadSettings(p)
          \/ WriteTemp(p)
          \/ Rename(p)
          \/ Crash(p)

----------------------------------------------------------------------------
(* Properties. *)

Done(p, cmd) == At(p, cmd, "exit")

\* What a command's end says of the server, whatever is edited, started and
\* stopped meanwhile and whichever requests are lost. A server that runs with
\* the config as it is throughout, tokens or not, turns no hook away: only a
\* lost request keeps it from one. Only a lost request makes status take that
\* server, on loopback, for one that is not running. And the status 0 of
\* query, schema and status never comes without an answer from a server that
\* was there.
EndTellsServer ==
    \A p \in Procs :
        /\ Done(p, "hook") /\ p \in steady => fate[p] \in {"answered", "lost"}
        /\ Done(p, "status") /\ p \in steady /\ ListenIsLoopback(proc[p].read.listen) =>
              proc[p].code = 0 \/ fate[p] = "lost"
        /\ proc[p].cmd \in {"query", "schema", "status"} /\ proc[p].code = 0 =>
              fate[p] = "answered" /\ p \in met

\* AC-CLAUDE-INSTALL-IDEMPOTENT, with two installers at once and either one
\* killed anywhere: the settings are never left torn, our command is wired
\* at most once to an event, a status of 0 means it is wired, and the user's
\* entries are as the user left them unless saved behind an installer's back.
SettingsSurvive ==
    /\ settings.json = "torn" => was.json = "torn"
    /\ \A e \in Hooks : settings.ours[e] <= 1
    /\ raced \/ settings.user = kept
    /\ \A p \in Procs : Done(p, "install") /\ proc[p].code = 0 => \A e \in Hooks : settings.ours[e] = 1
=============================================================================
