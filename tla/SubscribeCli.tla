---------------------------- MODULE SubscribeCli ----------------------------
(***************************************************************************)
(* `supergraph subscribe <field>` (cmd/supergraph/subscribe.go) against a  *)
(* server: dial, connection_init, ack, subscribe, then one printed line    *)
(* per `next` frame; any end of the stream is a drop that a bounded retry  *)
(* loop reconnects after.                                                  *)
(*                                                                         *)
(* The server reads the subscribe frame and registers with its bus at a    *)
(* moment of its own, an event published while nobody is registered is     *)
(* gone, and a connection may break with frames still under way. The       *)
(* subscription resolvers filter by source and by key. An event is its     *)
(* number in Feed; keys are sequences of atoms, see GithubKeys.            *)
(***************************************************************************)
EXTENDS GraphSchema, GithubKeys

CONSTANTS
    Asks,        \* command lines: [field, args, malformed, json, retries]
    Feed         \* the events the server publishes, in order: [src, key]

ASSUME SubscribeAssumption ==
    /\ Len(Feed) \in Nat
    /\ \A n \in 1 .. Len(Feed) : IsText(Feed[n].key)

MaxEvents == Len(Feed)

VARIABLES
    ask,        \* the field and its arguments
    once,       \* opts.Once
    phase,      \* where the client is
    attempt,    \* runSubscribe's loop counter
    code,       \* exit status, -1 while running
    sub,        \* the server's side: "none", "sent" (frame unread), "on" (registered)
    frames,     \* server to client, in order
    published,  \* events published so far
    printed     \* the lines on stdout

client == <<ask, once, phase, attempt, code, printed>>
conn == <<sub, frames>>
subscribeVars == <<client, conn, published>>

Endings == {"complete", "error", "eof"}
SubscribeInit(asks, onces) ==
    /\ ask \in asks /\ once \in onces
    /\ phase = "start" /\ attempt = 0 /\ code = -1
    /\ sub = "none" /\ frames = <<>>
    /\ published = 0 /\ printed = <<>>

----------------------------------------------------------------------------
(* What is asked for. args maps argument names to values; malformed says   *)
(* that a --var has no "=", json that a value is JSON and not a string;    *)
(* retries is --max-retries. The command's context is never cancelled.     *)

defaultSubscribeMaxRetries == 3

\* 0 asks for the default; a negative number leaves no attempt at all.
MaxRetries(a) == IF a.retries = 0 THEN defaultSubscribeMaxRetries ELSE a.retries

\* The fields the command knows, with their arguments.
subscriptionFields ==
    [issueUpdated |-> {"owner", "repo"}, checkRunUpdated |-> {}, claudeSessionUpdated |-> {"hostId"},
     tmuxEvents |-> {}, worktreeUpdated |-> {}]

\* parseVars and buildSubscription: a --var without "=", an unknown field, an
\* argument it does not take.
Rejected(a) ==
    \/ a.malformed
    \/ a.field \notin DOMAIN subscriptionFields
    \/ ~(DOMAIN a.args \subseteq subscriptionFields[a.field])

\* IssueUpdated returns an error for a repo without an owner.
Refused(a) == "repo" \in DOMAIN a.args /\ "owner" \notin DOMAIN a.args

\* IssueUpdated: the keys it lets through begin with this.
IssuePrefix(a) ==
    <<"issue", ":">> \o (IF "owner" \in DOMAIN a.args THEN a.args.owner \o <<"/">> ELSE <<>>)
                    \o (IF "repo" \in DOMAIN a.args THEN a.args.repo \o <<"#">> ELSE <<>>)

\* ClaudeSessionUpdated: a key passes without a host, or ends in it.
OnHost(a, key) == "hostId" \in DOMAIN a.args => IsSuffix(<<"@">> \o a.args.hostId, key)

\* EventsChannel by source and the resolver's filter by key: event e is relayed.
Relays(a, e) ==
    /\ e.src = StreamField(a.field).src
    /\ a.field = "issueUpdated" => IsPrefix(IssuePrefix(a), e.key)
    /\ a.field = "claudeSessionUpdated" => OnHost(a, e.key)

----------------------------------------------------------------------------
(* The client. *)

Exit(status) == phase' = "exit" /\ code' = status

\* The arguments are accepted, or not: status 1. A loop without an attempt has
\* exhausted its retries.
Validate ==
    /\ phase = "start"
    /\ IF Rejected(ask) THEN Exit(1)
       ELSE IF MaxRetries(ask) < 0 THEN Exit(2) ELSE phase' = "dial" /\ UNCHANGED code
    /\ UNCHANGED <<ask, once, attempt, printed, conn, published>>

\* subscribeOnce returns an error: its connection is closed, and the loop
\* backs off or, on the last attempt, gives up.
Drop ==
    /\ sub' = "none" /\ frames' = <<>>
    /\ IF attempt = MaxRetries(ask) THEN Exit(2) ELSE phase' = "backoff" /\ UNCHANGED code

\* The dial and connection_init.
Dial ==
    /\ phase = "dial"
    /\ phase' = "ack"
    /\ UNCHANGED <<ask, once, attempt, code, printed, conn, published>>

DialFails ==
    /\ phase = "dial"
    /\ Drop
    /\ UNCHANGED <<ask, once, attempt, printed, published>>

\* waitForAck: it has no timeout of its own.
Acked ==
    /\ phase = "ack"
    /\ phase' = "sub"
    /\ UNCHANGED <<ask, once, attempt, code, printed, conn, published>>

\* An error frame or a lost connection instead, or a subscribe frame that
\* cannot be written.
HandshakeFails ==
    /\ phase \in {"ack", "sub"}
    /\ Drop
    /\ UNCHANGED <<ask, once, attempt, printed, published>>

\* The subscribe frame is flushed; with ReadyNotify "subscribed" is printed.
SendSubscribe ==
    /\ phase = "sub"
    /\ phase' = "read" /\ sub' = "sent"
    /\ UNCHANGED <<ask, once, attempt, code, printed, frames, published>>

\* A `next` frame is printed, as "null" (0) when it has no data; --once
\* returns nil and closes the connection.
PrintNext ==
    /\ phase = "read" /\ frames # <<>> /\ Head(frames).type = "next"
    /\ printed' = Append(printed, Head(frames).event)
    /\ IF once
         THEN Exit(0) /\ sub' = "none" /\ frames' = <<>>
         ELSE frames' = Tail(frames) /\ UNCHANGED <<phase, code, sub>>
    /\ UNCHANGED <<ask, once, attempt, published>>

\* stdout refuses the line: the event is gone and the connection dropped.
PrintFails ==
    /\ phase = "read" /\ frames # <<>> /\ Head(frames).type = "next"
    /\ Drop
    /\ UNCHANGED <<ask, once, attempt, printed, published>>

CompleteIsSuccess ==
    /\ phase = "read" /\ frames # <<>> /\ Head(frames).type \in Endings
    /\ IF Head(frames).type = "complete" /\ once
         THEN Exit(0) /\ sub' = "none" /\ frames' = <<>>
         ELSE Drop
    /\ UNCHANGED <<ask, once, attempt, printed, published>>

CompleteIsIgnored ==
    /\ phase = "read" /\ frames # <<>> /\ Head(frames).type \in Endings
    /\ IF Head(frames).type = "complete"
         THEN frames' = Tail(frames) /\ UNCHANGED <<phase, code, sub>>
         ELSE Drop
    /\ UNCHANGED <<ask, once, attempt, printed, published>>

\* `error`, `complete` and the end of the connection are all drops.
ReadEnding ==
    /\ phase = "read" /\ frames # <<>> /\ Head(frames).type \in Endings
    /\ Drop
    /\ UNCHANGED <<ask, once, attempt, printed, published>>

\* The select after a drop: the timer.
Backoff ==
    /\ phase = "backoff"
    /\ phase' = "dial" /\ attempt' = attempt + 1
    /\ UNCHANGED <<ask, once, code, printed, conn, published>>

----------------------------------------------------------------------------
(* The server and the network. *)

SubscribeReplays ==
    /\ sub = "sent"
    /\ IF ask.json \/ Refused(ask)
         THEN sub' = "none" /\ frames' = Append(frames, [type |-> "error", event |-> 0])
         ELSE /\ sub' = "on"
              /\ frames' = IF published > 0 /\ Relays(ask, Feed[published])
                             THEN Append(frames, [type |-> "next", event |-> published]) ELSE frames
    /\ UNCHANGED <<client, published>>

\* The server's read loop gets to the subscribe frame: the resolver
\* registers with the bus. A variable that is no String is answered with an
\* error frame; a refusal of the resolver with one, or with a `next` frame
\* that has errors and no data, and `complete`.
ServerSubscribes ==
    /\ sub = "sent"
    /\ IF ask.json \/ Refused(ask)
         THEN /\ sub' = "none"
              /\ \/ frames' = Append(frames, [type |-> "error", event |-> 0])
                 \/ ~ask.json /\ frames' = frames \o <<[type |-> "next", event |-> 0], [type |-> "complete", event |-> 0]>>
         ELSE sub' = "on" /\ UNCHANGED frames
    /\ UNCHANGED <<client, published>>

\* An event is published; a registered subscription that relays it gets it,
\* unless its channel is full and the bus drops it.
Publish ==
    /\ published < MaxEvents
    /\ published' = published + 1
    /\ \/ UNCHANGED frames
       \/ /\ sub = "on" /\ Relays(ask, Feed[published'])
          /\ frames' = Append(frames, [type |-> "next", event |-> published'])
    /\ UNCHANGED <<client, sub>>

\* The server ends the stream behind what it sent, or the connection breaks
\* and takes that with it.
StreamEnds ==
    /\ sub \in {"sent", "on"}
    /\ sub' = "none"
    /\ \E e \in Endings : LET f == [type |-> e, event |-> 0] IN
           frames' \in {Append(frames, f), <<f>>}
    /\ UNCHANGED <<client, published>>

----------------------------------------------------------------------------

ClientStep ==
    \/ Validate
    \/ Dial
    \/ DialFails
    \/ SendSubscribe
    \/ PrintNext
    \/ PrintFails
    \/ ReadEnding
    \/ Backoff

SubscribeNext ==
    \/ ClientStep
    \/ Acked
    \/ HandshakeFails
    \/ ServerSubscribes
    \/ Publish
    \/ StreamEnds

\* The client runs on. The server need not: one that accepts and says nothing
\* is waited for without end.
SubscribeFairness == WF_subscribeVars(ClientStep)

----------------------------------------------------------------------------
(* Properties. *)

\* AC-SUB-1, -5, -6: what the shell can conclude from the status. 0 is --once
\* with exactly one line; a --once that failed wrote nothing, however many
\* connections it went through; 1 and 2 are not left over from a success.
StatusTellsOutput ==
    /\ code = 0 => once /\ Len(printed) = 1
    /\ code \in {1, 2} /\ once => printed = <<>>
    /\ code = 1 => attempt = 0 /\ printed = <<>>
    /\ once => Len(printed) <= 1

\* The event is one the command line asked for: by owner and repo of the
\* issue, by the host of the session, else by the plugin.
Wanted(a, e) ==
    /\ e.src = StreamField(a.field).src
    /\ a.field = "issueUpdated" =>
           kindOf(e.key) = <<"issue">> /\ \A x \in DOMAIN a.args : parseKey(e.key)[x] = a.args[x]
    /\ "hostId" \in DOMAIN a.args => After(e.key, LastIndex(e.key, "@")) = a.args.hostId

\* The names asked for are without the separators of a key, as GitHub's and a
\* host's are.
NamesArePlain == \A a \in Asks : \A x \in DOMAIN a.args : PlainText(a.args[x])

\* subscribeOnce and the resolvers, over reconnects: every line is an event
\* that was asked for, not one of a repo or host whose name only begins or
\* ends the same; lines come in the order of the events, none twice. Only a
\* refused operation prints "null".
PrintedAsAsked ==
    /\ \A i \in DOMAIN printed : IF printed[i] = 0 THEN Refused(ask) ELSE Wanted(ask, Feed[printed[i]])
    /\ \A i, j \in DOMAIN printed : i < j => printed[i] < printed[j] \/ printed[j] = 0

\* AC-SUB-6, subscribeOnce and runSubscribe: a stream that is over, in whatever
\* way and with whatever still under way, is not waited on: the command comes
\* to connect again or ends.
EndedStreamLeft == phase = "read" /\ sub = "none" ~> phase \in {"ack", "exit"}
=============================================================================
