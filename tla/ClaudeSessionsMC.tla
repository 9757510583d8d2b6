------------------------- MODULE ClaudeSessionsMC -------------------------
(* An instance of ClaudeSessions for TLC. *)
EXTENDS ClaudeSessions

\* A tool call that the hook and the transcript stamp alike, one in a record
\* too long to be read, and one in the record of the first whose hook has no
\* ts, as the forwarder posts it.
Turn      == {"tool", "big", "again"}
TurnEvent == [t \in Turn |-> "PreToolUse"]
TurnPid   == [t \in Turn |-> IF t = "again" THEN 7 ELSE 0]
TurnHooks == {"tool", "again"}
TurnLines == <<<<"big">>, <<"tool", "again">>>>
TurnBig   == {1}
TurnStamp == [s \in Sightings |-> CASE s = Hook("again") -> None
                                    [] s = Line("big") -> 2
                                    [] OTHER -> 1]

Asking    == {"input"}
OnePid    == {7}
=============================================================================
