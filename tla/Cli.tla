-------------------------------- MODULE Cli --------------------------------
(***************************************************************************)
(* The command line (cmd/supergraph/main.go): the root command dispatches  *)
(* to one subcommand and its status becomes the process's.                 *)
(***************************************************************************)
EXTENDS SubscribeCli, HostCommands

CONSTANTS
    Contents,  \* settings files to start from
    Commands   \* what the Procs may run

\* At the start our command is wired to an event once or not at all.
ASSUME CliAssumption ==
    /\ Asks # {} /\ Contents # {}
    /\ \A s \in Contents :
          s \in [json : {"missing", "torn", "null", "object"}, user : SUBSET UserEntries, ours : [Hooks -> 0 .. 1]]

VARIABLE cmd

vars == <<cmd, subscribeVars, hostVars>>

\* The subcommand; the state the other one would use is at rest.
Init ==
    \/ /\ cmd = "subscribe"
       /\ SubscribeInit(Asks, BOOLEAN)
       /\ HostInit({"none"}, {Defaults}, {CHOOSE s \in Contents : TRUE})
    \/ /\ cmd = "host"
       /\ SubscribeInit({CHOOSE a \in Asks : TRUE}, {FALSE})
       /\ HostInit(Commands, HostConfigs, Contents)

Next ==
    \/ cmd = "subscribe" /\ SubscribeNext /\ UNCHANGED <<cmd, hostVars>>
    \/ cmd = "host" /\ HostNext /\ UNCHANGED <<cmd, subscribeVars>>

Spec == Init /\ [][Next]_vars /\ (cmd = "subscribe" => SubscribeFairness)
=============================================================================
