---------------------------- MODULE PluginLagMC ----------------------------
(* Instances of PluginLag for TLC. *)
EXTENDS PluginLag, TLC

CONSTANT w1

OneWatcher == {w1}
NoTails    == {}
NoSources  == [s \in NoTails |-> 0]
=============================================================================
