---------------------------- MODULE MCExtensions ----------------------------
(***************************************************************************)
(* What stands around the execution of nodes, part by part: plugin         *)
(* processes, with two plugins of which one has a configured port; the     *)
(* plugin registry; streamed output; and test runs of single nodes on      *)
(* every acyclic graph on four nodes.  Each runs while the others stay as  *)
(* they are.                                                               *)
(***************************************************************************)
EXTENDS Plugins, Registry, Streaming, TestRuns, TLC

VARIABLE part   \* the one that runs

MCOrder == <<"a", "b">>
MCDefaultPort == [n \in {"a", "b"} |-> 1]
MCYamlPort == [n \in {"b"} |-> 1]
SlotSymmetry == Permutations(Slots)

ExtensionsInit ==
  /\ part \in {"plugins", "registry", "streaming", "tests"}
  /\ \/ part = "plugins"
     \/ part # "plugins" /\ disk = [n \in {"a", "b"} |-> "absent"]
  /\ \/ part = "tests"
     \/ part # "tests" /\ edges = <<>> /\ cached = {} /\ assertion = "none"
  /\ Init /\ RegistryInit /\ StreamingInit /\ TestRunsInit

PluginsPart == part = "plugins" /\ Next /\ UNCHANGED <<part, registryVars, streamVars, testVars>>
RegistryPart == part = "registry" /\ RegistryNext /\ UNCHANGED <<part, vars, streamVars, testVars>>
StreamingPart == part = "streaming" /\ StreamingNext /\ UNCHANGED <<part, vars, registryVars, testVars>>
TestsPart == part = "tests" /\ TestRunsNext /\ UNCHANGED <<part, vars, registryVars, streamVars>>

ExtensionsNext == PluginsPart \/ RegistryPart \/ StreamingPart \/ TestsPart
ExtensionsSpec == ExtensionsInit /\ [][ExtensionsNext]_<<part, vars, registryVars, streamVars, testVars>>
=============================================================================
