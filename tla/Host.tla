-------------------------------- MODULE Host --------------------------------
(***************************************************************************)
(* What farrow changes on the host outside its data root: the private      *)
(* network (HostNetwork) and the files that name the nodes (HostFiles).    *)
(* The two share nothing but the moment: a behaviour follows one of them,  *)
(* `part`.                                                                 *)
(***************************************************************************)
EXTENDS HostNetwork, HostFiles

VARIABLE part

files == <<endpoint, resolved, hosts, fragment, include, run, edited, raced, disturbed, synced>>

HostInit ==
  /\ part \in {"network", "hosts", "ssh"}
  /\ Init /\ FilesInit
  /\ part = "network" => fragment.is = "none" /\ include = "none" /\ hosts.text = CHOOSE t \in Texts : TRUE
  /\ part # "network" => OnLinux /\ host = CHOOSE h \in Hosts : TRUE
  \* To keep the two kinds of files apart, the SSH part refuses while the
  \* hosts commands are followed.
  /\ part = "hosts" => fragment.is = "foreign"

NetworkStep == part = "network" /\ Next /\ UNCHANGED <<part, files>>
FileStep ==
  /\ part # "network"
  /\ LifecycleCommands \/ (part = "hosts" /\ HostsCommands)
  /\ UNCHANGED <<part, vars>>

HostNext == NetworkStep \/ FileStep
HostSpec == HostInit /\ [][HostNext]_<<part, vars, files>>
=============================================================================
