---------------------------- MODULE Convergence ----------------------------
(***************************************************************************)
(* Planning and convergence of one deployment (internal/private/manager.go *)
(* with commit.go, destroy.go, plan.go and port_recovery.go): how the      *)
(* specification read from the inventory is compared with the applied one, *)
(* and what up, reload, recreate, destroy, start and stop then change.     *)
(* Commands run one at a time here; what overlapping ones do to phases and *)
(* files is the matter of Deployment and NodeArtifacts.  reload and        *)
(* recreate are two steps, and anything may happen to the host, or to the  *)
(* command, between them.  The host is an arm64 Mac.                       *)
(***************************************************************************)
EXTENDS Inventory

CONSTANTS Inventories,  \* the inventories the user may leave in farrow.yml
          Names,        \* the names of all their nodes
          Twin,         \* inventory -> one that lists its groups in another order
          EL7, EL8,     \* images with a runtime policy of their own
          BootOf,       \* image -> boot mode
          PortSets      \* sets of ports that other programs of the host bind at times

NamesIn(spec) == {spec.nodes[i].name : i \in DOMAIN spec.nodes}

resolve[inv \in Range(Inventories)] == Resolve(inv)
Resolved == [i \in DOMAIN Inventories |-> resolve[Inventories[i]]]

ASSUME NamesAssumption == UNION {NamesIn(s) : s \in Range(Resolved)} \subseteq Names

ASSUME InventoriesAssumption == \A inv \in Range(Inventories) : IsDocument(inv)

\* Had a group other variables under another parent, the first would count.
ASSUME TwinAssumption ==
  \A i \in DOMAIN Inventories :
    /\ Twin[i] \in DOMAIN Inventories
    /\ Twin[i] = i \/ (OneGroup(Inventories[i]) /\ Reordered(Inventories[i], Inventories[Twin[i]]))

NodeIn(spec, n) == spec.nodes[CHOOSE i \in DOMAIN spec.nodes : spec.nodes[i].name = n]
Envelope(spec) == [net |-> spec.net, arch |-> spec.arch, user |-> spec.user]

NoSpec == Rejected
NoNode == [phase |-> "absent"]
NoJob == [step |-> "idle"]

VARIABLES desired,    \* index of the inventory on disk
          wanted,     \* what it resolves to
          persisted,  \* resolved specification in state.json of the deployment
          node,       \* per name: its state document, with the definition applied
          busy,       \* ports bound by other programs
          job         \* the command that runs: what it still has to do

vars == <<desired, wanted, persisted, node, busy, job>>

Init ==
  /\ desired \in DOMAIN Inventories
  /\ wanted = Resolved[desired]
  /\ persisted = NoSpec
  /\ node = [n \in Names |-> NoNode]
  /\ busy = {}
  /\ job = NoJob

\* Only a name of some inventory ever has a state document.
Stateful(n) == n \in Names /\ node[n].phase # "absent"
Chosen(spec, sel) == IF sel = {} THEN NamesIn(spec) ELSE sel

-----------------------------------------------------------------------------
(* Comparison of the wanted and the applied specification.                 *)

\* A disk asked for as "auto" keeps the filesystem it has.
SameNode(d, e) ==
  \/ d = e
  \/ /\ [d EXCEPT !.disk = "auto"] = [e EXCEPT !.disk = "auto"]
     /\ "auto" \in {d.disk, e.disk}
     /\ "none" \notin {d.disk, e.disk}

EnvelopeChanged(spec) == Envelope(spec) # Envelope(persisted)
Known(spec, n) == n \in NamesIn(persisted) /\ Stateful(n)
ToCreate(spec) == {n \in NamesIn(spec) : ~Known(spec, n)}
Changed(spec) ==
  {n \in NamesIn(spec) \ ToCreate(spec) : ~SameNode(NodeIn(persisted, n), NodeIn(spec, n))}
Removed(spec) == {n \in NamesIn(persisted) \ NamesIn(spec) : Stateful(n)}

Drifted(spec) == EnvelopeChanged(spec) \/ Removed(spec) # {} \/ Changed(spec) # {}
DriftedApart(spec, sel) ==
  EnvelopeChanged(spec) \/ Removed(spec) # {} \/ ~ (Changed(spec) \subseteq Chosen(persisted, sel))

Images(spec) == {spec.nodes[i].image : i \in DOMAIN spec.nodes}

\* selectRuntime and resolveBootMode: the guests of a deployment share the
\* accelerator and the boot mode; no EL7 on this host, and EL8 is emulated.
Supported(spec) ==
  /\ Images(spec) \cap EL7 = {}
  /\ \A i, j \in Images(spec) : BootOf[i] = BootOf[j]
Runtime(spec) ==
  IF spec.arch \notin {"native", "arm64"} THEN <<spec.arch, "tcg">>
  ELSE <<"arm64", IF Images(spec) \cap EL8 = {} THEN "hvf" ELSE "tcg">>

RuntimeDrift(spec) == {n \in NamesIn(spec) : Stateful(n) /\ node[n].runtime # Runtime(spec)}

\* The plan without the comparison of accelerators.
PlanByDefinition(spec, sel) ==
  LET phases == {node[n].phase : n \in {n \in NamesIn(persisted) \cap Chosen(spec, sel) : Stateful(n)}}
  IN IF persisted = NoSpec THEN "create"
     ELSE IF EnvelopeChanged(spec) THEN "recreate"
     ELSE IF Removed(spec) # {} THEN "blocked-removal"
     ELSE IF Changed(spec) # {} THEN "recreate"
     ELSE IF ToCreate(spec) \cap Chosen(spec, sel) # {} THEN "converge"
     ELSE IF phases \subseteq {"running"} THEN "none"
     ELSE "start"

\* Plan: read-only, judged against the wanted inventory.
Blocked(spec, sel) == sel # {} /\ DriftedApart(spec, sel)
PlanAction(spec, sel) ==
  LET phases == {node[n].phase : n \in {n \in NamesIn(persisted) \cap Chosen(spec, sel) : Stateful(n)}}
  IN IF persisted = NoSpec THEN "create"
     ELSE IF sel # {} /\ RuntimeDrift(spec) # {} THEN "refused"
     ELSE IF EnvelopeChanged(spec) THEN "recreate"
     ELSE IF Removed(spec) # {} THEN "blocked-removal"
     ELSE IF Changed(spec) # {} \/ RuntimeDrift(spec) # {} THEN "recreate"
     ELSE IF ToCreate(spec) \cap Chosen(spec, sel) # {} THEN "converge"
     ELSE IF phases \subseteq {"running"} THEN "none"
     ELSE "start"

\* What up refuses when it begins.
Creating(spec, sel) == {n \in Chosen(spec, sel) : ~Stateful(n)}
RefusesAtOnce(spec, sel) ==
  \/ persisted # NoSpec /\ Drifted(spec)
  \/ /\ Creating(spec, sel) # {}
     /\ \/ persisted # NoSpec /\ RuntimeDrift(spec) # {}
        \/ ~Supported(spec)

\* What the commit of a creation accepts: nodes are added, and those without
\* state redefined, and nothing else; "auto" and "xfs" are different here.
Committable(spec) ==
  \/ persisted = NoSpec
  \/ /\ ~EnvelopeChanged(spec)
     /\ NamesIn(persisted) \subseteq NamesIn(spec)
     /\ \A n \in NamesIn(persisted) : Stateful(n) => NodeIn(persisted, n) = NodeIn(spec, n)

\* All that up refuses, at once or when its new nodes are prepared.
UpRefuses(spec, sel) ==
  \/ RefusesAtOnce(spec, sel)
  \/ Creating(spec, sel) # {} /\ ~Committable(spec)

-----------------------------------------------------------------------------
(* Management ports.                                                       *)

MaxPort == 65535
Candidates(preferred) == {p \in {preferred + 10000 * k : k \in 0 .. 4} : p \in 1 .. MaxPort}
Choose(preferred, taken) ==
  LET free == Candidates(preferred) \ taken
  IN IF free = {} THEN 0 ELSE Min(free)

Running(nodes) == {n \in Names : nodes[n].phase = "running"}
Bound(nodes) == busy \cup {nodes[n].ssh : n \in Running(nodes)}
Reserved(nodes, S) == {nodes[n].ssh : n \in {n \in S : nodes[n].phase # "absent"}}

NoPorts == [n \in Names |-> 0]

\* Allocate without the ports of the nodes that exist already.
AllocateUnreserved(spec, create) ==
  LET taken == Bound(node)
      given[i \in 0 .. Len(spec.nodes)] ==
        IF i = 0 THEN NoPorts
        ELSE IF spec.nodes[i].name \notin create THEN given[i - 1]
        ELSE [given[i - 1] EXCEPT ![spec.nodes[i].name] = Choose(2221 + i, taken \cup Range(given[i - 1]))]
  IN given[Len(spec.nodes)]

\* A created node prefers the port of its place in the inventory; nodes that
\* exist keep theirs, bound or not.
Allocate(spec, create) ==
  LET taken == Reserved(node, NamesIn(spec) \ create) \cup Bound(node)
      given[i \in 0 .. Len(spec.nodes)] ==
        IF i = 0 THEN NoPorts
        ELSE IF spec.nodes[i].name \notin create THEN given[i - 1]
        ELSE [given[i - 1] EXCEPT ![spec.nodes[i].name] = Choose(2221 + i, taken \cup Range(given[i - 1]))]
  IN given[Len(spec.nodes)]

\* Before QEMU is launched a management port found busy moves within the
\* candidates of its family, one node after the other in the order of spec.
Family(port) == IF port % 10000 = 0 THEN 10000 ELSE port % 10000

Repair(nodes, spec, starting) ==
  LET taken == Reserved(nodes, NamesIn(spec)) \cup Bound(nodes)
      moved[i \in 0 .. Len(spec.nodes)] ==
        IF i = 0 THEN NoPorts
        ELSE LET n == spec.nodes[i].name
             IN IF n \notin starting THEN moved[i - 1]
                ELSE [moved[i - 1] EXCEPT ![n] =
                        IF nodes[n].ssh \in Bound(nodes)
                        THEN Choose(Family(nodes[n].ssh), taken \cup Range(moved[i - 1]))
                        ELSE nodes[n].ssh]
  IN moved[Len(spec.nodes)]

Started(nodes, spec, S, failing) ==
  LET starting == {n \in S : nodes[n].phase = "stopped"}
      port == Repair(nodes, spec, starting)
  IN [n \in Names |->
        IF n \notin starting \/ port[n] = 0 THEN nodes[n]
        ELSE [nodes[n] EXCEPT !.ssh = port[n], !.phase = IF n \in failing THEN "stopped" ELSE "running"]]

Stopped(nodes, S) ==
  [n \in Names |-> IF n \in S /\ nodes[n].phase = "running" THEN [nodes[n] EXCEPT !.phase = "stopped"]
                                                         ELSE nodes[n]]

\* The definitions outside S, in their order.
Without(spec, S) ==
  LET kept[i \in 0 .. Len(spec.nodes)] ==
        IF i = 0 THEN <<>>
        ELSE IF spec.nodes[i].name \in S THEN kept[i - 1] ELSE Append(kept[i - 1], spec.nodes[i])
  IN [spec EXCEPT !.nodes = kept[Len(spec.nodes)]]

Destroyed(nodes, S) == [n \in Names |-> IF n \in S THEN NoNode ELSE nodes[n]]

-----------------------------------------------------------------------------
(* Commands.  sel is the node selection of the command line, {} for none.  *)

Committed(S) == {n \in S : Stateful(n)}

\* start, stop and restart select among the applied nodes.
Selectable(sel) ==
  /\ job = NoJob
  /\ sel \subseteq NamesIn(persisted)
  /\ IF sel = {} THEN Committed(NamesIn(persisted)) # {} ELSE sel = Committed(sel)

Start(sel, failing) ==
  /\ Selectable(sel)
  /\ node' = Started(node, persisted, Committed(Chosen(persisted, sel)), failing)
  /\ UNCHANGED <<desired, wanted, persisted, busy, job>>

Stop(sel) ==
  /\ Selectable(sel)
  /\ node' = Stopped(node, Committed(Chosen(persisted, sel)))
  /\ UNCHANGED <<desired, wanted, persisted, busy, job>>

Restart(sel, failing) ==
  LET S == Committed(Chosen(persisted, sel))
  IN /\ Selectable(sel)
     /\ node' = Started(Stopped(node, S), persisted, S, failing)
     /\ UNCHANGED <<desired, wanted, persisted, busy, job>>

\* up, and the second half of reload and recreate, work with the inventory
\* read when the command began.
Up(sel) ==
  /\ job = NoJob
  /\ wanted # Rejected
  /\ sel \subseteq NamesIn(wanted)
  /\ job' = [step |-> "up", by |-> "user", spec |-> wanted, sel |-> sel, peers |-> {}]
  /\ UNCHANGED <<desired, wanted, persisted, node, busy>>

\* Whatever up refuses for, and every failure before it changes anything.
UpEnds ==
  /\ job # NoJob
  /\ job' = NoJob
  /\ UNCHANGED <<desired, wanted, persisted, node, busy>>

UpExisting(failing) ==
  /\ job.step = "up"
  /\ ~UpRefuses(job.spec, job.sel)
  /\ Creating(job.spec, job.sel) = {}
  /\ node' = Started(node, persisted, Chosen(job.spec, job.sel), failing)
  /\ job' = NoJob
  /\ UNCHANGED <<desired, wanted, persisted, busy>>

\* The specification is committed even if every node failed to prepare; the
\* prepared ones are committed and started.
UpCreate(prepared, failing) ==
  LET spec == job.spec
      create == Creating(spec, job.sel)
      port == Allocate(spec, create)
      new(n) == [phase |-> "stopped", def |-> NodeIn(spec, n), env |-> Envelope(spec),
                 runtime |-> Runtime(spec), ssh |-> port[n]]
      made == [n \in Names |-> IF n \in prepared THEN new(n) ELSE node[n]]
  IN /\ job.step = "up"
     /\ ~UpRefuses(spec, job.sel)
     /\ create # {}
     /\ prepared \subseteq create
     /\ \A n \in create : port[n] # 0
     /\ persisted' = spec
     /\ node' = Started(made, spec, prepared, failing)
     /\ job' = [job EXCEPT !.step = "peers", !.peers = Chosen(spec, job.sel) \ create]
     /\ UNCHANGED <<desired, wanted, busy>>

\* Then, unless something else than a node failed, and under the lock anew,
\* the selected nodes that existed before.
UpPeers(failing) ==
  /\ job.step = "peers"
  /\ node' = Started(node, persisted, job.peers, failing)
  /\ job' = NoJob
  /\ UNCHANGED <<desired, wanted, persisted, busy>>

\* Reload without the check of the runtime.
ReloadUnchecked(sel) ==
  /\ job = NoJob
  /\ persisted # NoSpec /\ wanted # Rejected
  /\ sel \subseteq NamesIn(wanted)
  /\ ~Drifted(wanted) /\ Supported(wanted)
  /\ node' = Stopped(node, Committed(Chosen(wanted, sel)))
  /\ job' = [step |-> "up", by |-> "reload", spec |-> wanted, sel |-> sel, peers |-> {}]
  /\ UNCHANGED <<desired, wanted, persisted, busy>>

\* What up would refuse at once is refused before a node stops.
Reload(sel) ==
  /\ job = NoJob
  /\ persisted # NoSpec /\ wanted # Rejected
  /\ sel \subseteq NamesIn(wanted)
  /\ ~Drifted(wanted) /\ Supported(wanted) /\ RuntimeDrift(wanted) = {}
  /\ node' = Stopped(node, Committed(Chosen(wanted, sel)))
  /\ job' = [step |-> "up", by |-> "reload", spec |-> wanted, sel |-> sel, peers |-> {}]
  /\ UNCHANGED <<desired, wanted, persisted, busy>>

\* The selected nodes, all applied ones without a selection, are destroyed;
\* with the last of them the applied specification goes.
Recreate(sel) ==
  LET S == Chosen(persisted, sel)
  IN /\ job = NoJob
     /\ persisted # NoSpec /\ wanted # Rejected
     /\ sel \subseteq NamesIn(persisted) \cap NamesIn(wanted)
     /\ S # NamesIn(persisted) => ~DriftedApart(wanted, sel)
     /\ Supported(wanted)
     /\ sel # {} => RuntimeDrift(wanted) = {}
     /\ node' = Destroyed(node, S)
     /\ persisted' = IF S = NamesIn(persisted) THEN NoSpec ELSE persisted
     /\ job' = [step |-> "up", by |-> "recreate", spec |-> wanted, sel |-> sel, peers |-> {}]
     /\ UNCHANGED <<desired, wanted, busy>>

\* Destroy with the specification reduced before the nodes are removed.
DestroySpecFirst(sel, removed) ==
  LET S == Chosen(persisted, sel)
  IN /\ job = NoJob
     /\ persisted # NoSpec /\ sel \subseteq NamesIn(persisted)
     /\ removed \subseteq S
     /\ node' = Destroyed(Stopped(node, S), removed)
     /\ persisted' = IF S = NamesIn(persisted) THEN NoSpec ELSE Without(persisted, S)
     /\ UNCHANGED <<desired, wanted, busy, job>>

\* destroy stops its nodes, removes them one after the other, and last the
\* applied specification, or their share of it; it may end after any of this.
Destroy(sel, removed) ==
  LET S == Chosen(persisted, sel)
  IN /\ job = NoJob
     /\ persisted # NoSpec /\ sel \subseteq NamesIn(persisted)
     /\ removed \subseteq S
     /\ node' = Destroyed(Stopped(node, S), removed)
     /\ \/ persisted' = persisted
        \/ /\ removed = S
           /\ persisted' = IF S = NamesIn(persisted) THEN NoSpec ELSE Without(persisted, S)
     /\ UNCHANGED <<desired, wanted, busy, job>>

\* The user writes another inventory (a command has read it by then); other
\* programs come and go.
Edit(i) ==
  /\ job = NoJob
  /\ desired' = i
  /\ wanted' = Resolved[i]
  /\ UNCHANGED <<persisted, node, busy, job>>

PortChange(ports) ==
  /\ ports \cap {node[n].ssh : n \in Running(node)} = {}
  /\ busy' = ports
  /\ UNCHANGED <<desired, wanted, persisted, node, job>>

Next ==
  \/ \E sel \in SUBSET Names :
       \/ Up(sel) \/ Stop(sel) \/ Reload(sel) \/ Recreate(sel)
       \/ \E failing \in SUBSET Chosen(persisted, sel) : Start(sel, failing) \/ Restart(sel, failing)
       \/ \E removed \in SUBSET Chosen(persisted, sel) : Destroy(sel, removed)
  \/ UpEnds
  \/ /\ job # NoJob
     /\ \E failing \in SUBSET Chosen(job.spec, job.sel) :
          \/ UpExisting(failing) \/ UpPeers(failing)
          \/ \E prepared \in SUBSET Creating(job.spec, job.sel) : UpCreate(prepared, failing)
  \/ \E i \in DOMAIN Inventories : Edit(i)
  \/ \E ports \in PortSets : PortChange(ports)

Spec == Init /\ [][Next]_vars

-----------------------------------------------------------------------------
(* Properties.                                                             *)

\* Every node that has files is in the applied specification with exactly the
\* definition it was made from, whatever was edited, selected, interrupted or
\* half prepared: it can be selected and destroyed, and the snapshot that ssh,
\* the hosts file and the guests' metadata are rendered from accepts it
\* (integrationSnapshotLocked, integrations.go:62-79, compares the hashes).
AppliedIsPersisted ==
  \A n \in Names : Stateful(n) =>
     /\ n \in NamesIn(persisted)
     /\ node[n].def = NodeIn(persisted, n)
     /\ node[n].env = Envelope(persisted)

\* No two nodes are ever given one management port, although ports are chosen
\* by probing, nodes change their place in the inventory, and busy ports move
\* (materializeMissingNodePorts and repairManagementPort).
PortsDistinct ==
  \A m, n \in Names : m # n /\ Stateful(m) /\ Stateful(n) => node[m].ssh # node[n].ssh

\* What the drift check lets pass and the commit of another node's creation
\* does not: a node with state whose disk is "auto" on one side only, and an
\* applied node without state that is gone from the inventory.
LetPass(spec) ==
  \/ \E n \in NamesIn(persisted) \cap NamesIn(spec) :
       /\ Stateful(n) /\ NodeIn(persisted, n) # NodeIn(spec, n)
       /\ "auto" \in {NodeIn(persisted, n).disk, NodeIn(spec, n).disk}
  \/ \E n \in NamesIn(persisted) \ NamesIn(spec) : ~Stateful(n)

\* Once reload has stopped nodes or recreate has destroyed their disks, the up
\* that follows is not refused by drift, accelerator or boot mode, which are
\* settled before the first mutation, and it is refused by the commit
\* (additiveResolvedChange, commit.go:44-71) in two situations only: while
\* LetPass.  In those the code does destroy first and refuse later, although
\* manager.go:1386-1388 and destroy.go:366-367 say that every refusal precedes
\* the first mutation.
RefusesBeforeMutation ==
  job.step = "up" /\ job.by # "user" =>
    /\ ~RefusesAtOnce(job.spec, job.sel)
    /\ UpRefuses(job.spec, job.sel) => LetPass(job.spec)

\* What plan shows as appliable by up, up does not refuse for drift; the same
\* two situations apart, in which plan announces "converge" and up is refused
\* when the new nodes are committed (Plan, plan.go; commit.go:87-89).
PlanIsHonest ==
  \A sel \in SUBSET Names :
     /\ wanted # Rejected /\ sel \subseteq NamesIn(wanted)
     /\ PlanAction(wanted, sel) \in {"create", "converge", "start", "none"} /\ ~Blocked(wanted, sel)
     /\ Supported(wanted)
     => ~RefusesAtOnce(wanted, sel) /\ (UpRefuses(wanted, sel) => LetPass(wanted))

\* An inventory that is accepted can be planned, and its names can be written
\* to the hosts file if every alias has the syntax asked for there, which is
\* all that Validate leaves open: its pattern of an alias (file.go:133, 314) is
\* wider than the one of the hosts file (hostconfig.go:148-158).  Its other
\* checks cover those of validateResolved (plan.go) and validateEntries.
AcceptedIsUsable ==
  wanted # Rejected =>
    /\ Plannable(wanted)
    /\ Publishable(wanted) <=> \A d \in Range(wanted.nodes) : d.aliases \subseteq HostSyntax

\* The settings of a host do not depend on the order in which the inventory
\* lists its groups (lookup, inventory.go): only the default control node may.
OrderDoesNotMatter ==
  LET settings(spec) == {[d EXCEPT !.control = FALSE] : d \in Range(spec.nodes)}
  IN settings(wanted) = settings(Resolved[Twin[desired]])

\* README.md:28-29: removing a host from the file never destroys a machine;
\* deletion is always an explicit `farrow destroy`.
AbsenceNeverDestroys ==
  [][\A sel \in SUBSET Names : Recreate(sel) =>
        \A n \in Names \ NamesIn(wanted) : Stateful(n) => Stateful(n)']_vars
=============================================================================
