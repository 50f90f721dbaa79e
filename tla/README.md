# Farrow in TLA+

Farrow runs small deployments of QEMU virtual machines on one host.  It has no
daemon: every command reads the state on disk, takes file locks, changes
processes and files, and exits, and any command can be killed between two of
its steps.  What is hard about it is therefore not one long-running algorithm
but the files, processes and locks that short-lived commands leave to each
other, to other users of the host, and to the next release of farrow.  These
modules model that: the process control of one QEMU, the lifecycle of a
deployment, the files of its nodes with the store of retained disks, the image
cache and the registry of image catalogs that all deployments share, the way
from an edited inventory to a plan and what the commands make of it, and what
farrow changes on the host itself, the private network and the files that name
the nodes.

All paths below are relative to the repository (`src/` in `PROJECT.json`).

## Components of the system

| Part | State | Operations | What is hard | What makes it correct |
|---|---|---|---|---|
| QEMU process control (`internal/vm`, `process`, `qmp`) | PID, pidfile, QMP socket, recorded identity | launch, abort, powerdown, quit, SIGTERM, SIGKILL | PIDs are reused, monitors hang, socket paths are shared, contexts end | only our QEMU is touched; success means it is dead; every command returns |
| Deployment lifecycle (`internal/private` manager, start, stop, audit, destroy) | `state.json` of each node: phase and process identity; runtime directory | status, start, stop, destroy, up, restart, recreate | kill at any step, launches that come up late, a second data root in the same runtime directory | the phase on disk is never wrong about a live QEMU; at most one QEMU per node; interrupted transitions converge |
| Node files (`internal/private` prepare, commit, rollback, destroy; `fsutil`) | node directory, prepare journal, state document, deployment document | prepare, commit, finalize, rollback, destroy | kill at any step, rollback outside the lock, decisions from unlocked reads | a committed node is complete; rollback never touches one; destroy announces itself first |
| Retained-disk store (`internal/persistent`) | disk, marker and directories per persistent disk | preserve, find, inventory, delete all | rename and marker are two steps | guest data survives everything but purge; a node boots from its own data |
| Image cache (`internal/image` store, recovery, prune, local, service) | cached images, staging files, quarantined files, local aliases; three locks | pull, import, prune, quarantine | references resolved under one lock, deletion under another; resumed downloads; retries and fallbacks | a cached image is what its digest says; no image a node uses is removed |
| Image catalog (`internal/image` manifest, catalog, reference, repo, session) | per repository: catalogs, signatures, the active one, high-water mark | sync, update, reset, read, build a repository | verify before lock, several files per update, downgrade, two releases of farrow, version keys that rank alike | no rollback without permission; the pointer is readable; every accepted reference has one meaning |
| Linux network (`internal/network/linux`) | systemd-networkd or NetworkManager files, bridge, helper mode, manifest | plan, install, roll back, uninstall | a dozen privileged steps, each may fail, reboots in between | removal gives back what install found |
| macOS network (`internal/network/darwin`) | socket_vmnet service, its files, the name of its interface | install, repair, uninstall | as above; launchd restarts the daemon under another name | as above; a repair does not disconnect VMs for nothing |
| Network preflight (`internal/network/preflight`) | - | probe, evaluate, offer a repair | sees less than the installer | what it offers is accepted; what is installed passes it |
| Host integrations (`internal/hostconfig`, `sshconfig`, `private/integrations`) | `/etc/hosts` block, SSH fragment and Include | install, remove | other programs edit the same files; commands overlap | only Farrow's own block changes; aliases name what exists |
| Configuration (`internal/config`) | - | read an inventory, resolve it, validate | variables of several groups, defaults, names | the order of groups does not matter; what is accepted is usable |
| Change planning and ports (`private/plan`, `manager`, `port_recovery`, `portalloc`) | resolved and applied specification, port of each node | plan, up, reload, recreate, destroy | the inventory changes under the applied state; commands fail half way | each node is recorded as it was made; ports are distinct; refusals come first |
| Guest setup (`internal/cloudinit`, `provision`, `private/guest_*`, `seed`) | seed image, marker in the guest | render, wait for readiness | stale markers, timeouts | ready means this instance is ready |
| Disks, QEMU arguments, keys, setup, doctor, diagnostics, command line, packaging | - | tools and reports around the above | mostly input and output | - |

How they interact: a command of `cmd/farrow` reads the inventory and builds a
`private.Manager`; the manager takes the allocator lock (only `up`) and the
deployment lock, resolves images through the active catalog and `image.Store`
(images lock), prepares node files, starts QEMU through `vm.Lifecycle`, and
writes the outcome to `state.json`.  The command line then brings the SSH files
up to date.  The private network is installed once, by `setup`, and probed
before nodes start.  The documents on disk are the only memory between
commands.  QEMU, the kernel, the guest, launchd, the administrator and other
data roots act on their own at any time.

## Modules

| Module | Models | Role |
|---|---|---|
| `QemuProcess` | `vm/lifecycle.go` with `process/identity.go`, `qmp/qmp.go` | one launch, compensation or stop against a hostile host |
| `Deployment` | `private/manager.go` (status), `start.go`, `stop.go`, `audit.go`, `destroy.go` | sessions on recorded phases, live QEMUs and runtime directories |
| `NodeArtifacts` | `private/prepare.go`, `commit.go`, `controller.go`, `rollback.go`, `destroy.go`, `persistent.go`, `persistent/store.go`, `fsutil/atomic.go` | every file-system step of up, rollback, destroy and purge |
| `NodeContract` | | abstract: what the files promise; `NodeArtifacts` refines it |
| `ImageStore` | `image/store.go`, `recovery.go`, `prune.go`, `local.go`, `service.go`, `lock/flock.go` | commands on the image cache next to the creation of nodes, under two of the locks |
| `CatalogResolution` | `image/catalog.go`, `reference.go` | which catalogs are accepted and what a reference means, against a reference definition |
| `CatalogManifest` | `image/manifest_store.go`, `manifest.go`, `catalog_session.go`, commands of `service.go` | the registry of active catalogs: overlapping commands of several releases |
| `CatalogRepo` | `image/repo.go` | extends it by the publishing side of a custom repository |
| `CatalogContract` | | abstract: a mark per repository that never falls; `CatalogRepo` refines it |
| `Inventory` | `config/inventory.go`, `file.go` | from the groups and variables of an inventory to a specification |
| `Convergence` | `private/plan.go`, `manager.go`, `commit.go`, `destroy.go`, `port_recovery.go`, `portalloc/ports.go` | extends it by what the commands change on that basis |
| `LinuxNetwork`, `DarwinNetwork` | `network/linux`, `network/darwin` | the installers as sequences of privileged commands |
| `NetworkPreflight` | `network/preflight/preflight.go` | the report on a snapshot of the host |
| `HostNetwork` | `network/preflight/probe.go`, `cmd/farrow/setup.go`, `main.go` | composes the three: what the probe sees of the installers' work, and the commands that use it |
| `HostFiles` | `hostconfig/hostconfig.go`, `sshconfig/sshconfig.go`, `private/integrations.go`, `cmd/farrow/main.go`, `lifecycle_integrations.go` | `/etc/hosts` and the SSH files under overlapping commands |
| `Host` | | both of the above in one specification |
| `QemuProcessProofs`, `DeploymentProofs`, `NodeArtifactsProofs`, `ImageStoreProofs`, `CatalogProofs`, `ConvergenceProofs`, `HostNetworkProofs`, `HostProofs` | | theorems about the module, or modules, they extend |
| `MCQemuProcess`, `MCDeployment`, `MCNodeArtifacts`, `MCImageStore`, `MCCatalog`, `MCConvergence`, `MCHost` | | instances for TLC |

`QemuProcess`, `Deployment` and `NodeArtifacts` look at one command at three
scales.  `Deployment` takes the launch, the abort and the stop of a QEMU as
single steps with the outcomes that `QemuProcess` shows: a stop reports success
only if the identified QEMU is gone (`SuccessMeansDead`), an abort can fail and
leave the QEMU.  It takes preparing and removing a node's files as single steps
whose details are `NodeArtifacts`, and `NodeArtifacts` in turn keeps only the
part of the lifecycle that decides what may be done to files: a phase, and
whether a guest has written to its disk.  `Convergence` is a fourth scale, on
which a command is one or two steps and what counts is the definitions.

### QemuProcess

One command, `op`, is at step `pc`.  The host is reduced to what the command
can observe: who holds the PID (`occupant`), who answers on the socket
(`endpoint`), how far the pidfile got, whether QEMU is bound to exit
(`doomed`).  Each `ValidateIdentity`, QMP request, signal and wait of the code
is one step, so the host can change between any two.  `why` remembers how the
last query failed, which is what `stopWithSignals` is later justified by.
`touched` collects whom a powerdown, a quit or a signal reached.

The kernel offers no way to signal a process on the condition that it is still
the same one (the code uses no pidfd), so between the last identity check and
the `kill` or the `write` that follows it the PID or the socket can change
hands in principle.  `RaceAtSend` says whether the model allows that.  The run
and `OnlyOurs` assume `FALSE`: what they show is that every *wait* of the code
is followed by a fresh check, which is what the code can do.  The other theorems
hold for both values.

### Deployment

A session is what one command does while it holds the deployment lock.  `w[n]`
is its next step on node `n`; workers of one session work on several nodes in
parallel, and barriers of the code (all nodes marked `starting` before the
first launch; all nodes checked before a destroy changes one) are guards
(`Past`).  `Killed` ends a session anywhere, and stands for a failed write or a
cancelled context as well.  A launch that was under way when its command was
killed may still come up (`late`).  `Reboot` ends everything.

The runtime directory depends on the node's name and not on the data root, so a
node of the same name under another `FARROW_HOME` can use it (`rt[n] =
"foreign"`).  A QEMU, or the host under it, can die after the pidfile was
created and before it was filled (`"torn"`).  The audit then reports an error,
not a dead QEMU (`audit.go` 118-128); `Stuck` says when that is for good.

`checkRuntimeUnused` and the unlinking that follows it (`stop.go` 71-101) are
two steps.  A QEMU that creates its pidfile in between is deprived of its
files.  `Races` says whether the model allows that; all results about
`Deployment` are for `Races = FALSE`.  With `TRUE`, TLC finds `StoppedIsOff`,
`RuntimeKept` and the others violated, so the assumption is needed: it is the
one gap in the argument that the code leaves open.

### NodeArtifacts

`files[n]` is the content of a node's directory, `journal[n]` that of the
prepare journal, `store[n]` how far the node's entry of the retained store got.
A file is written through a temporary name (`fsutil.AtomicWrite`, the disk
tools): a kill in such a step may leave `"temp"`.  The deployment lock is
`command`; the rollbacks `up --rollback` runs after it returned the lock are
`lane`.  `up` decides from what it read before it had the lock, so `UpBegin`
takes any request and any part of it to create; the guards of `Mkdir`,
`CommitDocument` and `CommitState` are what keeps that harmless.  The store is
deleted only when no node directory is left; a rollback still on its way then
finds nothing to do.

A root disk, one data disk and a seed stand for all artifacts of a node.  The
UEFI variables, the logs and the SSH key are created and removed in the same
way as the seed.

`NodeContract` is the promise in five lines: a node is committed out of an
unfinished directory, dismantled only after it was announced, and guest data
disappears only when no node exists.  `Contract` is that refinement.

### ImageStore

`at[p]` is the next step of command `p`, `job[p]` the image it works on.  A slot
is a path of the cache.  The content of a file is the digest it has, or `Junk`;
the content of the resumable download of a digest is what matters to the next
try: nothing, a part, all of it right or wrong, or all of it already made
immutable (`sealed`).  `images.lock` and `allocator.lock` are taken and given
back where the code does it, and each wait can run out; a killed command frees
its locks, as `flock` does.  What a command reads before a lock stays in `job`
(the catalog entry) or `refs` (the digests prune found to be in use), and may be
out of date when it is used.

Creating a node is reduced to what concerns the image: it is resolved without a
lock, the node directory exists without a state document for a while
(`unfinished`, which makes prune and quarantine refuse), the overlay is made on
the path, the node is recorded.  The rest is `NodeArtifacts`.  A change of the
catalog, damage to a file and the removal of a node are steps of the
environment.

Left out: file permissions (a writable file that verifies is repaired in the
step that checks the cache), the inspection by `qemu-img`, sizes, and the copies
from a local repository, which are not resumable and have names of their own.

### CatalogResolution, CatalogManifest, CatalogRepo

A version key is the sequence of its components as they are written; `Number`
gives the value of one.  `Valid` is `Catalog.Validate`, `Resolve` what the code
computes for a reference, by prefix, ranking and alias.  `AcceptedResolves`
quantifies over all drafts of the instance and holds in one state as in all;
the state of the catalog commands is not involved.

The registry has two slots, the official and the custom repository.  A command
(`pc[p]`, `job[p]`) verifies its catalog without a lock, takes `manifest.lock`,
judges the catalog against the slot, and writes the catalog, the signature and
the registry, one step each, killed anywhere.  Commands carry the release they
were started from, whose catalog is compiled into it; installing a newer
release leaves running ones alone.  `Current`, with which every image command
begins, reads the pointer first and the files later, under no lock.
`CatalogRepo` adds the author of a custom repository, who changes the artifacts
at any time and publishes what `MayReplace` permits.

`CatalogContract` keeps, per slot, the mark and the active revision.

### Inventory, Convergence

YAML is abstracted: an inventory is its groups in the order of the document
with variables and hosts.  Which of several values of a variable wins, the
default control node, implied names, the pairs that must not collide, and the
checks of `validateResolved` and `validateEntries` on what was accepted are
translated for nine variables that stand for the rest.  Names are opaque, and
their syntax is what three checks make of it: `LabelSyntax` for host names,
`AliasSyntax` for aliases in the file, `HostSyntax` for names in the hosts file.
The second is wider than the third, which `AcceptedIsUsable` says.

In `Convergence` commands run one at a time (overlap is the matter of
`Deployment` and `NodeArtifacts`), and each may fail on any subset of its nodes.
`reload` and `recreate` are two steps, since the `up` in them begins anew:
anything may happen to ports between the two, or the command may end.  The
inventory may be rewritten between any two commands.  `up` refuses at two
points, `RefusesAtOnce` (drift, accelerator, boot mode) and, when its new nodes
are prepared, at the commit (`Committable`), which compares the definitions by
`reflect.DeepEqual` where the drift check takes a disk of `auto` for one of any
file system; `UpRefuses` is both.  `RefusesBeforeMutation` and `PlanIsHonest`
are about both, and `LetPass` names the two situations in which the second is
not seen beforehand; the run reaches both, after `recreate` as after `reload`.

### LinuxNetwork, DarwinNetwork, NetworkPreflight, HostNetwork

An installer computes a list of steps from what it finds (`job`, `task`) and
executes one privileged command after the other; each can fail, a kill or a
reboot can come between two or in the middle of writing a file (`torn`).  A
failed activation is rolled back by the code's own list of steps.  `before`
remembers what the first install found, `report` and `outcome` what a command
told its user.  A repair on a Mac is a preflight that says whether to restart,
the log directory, and a second look at the interface and the socket (`Choose`),
with launchd at work between them.  `HostNetwork` takes a snapshot of that state
as the probe of an ordinary user would, who cannot see the manifest, evaluates
it, and lets `setup`, `network install` and `network uninstall` act on the
report.

### HostFiles

`run[c]` is what command `c` is about.  The plan of `/etc/hosts` is made, then
compared with the file twice, then renamed into place; in between others edit.
The SSH files are read, and what differs is written in the order of the code.
`raced` and `disturbed` are history: an edit in the one gap the code cannot
close, and two writers of the SSH files at once, which no lock prevents.

`Host` puts both into one specification.  They share no state, so a behaviour
follows one of them (`part`); following both at once would multiply the states
and show nothing more.  For the same reason the SSH part refuses (a foreign
fragment) while the hosts commands are followed.

## Runs

| Run | Instance | Shows |
|---|---|---|
| `qemu_process` | launch, compensation, stop; 3,005 states | `SuccessMeansDead`, `OnlyOurQemuTouched`, `SignalsNeedSilentMonitor`, `CommandReturns` |
| `deployment` | two nodes, up to two QEMUs per node; 162,567 states | `StoppedIsOff`, `AtMostOneQemu`, `RuntimeKept`, `LiveIsIdentified`, `ForeignRuntimeUntouched`, `Converges` |
| `node_artifacts` | one persistent and one plain node; 1.7 million states | `CommittedIsComplete`, `PersistentDataKept`, `BootsItsOwnData`, `Contract` |
| `image_store` | two commands, one node, one catalog path, one local path, two digests; 2.1 million states | `ServedIsVerified`, `QuarantineSparesBases`, `AliasedImageKept` |
| `image_pull` | two commands, one node, one path, two sources and two tries each; 18,288 states | `OperationsEnd`, `CacheRecovers` |
| `catalog` | two commands at a time and three in all, two releases, four catalogs; 1.5 million states | `PointerIsComplete`, `UpdatesGoThrough`, `ResetRecovers`, `ImplementsContract`, and `AcceptedResolves` over 2,048 drafts |
| `planning` | nine inventories of three hosts, five ports; 106,632 states | `AppliedIsPersisted`, `PortsDistinct`, `RefusesBeforeMutation`, `PlanIsHonest`, `AcceptedIsUsable`, `OrderDoesNotMatter` |
| `host` | five Linux hosts and a Mac; two commands and two nodes for the files; 1.4 million states | `RemovalRestores`, `RepairIsAccepted`, `InstalledIsVerified`, `RepairSparesVMs`, `OutsideKept`, `AliasesCurrent`, `IncludeResolves` |
| `image_in_use` | as `image_store` | prune removes the base of a node created meanwhile |
| `node_journal` | as `node_artifacts` | the fix that doctor names for a pending journal is refused |
| `absence` | as `planning` | a recreate destroys a machine that left the inventory |
| `way_out` | as `host` | an interrupted install that nothing accepts any more |

Bounds.  `QemuProcess` has none: its state is finite.  In `Deployment` and
`NodeArtifacts` nodes influence each other only through the lock, the barriers
of a session, the deployment document and the inventory of the store (one bad
entry blocks all), and two nodes exercise each of these.  `MaxQemus = 2` is one
more than is ever allowed, so that `AtMostOneQemu` can fail; the proofs hold
for any number.  In `ImageStore`, `May` says which commands each process runs:
`image_store` has creation and prune against pull, import and prune, so that
each pair that can meet outside a common lock does, and two digests, so that a
path of the catalog can change its meaning; since the digests are
interchangeable, it uses them as symmetric.  Sources and tries matter to the
liveness properties, and `image_pull` has two of each (the code has at most two
sources and three tries).  In `NodeArtifacts` one node is persistent and one is
not, since the code paths differ.

`catalog` has two processes because one lock separates writers and the only
unlocked phases are the verification and `Current`; `Commands = 3` lets a third
command find what two left, and a release be installed under both.  The version
keys are chosen so that each comparison of the code decides something: a prefix,
equal values written differently, a longer key, two digits against one, a key
with a letter.  Symmetry of the processes is used in a run whose temporal
properties are step properties and refinements of a specification without
fairness.  `planning`: each inventory differs from the base by one kind of edit
(one of them has an alias that the hosts file refuses), and ports can be free,
taken for one node, or all taken; five ports are the candidates of one family.
`host`: each Linux host differs in what the installer finds (backend, package
mode or restricted helper, directories, an own `bridge.conf`, units enabled,
active, or not), two foreign configurations and two routes decide the refusals,
and two interface names are enough for a daemon that comes back under another.

Deadlock is checked for `ImageStore`, where commands hold several locks, for the
catalog and for `Convergence`.  It is not for the other modules: a command that
has returned, and a host on which nobody runs a command, may rest.

Fairness.  `QemuProcess`: the command takes its next step (every wait in
`lifecycle.go` has a timer) and a QEMU that lost its launcher or got SIGKILL
exits.  `Deployment`: a session that holds the lock goes on (its waits are the
ones shown to end in `CommandReturns`); somebody runs `status` on all nodes and
`stop` on each node to which it applies again and again, which is the procedure
the error messages of the code ask for.  These two are strongly fair because
another session may hold the lock at any moment; the lock itself is polled
(`flock.go`).  `Converges` in addition assumes `calm`: from some time on no
crash, hang or foreign data root interferes.  Without it nothing could be
promised, since a hung QEMU with a lost record can only be ended by hand.  It
leaves out `Stuck`, a node without a recorded process whose pidfile is torn:
`status` changes nothing there for ever (see the divergences).
`ImageStore`: a command goes on when it can, a polled lock included, and
`CacheRecovers` assumes that somebody pulls again and again and, after `calm`,
that the source is right.  The other modules state no fairness.

### What the violated runs show

* `image_in_use`.  `up` is handed an image, the catalog drops it, prune reads the
  references (no catalog entry, no node yet) and gives the allocator lock back,
  the node is created and committed, and prune removes the file its overlay is
  on.  `cmd/farrow/images.go:30` says that prune "never deletes a base image in
  use".
* `node_journal`.  `WriteNode`, the `committed` flag and the removal of the
  journal are three steps.  If the command stops between them, the node is
  complete and startable but carries a journal.  `privateNodeTargets` refuses
  the unexpected file, so `recreate --force`, which
  `internal/doctor/project.go:69` recommends for this state, fails, and so does
  the rollback.
* `absence`.  `recreate` without names destroys every applied node, also one
  that was taken out of the inventory, and the `up` that follows does not bring
  it back.  `README.md:28` promises that removing a host from the file never
  destroys a machine.
* `way_out`.  The Linux installer writes the manifest first.  Killed while it
  places the other files, or failing there (only a failed *activation* is rolled
  back), it leaves a recorded installation with files missing: `uninstall`
  refuses because an owned file is not as recorded, `setup` and `install`
  because the preflight calls it partial and not repairable.

### Divergences and gaps met on the way, without a run

They are excluded by name in the property that meets them, or below its level.

* macOS: a kill between the two interface markers that `Repair` writes leaves
  twins that differ; the preflight still offers a repair, which `readInstalled`
  refuses, as `uninstall` does.  A kill right after `/var/lib/farrow` was made
  leaves install and uninstall both refusing.  A service that launchd still had
  from a failed rollback (`task.stale`) is left out of `RemovalRestores`.  A
  service that was down for the preflight and is up again when the repair gets to
  it is restarted all the same, since the report asked for it
  (`RepairSparesVMs` is about repairs that did not).
* Linux: a Debian helper that already had the restricted mode without an
  override is accepted by install and called invalid by the preflight (left out
  of `InstalledIsVerified`).  A manifest torn in a re-install is refused by
  repair and uninstall (left out of `RepairIsAccepted`).  An edit of
  `bridge.conf` between two installs is lost by the uninstall.  An uninstall asks
  `ip link` for the members of `farrow0` (`executor.go` 360-363) and therefore
  fails while the bridge is down.
* The disk of a host goes from `auto` to `xfs`, or back.  The drift check calls
  that no change, the commit calls it one (`commit.go` 66-71).  A `recreate` of
  another host destroys that one's disk, or a `reload` stops the nodes, and the
  `up` in it is refused; `plan` announces "converge" for a new host and `up`
  refuses it.  The same happens when a host whose node was destroyed leaves the
  file.  `destroy.go` 366-367 and `manager.go` 1386-1388 say that every refusal
  comes before the first mutation.  `LetPass` leaves both out of
  `RefusesBeforeMutation` and `PlanIsHonest`.
* A QEMU that dies between creating and filling its pidfile, before the start
  recorded its process, leaves a `starting` node that `status` answers with an
  error (`audit.go` 118-128), `stop` refuses with the advice to run `farrow
  status` to converge it (`stop.go` 123-129), and `start` and `destroy` refuse
  for its phase: it has to be mended by hand (`Stuck`, left out of `Converges`).
* `dnsName` (`file.go` 133, 314) accepts aliases such as `a-.b`, or with a label of
  more than 63 characters, that `validHostName` (`hostconfig.go` 148-158) refuses,
  so that such an inventory is applied and its names are never published.
* Destroying nodes one by one: `destroyLeavesDeploymentNodes` counts the nodes
  the *state* lists, which a destroyed node stays in, so the last one destroyed
  by name asks for an update of the SSH files instead of their removal; it ends
  in a warning and the fragment keeps the last aliases.  Two lifecycle commands
  at once may write the older snapshot last, or leave an Include without its
  fragment, which OpenSSH ignores (`disturbed`).
* A group met on several paths is to count once.  `dedupeVarSources`
  (`inventory.go:612`) recognises it by name and depth, so two groups that only
  share those are taken for one: a host listed in both silently gets the values
  of the first, where `inventory.go:54` calls two values at one depth a conflict
  for the user to resolve.  `TwinAssumption` leaves it out of
  `OrderDoesNotMatter`.
* An upper-case alias passes `Catalog.Validate`, which lowers it, and never
  matches a reference; one key with a letter below a numeric prefix makes this
  prefix unresolvable.
* `Preserve` moves the disk before it publishes the marker.  After a kill
  between the two, `Inventory` refuses the store, and with it `up` and `destroy`
  of every node, until it is mended by hand; no data is lost
  (`PersistentDataKept`).  An interrupted destroy is shown as `stopped` by the
  next status; its `start` fails on the missing root disk.

## Proofs

TLAPS checks eight modules of theorems.  Each has an inductive invariant
`Inv`, a lemma per action or group of actions, and the properties as
consequences; all hold for any values of the constants that satisfy the
assumptions the modules name.

* `QemuProcess`: `Inv` adds to the type invariant what each step knows:
  `IdentityByStep` (which steps have a recorded identity, and that the start's
  steps and the blind abort have none) and `CauseByStep` (behind `stopWithSignals`
  the last query failed with a live context).  `SuccessMeansDead` is not
  inductive alone: the successes `ok` out of a wait need to know that the PID is
  free, and those after a failed query that no identity was known.  `OnlyOurs`
  adds `FreshAtSend`: at each step that sends, the addressee is still the one
  that was just checked; this is where `~RaceAtSend` is used.
* `Deployment`: `Inv` is `TypeOK` and, for each node, `StepPhase` (which phase
  is on disk at which step of a session), `StepQemu` (where a QEMU can be
  running), `Record` (what the recorded identity says of it) and `Runtime` (a live
  QEMU owns the directory; a launch under way has an empty one or none).  The
  five safety properties need each other: `AtMostOneQemu` follows because a
  launch requires an empty directory and a live QEMU keeps its files, and
  files are removed only after an audit that would have seen the QEMU.  The
  theorems assume `~Races`.
* `NodeArtifacts`: `Owned` and `Placed` say who works on a node and what the
  step it is at implies about its directory and phase: a step that takes files
  away is reached only on a node that is not committed, or on one already
  recorded as `destroying`.  `Made` follows a prepare from file to file, `Moving`
  the disk through the store, `Located` says where a disk and its data can be.
  `Complete` and `Kept`, the properties, follow, and so does the refinement: each
  file-system step is a step of `NodeContract` or a stutter.  A step touches one
  node (`Only`), and the lemma `Others` keeps the invariant of the rest.
* `ImageStore`: `Tasked` (what a command was started for), `Locked` (which lock
  each step is taken under) and `Checked` (what was read under the lock and is
  relied on later: the sealed download, the bases of the nodes, the aliases).
  The lemmas on steps that change files or nodes show that whoever could make a
  `Checked` fact false would have to hold the same lock.
* `CatalogManifest` with `CatalogRepo`: `Pending` says that between the
  judgement of a catalog and the write of the registry the process holds the
  lock, and the verdict is still about what is there; `Written` that the files
  come before the pointer; `Newest` and `Remembered` tie the published
  repository to what clients accepted.  `CatalogAssumption` asks of the constants
  that revisions are positive numbers and the built-in catalog of every release
  is a catalog.
* `CatalogResolution`: the comparison of version keys is an order (`NewerTotal`,
  `NewerOnce`, `NewerTransitive`; keys that it cannot tell apart have one
  canonical key, which is what `Validate` compares), so of the finitely many
  releases that match a selector one is the newest (`NewestExists`), and where
  `Rank` is defined it is the same order.  With that, a valid catalog is `Clear`.
  `Vetted` says that only validated catalogs are published, on their way or
  active.  `DraftsAssumption` asks for what JSON and `ToLower` give (finitely many
  versions, no empty name or key, one lowered form of an alias),
  `ContentAssumption` that the built-in catalogs are valid, or farrow would panic
  (`EmbeddedCatalog`, `manifest.go:50`).
* `Convergence`, two invariants.  `Inv` is about refusals: a `reload` only stops
  nodes, and a `recreate` destroys what it compared or everything, so fewer
  documents remain and none of them differs more (`Fewer`, `FewerDrift`); no
  other command begins before the `up` that follows, which is therefore not
  refused at once (`Unrefused`).  What the commit may refuse then, the lemma
  `CommitRefusal` finds: two definitions that differ and do not drift differ in a
  disk of `auto`.  `PlanIsHonest` is a fact about the two comparisons, in
  any state.
  `Applied` is about what is on disk: `Wellformed` (the applied specification
  names its nodes apart, and is one that resolution accepted or what a destroy
  left of one), `Belong` (every node with files is in it, with that definition
  and envelope), `Distinct` (no port twice) and `Planned` (the job that runs holds
  an accepted specification and names of it).  `AppliedIsPersisted` and
  `PortsDistinct` need each other's parts: ports are reserved for the nodes of
  the applied specification, so one outside it would not be seen.
  Ports are given out, and nodes filtered, one after the other.  A sequence of
  intermediate results (`Gives`, `Kept`) takes the place of the recursion, each
  step is shown to keep what matters (`ApartStep`, `KeptStep`), and the last
  result has it by induction over the number of steps, whose existence is
  proved once (`Recursion`, from `WellFoundedInduction`).
* `Inventory`: resolution is a function of the document, and what is proved of
  it is proved of any document.  `AcceptedResolved` compares the three checks;
  `SyntaxAssumption` says that a label is a name in each of the three syntaxes.
  For the order of the groups, a reordering is a map from the groups of one
  document onto those of the other; depth, ancestors and listings move with
  it (`TreeRecursion` for the two that recurse through parents), so the layers of
  a host are the same up to their places (`Layer`), and so are all values,
  names and refusals.  The managed hosts are the same set in another order
  (`ManagedAre`), which no check depends on (`ValidIs`).  `InventoriesAssumption`
  asks that a group comes after its parent and lists a host once, which a YAML
  mapping gives.  `TwinAssumption` asks that groups of one name are one group, as
  the same group written under several parents is: without that the theorem is
  false (see the divergences above).
* `Host`: `Planned` (a plan of `/etc/hosts` changes the block only, and at the
  rename it was made from the text that is there), `Alone` (a writer of the SSH
  files that was never overlapped is the only one) and `Fitting` (what such a
  writer was told and has still to write is right for the nodes there are).
  That nodes are finitely many (`NodesAssumption`) is needed where the code counts
  them to find out whether a destroy leaves any.
* `HostNetwork`: a command is a list of steps that shrinks from the front, fails
  or is killed anywhere, and can be turned into a rollback.  An invariant that
  said what holds at which step would be as long as the plans.  Instead, for
  each thing a command is to bring about, `Secured` says that it is there and no
  step that undoes it is left, or that a step that brings it about is still to
  come; `Ordered` says which steps come only after which.  Both survive the
  removal of the first step, so that only the lists as they are planned have to
  be looked at, and the end of a list (no step left) gives the property.
  `LinuxInv` adds `Owned` and `Recorded`: nothing of farrow's is on a host without
  a manifest that remembers it, and the manifest remembers the host as the first
  install found it (`before`), whichever commands were cut short since.
  `MacInv` says of a removal that a step is left for all that is still there
  (`Leftovers`), of an install that its rollback knows what was made, and of a
  repair that has not yet chosen that only the log directory is before it
  (`MacChoosing`).
  `HostsAssumption` asks that the hosts have the fields of the record
  `HostStates`, that none of them has anything of farrow's yet, and that where
  NetworkManager runs, the networkd units are as the next boot will have them
  (its backend never touches them, so nothing would restore them).  The theorems
  hold of the composed host by `NetworkOfTheHost`.

Attempts at these proofs showed definitions whose `CASE` arms overlapped
(`HelperAccepted`, `InstallationFindings`, the steps of both installers and of
the image store).  TLC takes the first arm that applies, the language any; they
are now written with arms that exclude each other, in the order of the code.

Attempts at the proofs of `Inventory` corrected the model: a source without
variables is none and does not hide a later one of its name, sources at the
level of a host are deduplicated by the name of the group as well, and hosts
are managed in the order of the document by their rank in it.

Only model-checked: liveness (`CommandReturns`, `Converges`, `OperationsEnd`,
`CacheRecovers`), which is outside what TLAPS does.  Every other property of the
passing runs is a theorem.

## Not modelled

Rendering of cloud-init and QEMU arguments, parsing of YAML and of sizes,
output, packaging, the catalog tools and the read-only reports keep no state
another command depends on.  Readiness of a guest is a polling loop whose outcome
is the guest's; `Deployment` has success and failure of it as steps.  Keys are
generated and removed under the deployment lock and nothing else depends on
them.  The download cache of `setup` works like the image cache.  The command line
asks for confirmation and selects nodes; the models take any selection.
Validation of the JSON documents is left out: a document that was tampered
with is refused before anything modelled here runs.  Signatures are taken as
verified or not, and the exact bytes of pinned files as there or torn.

A damaged base image that quarantine spares is removed by the next prune, and a
temporary file left by a kill makes rollback and destroy refuse the directory;
no document promises otherwise, so there is a note in the list of hazards and no
property.
