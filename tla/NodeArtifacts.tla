--------------------------- MODULE NodeArtifacts ---------------------------
(***************************************************************************)
(* The files of a node and the retained-disk store: how `up` prepares,     *)
(* commits and finalizes node directories, how an unfinished prepare is    *)
(* rolled back, how destroy preserves persistent disks and removes the     *)
(* rest, and how `purge` deletes the store.  Every file-system effect is a *)
(* step, and the command can be killed or fail between any two.            *)
(*                                                                         *)
(* Commands exclude each other through the deployment lock, except for the *)
(* requested rollback of failed prepares, which `up` runs after it gave    *)
(* that lock back (the lane, guarded by the allocator lock only).          *)
(*                                                                         *)
(* Each node has a root disk, one data disk and a seed; the UEFI variables *)
(* and the logs, created and removed the same way, are left out.           *)
(***************************************************************************)
EXTENDS FiniteSets

CONSTANTS
    Node,
    Persistent   \* the nodes whose data disk is declared persistent

ASSUME PersistentAssumption == Persistent \subseteq Node

VARIABLES
    dirs,      \* nodes whose directory exists
    files,     \* files[n]: what the directory holds
    journal,   \* journal[n]: contents of private-prepare.json
    phase,     \* phase[n]: the phase in state.json
    disk,      \* disk[n]: where state.json says the data disk is, "local" or "retained"
    store,     \* store[n]: the retained-disk directory of n's data disk
    written,   \* written[n]: where the data a guest wrote to n's persistent disk is
    declared,  \* nodes of the deployment document (empty: no document)
    command,   \* the command holding the deployment lock
    want,      \* the nodes the running command was asked for
    scope,     \* the nodes it works on
    at,        \* at[n]: its next step on n
    lane       \* failed prepares being rolled back after the lock was released

disks == <<dirs, files, journal, phase, disk, store, written>>
control == <<command, want, scope, at, lane>>
vars == <<dirs, files, journal, phase, disk, store, written, declared,
          command, want, scope, at, lane>>

Artifact == {"root", "data", "seed"}
NoJournal == [completed |-> {}, prepared |-> FALSE, committed |-> FALSE]

\* Steps of the prepare workers, of the commit, of a rollback, of a destroy
\* and of a store deletion.
PrepareSteps == {"mkdir", "journal", "root", "rootRec", "data", "dataRec",
                 "seed", "seedRec", "seal"}
CommitSteps == {"ready", "stated", "flagged", "final"}
UndoSteps == {"check", "undo", "undoDir"}
DestroySteps == {"mark", "marked", "preserve", "pDir", "pMove", "pMarker", "remove", "rmdir"}
DeleteSteps == {"dMarker", "dDir", "dDone", "dDisk"}

\* In these steps a file is being written through a temporary name.
Writing == {"journal", "root", "rootRec", "data", "dataRec", "seed", "seedRec",
            "seal", "ready", "stated", "mark"}

Committed(n) == "state" \in files[n]

\* persistent.Inventory: every entry of the store is complete.
InventoryOK == \A n \in Node : store[n] \in {"absent", "full"}

-----------------------------------------------------------------------------
(* RollbackPrepared.                                                       *)

Unrecorded(n) == files[n] \ (journal[n].completed \cup {"journal"})

RollbackAccepts(n) ==
    /\ n \in dirs /\ "journal" \in files[n]
    /\ ~journal[n].committed /\ ~Committed(n)
    /\ Unrecorded(n) = {}

\* Recorded artifacts go first, in reverse order, then the journal.
UndoFile(n) ==
    /\ at[n] = "undo"
    /\ LET left == files[n] \cap journal[n].completed
           last == IF "seed" \in left THEN "seed"
                   ELSE IF "data" \in left THEN "data"
                   ELSE IF "root" \in left THEN "root" ELSE "journal"
       IN  /\ files' = [files EXCEPT ![n] = @ \ {last}]
           /\ written' = IF last = "data" /\ written[n] = "local"
                         THEN [written EXCEPT ![n] = "lost"] ELSE written
           /\ journal' = IF last = "journal" THEN [journal EXCEPT ![n] = NoJournal] ELSE journal
           /\ at' = IF last = "journal" THEN [at EXCEPT ![n] = "undoDir"] ELSE at
    /\ UNCHANGED <<dirs, phase, disk, store, declared, command, want, scope, lane>>

\* The directory must be empty; a prepare worker then makes it anew.
UndoDir(n) ==
    /\ at[n] = "undoDir" /\ files[n] = {}
    /\ dirs' = dirs \ {n}
    /\ IF n \in lane
       THEN at' = [at EXCEPT ![n] = "idle"] /\ lane' = lane \ {n}
       ELSE at' = [at EXCEPT ![n] = "mkdir"] /\ UNCHANGED lane
    /\ UNCHANGED <<files, journal, phase, disk, store, written, declared, command, want, scope>>

\* The lane rolls its nodes back one at a time; the first refusal ends it.
LaneCheck(n) ==
    /\ at[n] = "check" /\ \A m \in lane : at[m] = "check"
    /\ IF RollbackAccepts(n)
       THEN at' = [at EXCEPT ![n] = "undo"] /\ UNCHANGED lane
       ELSE at' = [m \in Node |-> IF m \in lane THEN "idle" ELSE at[m]] /\ lane' = {}
    /\ UNCHANGED <<disks, declared, command, want, scope>>

LaneKilled ==
    /\ lane # {}
    /\ lane' = {}
    /\ at' = [m \in Node |-> IF m \in lane THEN "idle" ELSE at[m]]
    /\ UNCHANGED <<disks, declared, command, want, scope>>

-----------------------------------------------------------------------------
(* up: prepare, commit, finalize.                                          *)

\* The node lists were read before the locks were taken, so they may be stale:
\* any request, any part of it to create.  The allocator lock excludes a lane.
UpBegin ==
    /\ command = "none" /\ lane = {}
    /\ InventoryOK
    /\ \E R \in SUBSET Node, C \in SUBSET Node :
        /\ C # {} /\ C \subseteq R
        /\ \A n \in Persistent : store[n] = "full" => n \in R
        /\ command' = "up" /\ want' = R /\ scope' = C
        /\ at' = [n \in Node |-> IF n \in C THEN "mkdir" ELSE at[n]]
    /\ UNCHANGED <<disks, declared, lane>>

\* A directory that is already there is recovered through its journal or
\* left alone.
Mkdir(n) ==
    /\ at[n] = "mkdir" /\ InventoryOK
    /\ \/ /\ n \notin dirs
          /\ dirs' = dirs \cup {n} /\ at' = [at EXCEPT ![n] = "journal"]
       \/ /\ n \in dirs /\ UNCHANGED dirs
          /\ at' = [at EXCEPT ![n] = IF RollbackAccepts(n) THEN "undo" ELSE "failed"]
    /\ UNCHANGED <<files, journal, phase, disk, store, written, declared, command, want, scope, lane>>

JournalCreated(n) ==
    /\ at[n] = "journal"
    /\ files' = [files EXCEPT ![n] = @ \cup {"journal"}]
    /\ journal' = [journal EXCEPT ![n] = NoJournal]
    /\ at' = [at EXCEPT ![n] = "root"]
    /\ UNCHANGED <<dirs, phase, disk, store, written, declared, command, want, scope, lane>>

\* Mutant: the file is never renamed into place.
CreatePartial(n, from, artifact, to) ==
    /\ at[n] = from
    /\ files' = [files EXCEPT ![n] = @ \cup {"partial"}]
    /\ at' = [at EXCEPT ![n] = to]
    /\ UNCHANGED <<dirs, journal, phase, disk, store, written, declared, command, want, scope, lane>>

Create(n, from, artifact, to) ==
    /\ at[n] = from
    /\ files' = [files EXCEPT ![n] = @ \cup {artifact}]
    /\ at' = [at EXCEPT ![n] = to]
    /\ UNCHANGED <<dirs, journal, phase, disk, store, written, declared, command, want, scope, lane>>

\* appendCompleted
Record(n, from, artifact, to) ==
    /\ at[n] = from
    /\ journal' = [journal EXCEPT ![n].completed = @ \cup {artifact}]
    /\ at' = [at EXCEPT ![n] = to]
    /\ UNCHANGED <<dirs, files, phase, disk, store, written, declared, command, want, scope, lane>>

\* Mutant: the retained disk is not looked up.
AlwaysBlank(n) == Create(n, "data", "data", "dataRec")

\* resolvePrivateDataDisk: a retained disk is used where it lies, otherwise a
\* blank one is created in the node directory.
DataDisk(n) ==
    \/ /\ at[n] = "data" /\ n \in Persistent /\ InventoryOK /\ store[n] = "full"
       /\ at' = [at EXCEPT ![n] = "seed"]
       /\ UNCHANGED <<disks, declared, command, want, scope, lane>>
    \/ /\ n \notin Persistent \/ (InventoryOK /\ store[n] = "absent")
       /\ Create(n, "data", "data", "dataRec")

Seal(n) ==
    /\ at[n] = "seal"
    /\ journal' = [journal EXCEPT ![n].prepared = TRUE]
    /\ at' = [at EXCEPT ![n] = "ready"]
    /\ UNCHANGED <<dirs, files, phase, disk, store, written, declared, command, want, scope, lane>>

PrepareNode(n) ==
    \/ Mkdir(n) \/ JournalCreated(n)
    \/ Create(n, "root", "root", "rootRec") \/ Record(n, "rootRec", "root", "data")
    \/ DataDisk(n) \/ Record(n, "dataRec", "data", "seed")
    \/ Create(n, "seed", "seed", "seedRec") \/ Record(n, "seedRec", "seed", "seal")
    \/ Seal(n)

\* A tool fails, the context ends, the store or the journal is refused.
PrepareFails(n) ==
    /\ command = "up" /\ n \in scope /\ at[n] \in PrepareSteps \cup {"undo", "undoDir"}
    /\ at' = [at EXCEPT ![n] = "failed"]
    /\ UNCHANGED <<disks, declared, command, want, scope, lane>>

Failed == {n \in scope : at[n] = "failed"}

\* The command is over.  With --rollback its failed prepares go to the lane;
\* one whose node is committed would be refused there, so it is not queued.
Leave ==
    /\ command' = "none" /\ want' = {} /\ scope' = {}
    /\ lane' \in IF command \in {"up", "commit"}
                 THEN {{}, {n \in Failed : ~Committed(n)}} ELSE {lane}
    /\ at' = [n \in Node |-> IF n \in lane' \ lane THEN "check"
                             ELSE IF n \in scope THEN "idle" ELSE at[n]]

\* Every worker is done: the workers' barrier before CommitPrepared.
Prepared == \A n \in scope : at[n] \in {"ready", "failed"}

\* CommitPrepared, ensureDeploymentState: the document may only grow.
CommitDocument ==
    /\ command = "up" /\ Prepared
    /\ declared \subseteq want /\ declared' = want
    /\ command' = "commit"
    /\ UNCHANGED <<disks, want, scope, at, lane>>

CommitRefused ==
    /\ command = "up" /\ Prepared /\ ~(declared \subseteq want)
    /\ Leave
    /\ UNCHANGED <<disks, declared>>

\* Mutant: a prepare that failed is committed with what it has.
CommitUnready(n) ==
    /\ command = "commit" /\ at[n] \in {"ready", "failed"} /\ n \in dirs
    /\ files' = [files EXCEPT ![n] = @ \cup {"state"}]
    /\ phase' = [phase EXCEPT ![n] = "prepared"]
    /\ disk' = [disk EXCEPT ![n] = IF "data" \in journal[n].completed THEN "local" ELSE "retained"]
    /\ at' = [at EXCEPT ![n] = "stated"]
    /\ UNCHANGED <<dirs, journal, store, written, declared, command, want, scope, lane>>

\* CommitPrepared, one node: its state, then the flag in its journal.
CommitState(n) ==
    /\ command = "commit" /\ at[n] = "ready"
    /\ \A m \in scope : at[m] # "stated"
    /\ files' = [files EXCEPT ![n] = @ \cup {"state"}]
    /\ phase' = [phase EXCEPT ![n] = "prepared"]
    /\ disk' = [disk EXCEPT ![n] = IF "data" \in journal[n].completed THEN "local" ELSE "retained"]
    /\ at' = [at EXCEPT ![n] = "stated"]
    /\ UNCHANGED <<dirs, journal, store, written, declared, command, want, scope, lane>>

CommitFlag(n) ==
    /\ at[n] = "stated"
    /\ journal' = [journal EXCEPT ![n].committed = TRUE]
    /\ at' = [at EXCEPT ![n] = "flagged"]
    /\ UNCHANGED <<dirs, files, phase, disk, store, written, declared, command, want, scope, lane>>

\* FinalizePrepared, after the last commit.
Finalize(n) ==
    /\ at[n] = "flagged" /\ \A m \in scope : at[m] \in {"flagged", "final", "failed"}
    /\ files' = [files EXCEPT ![n] = @ \ {"journal"}]
    /\ journal' = [journal EXCEPT ![n] = NoJournal]
    /\ at' = [at EXCEPT ![n] = "final"]
    /\ UNCHANGED <<dirs, phase, disk, store, written, declared, command, want, scope, lane>>

\* CreateAndStart returns: everything committed is finalized, or a commit or
\* finalize error left the rest as it was.
UpEnd ==
    /\ command = "commit"
    /\ Leave
    /\ UNCHANGED <<disks, declared>>

Up == \/ UpBegin \/ CommitDocument \/ CommitRefused \/ UpEnd
      \/ \E n \in Node : \/ PrepareNode(n) \/ PrepareFails(n) \/ CommitState(n)
                         \/ CommitFlag(n) \/ Finalize(n)

Rollback == LaneKilled \/ \E n \in Node : LaneCheck(n) \/ UndoFile(n) \/ UndoDir(n)

-----------------------------------------------------------------------------
(* destroy, and the destroy half of recreate.                              *)

\* privateNodeTargets: what a node directory may contain.
Expected(n) == {"state", "root", "seed"} \cup
               IF n \in Persistent /\ disk[n] = "retained" THEN {} ELSE {"data"}

\* persistent.ValidateSource
SourceExists(n) == IF disk[n] = "local" THEN "data" \in files[n] ELSE store[n] \in {"full", "disk"}

Offline(n) == phase[n] \in {"prepared", "stopped"}

\* What destroy checks before it changes anything (a running node has been
\* stopped by then).
DestroyAccepts(S) ==
    /\ \A n \in S : Offline(n) /\ files[n] \subseteq Expected(n)
    /\ InventoryOK
    /\ \A n \in Persistent : Committed(n) => SourceExists(n)

\* All nodes, some of them for good (removed from the document), or some of
\* them to be created again.
DestroyBegin ==
    /\ command = "none"
    /\ \E S \in SUBSET declared : \E mode \in {"drop", "recreate"} :
        /\ S # {} /\ DestroyAccepts({n \in S : Committed(n)})
        /\ command' = "destroy"
        /\ want' = IF S = declared THEN {} ELSE IF mode = "drop" THEN declared \ S ELSE declared
        /\ scope' = {n \in S : Committed(n)}
    /\ at' = [n \in Node |-> IF n \in scope' THEN "mark" ELSE at[n]]
    /\ UNCHANGED <<disks, declared, lane>>

\* The phase `destroying` is published for every node first.
Mark(n) ==
    /\ at[n] = "mark"
    /\ phase' = [phase EXCEPT ![n] = "destroying"]
    /\ at' = [at EXCEPT ![n] = "marked"]
    /\ UNCHANGED <<dirs, files, journal, disk, store, written, declared, command, want, scope, lane>>

\* Then one node at a time.
Take(n) ==
    /\ at[n] = "marked" /\ \A m \in scope : at[m] \in {"marked", "idle"}
    /\ at' = [at EXCEPT ![n] = IF n \in Persistent THEN "preserve" ELSE "remove"]
    /\ UNCHANGED <<disks, declared, command, want, scope, lane>>

\* persistent.Preserve: nothing to do for a disk used from the store; the
\* directories, the rename, the marker.  A store that is already taken fails.
Preserve(n) ==
    /\ at[n] = "preserve" /\ InventoryOK
    /\ \/ /\ store[n] = "full" /\ disk[n] = "retained"
          /\ at' = [at EXCEPT ![n] = "remove"] /\ UNCHANGED store
       \/ /\ store[n] = "absent" /\ SourceExists(n)
          /\ store' = [store EXCEPT ![n] = "parent"] /\ at' = [at EXCEPT ![n] = "pDir"]
    /\ UNCHANGED <<dirs, files, journal, phase, disk, written, declared, command, want, scope, lane>>

PreserveDir(n) ==
    /\ at[n] = "pDir"
    /\ store' = [store EXCEPT ![n] = "dir"] /\ at' = [at EXCEPT ![n] = "pMove"]
    /\ UNCHANGED <<dirs, files, journal, phase, disk, written, declared, command, want, scope, lane>>

PreserveMove(n) ==
    /\ at[n] = "pMove"
    /\ store' = [store EXCEPT ![n] = "disk"] /\ files' = [files EXCEPT ![n] = @ \ {"data"}]
    /\ written' = IF written[n] = "local" THEN [written EXCEPT ![n] = "retained"] ELSE written
    /\ at' = [at EXCEPT ![n] = "pMarker"]
    /\ UNCHANGED <<dirs, journal, phase, disk, declared, command, want, scope, lane>>

PreserveMarker(n) ==
    /\ at[n] = "pMarker"
    /\ store' = [store EXCEPT ![n] = "full"] /\ at' = [at EXCEPT ![n] = "remove"]
    /\ UNCHANGED <<dirs, files, journal, phase, disk, written, declared, command, want, scope, lane>>

\* Mutant: the undo removes the store directory with the disk in it.
UndoDropsDisk(n) ==
    /\ at[n] \in {"pMove", "pMarker"}
    /\ store' = [store EXCEPT ![n] = "absent"] /\ UNCHANGED <<files, written>>
    /\ Leave
    /\ UNCHANGED <<dirs, journal, phase, disk, declared>>

\* A failed rename or publication is undone and ends the command.
PreserveUndo(n) ==
    /\ at[n] \in {"pMove", "pMarker"}
    /\ store' = [store EXCEPT ![n] = "absent"]
    /\ files' = [files EXCEPT ![n] = @ \cup {"data"}]
    /\ written' = IF at[n] = "pMarker" /\ written[n] = "retained"
                  THEN [written EXCEPT ![n] = "local"] ELSE written
    /\ Leave
    /\ UNCHANGED <<dirs, journal, phase, disk, declared>>

Disposable(n) == {"root", "seed"} \cup IF n \in Persistent THEN {} ELSE {"data"}

\* Removal in the order root disk, data disks, seed, state document.
Remove(n) ==
    /\ at[n] = "remove"
    /\ LET left == files[n] \cap Disposable(n)
           next == IF "root" \in left THEN "root"
                   ELSE IF "data" \in left THEN "data"
                   ELSE IF "seed" \in left THEN "seed" ELSE "state"
       IN  /\ files' = [files EXCEPT ![n] = @ \ {next}]
           /\ written' = IF next = "data" /\ written[n] = "local"
                         THEN [written EXCEPT ![n] = "lost"] ELSE written
           /\ at' = IF next = "state" THEN [at EXCEPT ![n] = "rmdir"] ELSE at
    /\ UNCHANGED <<dirs, journal, phase, disk, store, declared, command, want, scope, lane>>

Rmdir(n) ==
    /\ at[n] = "rmdir" /\ files[n] = {}
    /\ dirs' = dirs \ {n}
    /\ at' = [at EXCEPT ![n] = "idle"]
    /\ UNCHANGED <<files, journal, phase, disk, store, written, declared, command, want, scope, lane>>

\* The document is removed, reduced, or kept for the recreate.
DestroyEnd ==
    /\ command = "destroy" /\ \A n \in scope : at[n] = "idle"
    /\ declared' = want
    /\ Leave
    /\ UNCHANGED disks

Destroy == \/ DestroyBegin \/ DestroyEnd
           \/ \E n \in Node : \/ Mark(n) \/ Take(n) \/ Preserve(n) \/ PreserveDir(n)
                              \/ PreserveMove(n) \/ PreserveMarker(n) \/ PreserveUndo(n)
                              \/ Remove(n) \/ Rmdir(n)

-----------------------------------------------------------------------------
(* DeletePersistent.                                                       *)

\* Mutant: retained disks are deleted under live node directories.
DeleteBeginAnytime ==
    /\ command = "none" /\ InventoryOK /\ \E n \in Node : store[n] = "full"
    /\ command' = "delete" /\ want' = {} /\ scope' = {n \in Node : store[n] = "full"}
    /\ at' = [n \in Node |-> IF n \in scope' THEN "dDisk" ELSE at[n]]
    /\ UNCHANGED <<disks, declared, lane>>

\* Without a node directory a lane finds nothing and is refused.
DeleteBegin ==
    /\ command = "none" /\ dirs = {} /\ InventoryOK /\ \E n \in Node : store[n] = "full"
    /\ command' = "delete" /\ want' = {} /\ scope' = {n \in Node : store[n] = "full"}
    /\ lane' = {}
    /\ at' = [n \in Node |-> IF n \in scope' THEN "dDisk" ELSE "idle"]
    /\ UNCHANGED <<disks, declared>>

\* The disk, its marker and its directory, one record after another; the
\* parents when every record is gone.
DeleteStep(n) ==
    /\ \/ /\ at[n] = "dDisk" /\ \A m \in scope : at[m] \in {"dDisk", "dDone"}
          /\ store' = [store EXCEPT ![n] = "marker"] /\ at' = [at EXCEPT ![n] = "dMarker"]
          /\ written' = [written EXCEPT ![n] = "none"]
       \/ /\ at[n] = "dMarker" /\ UNCHANGED written
          /\ store' = [store EXCEPT ![n] = "dir"] /\ at' = [at EXCEPT ![n] = "dDir"]
       \/ /\ at[n] = "dDir" /\ UNCHANGED written
          /\ store' = [store EXCEPT ![n] = "parent"] /\ at' = [at EXCEPT ![n] = "dDone"]
       \/ /\ at[n] = "dDone" /\ UNCHANGED written /\ \A m \in scope : at[m] \in {"dDone", "idle"}
          /\ store' = [store EXCEPT ![n] = "absent"] /\ at' = [at EXCEPT ![n] = "idle"]
    /\ UNCHANGED <<dirs, files, journal, phase, disk, declared, command, want, scope, lane>>

DeleteEnd ==
    /\ command = "delete" /\ \A n \in scope : at[n] = "idle"
    /\ Leave
    /\ UNCHANGED <<disks, declared>>

Delete == DeleteBegin \/ DeleteEnd \/ \E n \in Node : DeleteStep(n)

-----------------------------------------------------------------------------
(* The lifecycle around the files.                                         *)

\* QEMU starts only if every file of its invocation can be opened; the guest
\* then writes to its data disk.
StartNode(n) ==
    /\ command = "none" /\ Committed(n) /\ Offline(n)
    /\ {"root", "seed"} \subseteq files[n]
    /\ IF disk[n] = "local" THEN "data" \in files[n] ELSE store[n] \in {"disk", "full"}
    /\ phase' = [phase EXCEPT ![n] = "running"]
    /\ written' = IF n \in Persistent THEN [written EXCEPT ![n] = disk[n]] ELSE written
    /\ UNCHANGED <<dirs, files, journal, disk, store, declared, control>>

\* A stop, or a status that found the guest halted.  A stop of running nodes
\* takes the prepared ones it was asked for with it.
StopNode(n) ==
    /\ command = "none" /\ Committed(n)
    /\ \/ phase[n] = "running"
       \/ phase[n] = "prepared" /\ \E m \in Node : Committed(m) /\ phase[m] = "running"
    /\ phase' = [phase EXCEPT ![n] = "stopped"]
    /\ UNCHANGED <<dirs, files, journal, disk, store, written, declared, control>>

\* statusForLocked: an interrupted destroy is converged to `stopped`.
Converge(n) ==
    /\ command = "none" /\ Committed(n) /\ phase[n] = "destroying"
    /\ phase' = [phase EXCEPT ![n] = "stopped"]
    /\ UNCHANGED <<dirs, files, journal, disk, store, written, declared, control>>

Lifecycle == \E n \in Node : StartNode(n) \/ StopNode(n) \/ Converge(n)

\* The command is killed, or fails where it undoes nothing.  A kill during a
\* write leaves the temporary file behind.
Killed ==
    /\ command # "none"
    /\ command' = "none" /\ want' = {} /\ scope' = {} /\ UNCHANGED lane
    /\ at' = [n \in Node |-> IF n \in scope THEN "idle" ELSE at[n]]
    /\ \E T \in SUBSET {n \in scope : at[n] \in Writing} :
         files' = [n \in Node |-> IF n \in T THEN files[n] \cup {"temp"} ELSE files[n]]
    /\ UNCHANGED <<dirs, journal, phase, disk, store, written, declared>>

-----------------------------------------------------------------------------
Init ==
    /\ dirs = {} /\ declared = {}
    /\ files = [n \in Node |-> {}]
    /\ journal = [n \in Node |-> NoJournal]
    /\ phase = [n \in Node |-> "stopped"]
    /\ disk = [n \in Node |-> "local"]
    /\ store = [n \in Node |-> "absent"]
    /\ written = [n \in Node |-> "none"]
    /\ command = "none" /\ want = {} /\ scope = {} /\ lane = {}
    /\ at = [n \in Node |-> "idle"]

Next == Up \/ Rollback \/ Destroy \/ Delete \/ Lifecycle \/ Killed

Spec == Init /\ [][Next]_vars

-----------------------------------------------------------------------------
TypeOK ==
    /\ dirs \subseteq Node /\ declared \subseteq Node
    /\ files \in [Node -> SUBSET (Artifact \cup {"journal", "state", "temp"})]
    /\ journal \in [Node -> [completed : SUBSET Artifact, prepared : BOOLEAN, committed : BOOLEAN]]
    /\ phase \in [Node -> {"prepared", "running", "stopped", "destroying"}]
    /\ disk \in [Node -> {"local", "retained"}]
    /\ store \in [Node -> {"absent", "parent", "dir", "disk", "full", "marker"}]
    /\ written \in [Node -> {"none", "local", "retained", "lost"}]
    /\ command \in {"none", "up", "commit", "destroy", "delete"}
    /\ want \subseteq Node /\ scope \subseteq Node /\ lane \subseteq Node
    /\ at \in [Node -> {"idle", "failed"} \cup PrepareSteps \cup CommitSteps
                       \cup UndoSteps \cup DestroySteps \cup DeleteSteps]

\* A node that is prepared or running has every file it was committed with,
\* whatever was interrupted before and whoever else failed next to it.
CommittedIsComplete ==
    \A n \in Node : Committed(n) /\ phase[n] \in {"prepared", "running"} =>
        /\ {"root", "seed"} \subseteq files[n]
        /\ IF disk[n] = "local" THEN "data" \in files[n] ELSE store[n] = "full"

\* The data a guest wrote to a persistent disk exists until `purge`: no
\* destroy, no rollback and no interrupted move of the disk loses it.
PersistentDataKept ==
    \A n \in Persistent :
        /\ written[n] # "lost"
        /\ written[n] = "local" => "data" \in files[n]
        /\ written[n] = "retained" => store[n] \in {"disk", "full"}

\* A guest is never booted from a blank disk while the data it wrote earlier
\* is kept elsewhere.
BootsItsOwnData ==
    [][\A n \in Persistent : phase[n] # "running" /\ phase'[n] = "running"
          => written[n] \in {"none", disk[n]}]_vars

status == [n \in Node |-> IF n \notin dirs THEN "absent"
                          ELSE IF ~Committed(n) THEN "unfinished"
                          ELSE IF phase[n] = "destroying" THEN "leaving" ELSE "committed"]
Abstract ==
    INSTANCE NodeContract WITH status <- status, data <- [n \in Node |-> written[n] # "none"]

\* The files of the nodes keep the contract of NodeContract, step by step.
Contract == Abstract!Spec

\* doctor: the fix for a pending prepare journal is `recreate --force`.  A
\* committed node that is off, with no foreign file, can be destroyed.
JournalIsNoObstacle ==
    \A n \in Node :
        command = "none" /\ Committed(n) /\ Offline(n) /\ "temp" \notin files[n]
        => files[n] \subseteq Expected(n)
=============================================================================
