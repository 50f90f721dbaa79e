------------------------ MODULE NodeArtifactsProofs ------------------------
(***************************************************************************)
(* What the files of the nodes promise, for any nodes and any persistent   *)
(* disks among them.  Why it holds: a step that takes files away is only   *)
(* reached on a node that is not committed, or on one whose phase already  *)
(* says `destroying`; and a blank disk is only made when the store has no  *)
(* disk of the node.                                                       *)
(***************************************************************************)
EXTENDS NodeArtifacts, TLAPS

\* The steps on a node the command holding the lock works on.
StepsOf(c) ==
    IF c = "up" THEN PrepareSteps \cup {"undo", "undoDir", "ready", "failed"}
    ELSE IF c = "commit" THEN CommitSteps \cup {"failed"}
    ELSE IF c = "destroy" THEN DestroySteps \cup {"idle"}
    ELSE IF c = "delete" THEN DeleteSteps \cup {"idle"} ELSE {}

\* A lane runs next to a destroy at most; the store is deleted under no node.
Exclusion ==
    /\ command = "none" => scope = {}
    /\ command \in {"up", "commit"} => lane = {}
    /\ command = "delete" => dirs = {}

\* A node is worked on by the command, by the lane or by nobody.
Owned(n) ==
    /\ n \in scope => n \notin lane /\ at[n] \in StepsOf(command)
    /\ n \in lane => at[n] \in UndoSteps /\ ~Committed(n)
    /\ n \notin scope \cup lane => at[n] = "idle"

\* Files are in directories; only a committed node is destroyed, and only
\* after its phase says so; nothing else takes files from a committed node.
Placed(n) ==
    /\ files[n] # {} => n \in dirs
    /\ at[n] \in (PrepareSteps \ {"mkdir"}) \cup {"ready", "stated"} => n \in dirs
    /\ at[n] \in (PrepareSteps \ {"mkdir"}) \cup {"ready", "undo", "undoDir"} => ~Committed(n)
    /\ at[n] = "mark" => Committed(n) /\ Offline(n)
    /\ at[n] \in {"marked", "preserve", "pDir", "pMove", "pMarker", "remove"}
       => Committed(n) /\ phase[n] = "destroying"

\* What a prepare has made when it is at a step.
Made(n) ==
    /\ at[n] \in {"rootRec", "data", "dataRec", "seed", "seedRec", "seal", "ready"}
       => "root" \in files[n]
    /\ at[n] \in {"seedRec", "seal", "ready"} => "seed" \in files[n]
    /\ at[n] \in {"root", "rootRec", "data"} => "data" \notin journal[n].completed
    /\ at[n] = "dataRec" => "data" \in files[n] /\ (n \in Persistent => store[n] = "absent")
    /\ at[n] \in {"seed", "seedRec", "seal", "ready"} =>
       IF "data" \in journal[n].completed
       THEN "data" \in files[n] /\ (n \in Persistent => store[n] = "absent")
       ELSE store[n] = "full"

\* Where the store is in the middle of a move or of a deletion.
Moving(n) ==
    /\ at[n] = "pDir" => store[n] = "parent" /\ disk[n] = "local"
    /\ at[n] = "pMove" => store[n] = "dir" /\ disk[n] = "local"
    /\ at[n] = "pMarker" => store[n] = "disk" /\ disk[n] = "local" /\ written[n] # "local"
    /\ at[n] = "remove" /\ n \in Persistent => written[n] # "local"
    /\ at[n] = "dMarker" => store[n] = "marker"
    /\ at[n] = "dDir" => store[n] = "dir"
    /\ at[n] = "dDone" => store[n] = "parent"

\* Where the disk of a node is, and where its data may be.
Located(n) ==
    /\ Committed(n) /\ disk[n] = "retained" => store[n] = "full" /\ written[n] # "local"
    /\ Committed(n) /\ disk[n] = "local" /\ "data" \in files[n] => written[n] # "retained"
    /\ ~Committed(n) => written[n] # "local"
    /\ n \notin Persistent => written[n] = "none"

Complete(n) ==
    Committed(n) /\ phase[n] \in {"prepared", "running"} =>
        /\ {"root", "seed"} \subseteq files[n]
        /\ IF disk[n] = "local" THEN "data" \in files[n] ELSE store[n] = "full"

Kept(n) ==
    n \in Persistent =>
        /\ written[n] # "lost"
        /\ written[n] = "local" => "data" \in files[n]
        /\ written[n] = "retained" => store[n] \in {"disk", "full"}

NodeInv(n) ==
    /\ Owned(n) /\ Placed(n) /\ Made(n) /\ Moving(n) /\ Located(n)
    /\ Complete(n) /\ Kept(n)

Inv == TypeOK /\ Exclusion /\ \A n \in Node : NodeInv(n)

-----------------------------------------------------------------------------
\* Nothing but node n (and what is wanted or declared) is touched.
Only(n) ==
    /\ UNCHANGED <<command, scope>>
    /\ \A m \in Node \ {n} :
        /\ m \in dirs' <=> m \in dirs
        /\ m \in lane' <=> m \in lane
        /\ files'[m] = files[m] /\ journal'[m] = journal[m] /\ phase'[m] = phase[m]
        /\ disk'[m] = disk[m] /\ store'[m] = store[m] /\ written'[m] = written[m]
        /\ at'[m] = at[m]

\* A step on one node leaves the invariant of the others alone.
LEMMA Others ==
    ASSUME Inv, NEW n \in Node, Only(n), NodeInv(n)'
    PROVE  \A m \in Node : NodeInv(m)'
  <1> SUFFICES ASSUME NEW m \in Node, m # n PROVE NodeInv(m)'
    OBVIOUS
  <1>1. NodeInv(m)
    BY DEF Inv
  <1> QED
    BY <1>1 DEF Only, NodeInv, Owned, Placed, Made, Moving, Located, Complete, Kept,
                Committed, Offline

LEMMA InitInv == Init => Inv
  <1> SUFFICES ASSUME Init PROVE Inv
    OBVIOUS
  <1>1. TypeOK
    BY DEF Init, TypeOK, NoJournal
  <1>2. Exclusion
    BY DEF Init, Exclusion
  <1>3. \A n \in Node : NodeInv(n)
    BY DEF Init, NodeInv, Owned, Placed, Made, Moving, Located, Complete, Kept, PrepareSteps
  <1> QED
    BY <1>1, <1>2, <1>3 DEF Inv

LEMMA UndoFileInv == ASSUME Inv, NEW n \in Node, UndoFile(n) PROVE Inv'
  <1>0. NodeInv(n) /\ TypeOK /\ Exclusion
    BY DEF Inv
  <1>1. TypeOK'
    <2>1. /\ UNCHANGED <<dirs, phase, disk, store, declared, command, want, scope, lane>>
          /\ files' \in [Node -> SUBSET (Artifact \cup {"journal", "state", "temp"})]
      BY <1>0 DEF TypeOK, UndoFile
    <2>2. written' \in [Node -> {"none", "local", "retained", "lost"}]
      BY <1>0 DEF TypeOK, UndoFile
    <2>3. journal' \in [Node -> [completed : SUBSET Artifact, prepared : BOOLEAN, committed : BOOLEAN]]
      BY <1>0 DEF TypeOK, UndoFile, NoJournal
    <2>4. at' = at \/ at' = [at EXCEPT ![n] = "undoDir"]
      BY DEF UndoFile
    <2> QED
      BY <1>0, <2>1, <2>2, <2>3, <2>4 DEF TypeOK, UndoSteps
  <1>2. Exclusion'
    BY <1>0 DEF Exclusion, UndoFile
  <1>3. Only(n)
    BY <1>0 DEF Only, UndoFile
  <1>4. NodeInv(n)'
    <2>1. Owned(n)'
      BY <1>0 DEF NodeInv, StepsOf, Owned, Committed, UndoFile, CommitSteps, UndoSteps,
         DestroySteps, DeleteSteps
    <2>2. Placed(n)'
      BY <1>0 DEF NodeInv, Placed, Committed, UndoFile, PrepareSteps
    <2>3. Made(n)'
      BY <1>0 DEF Made, UndoFile
    <2>4. Moving(n)'
      BY <1>0 DEF Moving, UndoFile
    <2>5. Located(n)'
      BY <1>0 DEF NodeInv, Located, Committed, UndoFile
    <2>6. Complete(n)'
      BY <1>0 DEF NodeInv, Placed, Complete, Committed, UndoFile
    <2>7. Kept(n)'
      BY <1>0 DEF NodeInv, Placed, Located, Kept, UndoFile
    <2> QED
      BY <2>1, <2>2, <2>3, <2>4, <2>5, <2>6, <2>7 DEF NodeInv
  <1> QED
    BY <1>1, <1>2, <1>3, <1>4, Others DEF Inv

LEMMA UndoDirInv == ASSUME Inv, NEW n \in Node, UndoDir(n) PROVE Inv'
  <1>0. NodeInv(n) /\ TypeOK /\ Exclusion
    BY DEF Inv
  <1>1. TypeOK'
    BY <1>0 DEF TypeOK, UndoDir, PrepareSteps, UndoSteps
  <1>2. Exclusion'
    BY <1>0 DEF Exclusion, UndoDir
  <1>3. Only(n)
    BY <1>0 DEF TypeOK, Only, UndoDir
  <1>4. NodeInv(n)'
    <2>1. Owned(n)'
      BY <1>0 DEF NodeInv, TypeOK, StepsOf, Owned, UndoDir, PrepareSteps, CommitSteps,
         DestroySteps, DeleteSteps
    <2>2. Placed(n)'
      BY <1>0 DEF TypeOK, Placed, UndoDir, PrepareSteps
    <2>3. Made(n)'
      BY <1>0 DEF TypeOK, Made, UndoDir
    <2>4. Moving(n)'
      BY <1>0 DEF TypeOK, Moving, UndoDir
    <2>5. Located(n)'
      BY <1>0 DEF NodeInv, Located, Committed, UndoDir
    <2>6. Complete(n)'
      BY <1>0 DEF Complete, Committed, UndoDir
    <2>7. Kept(n)'
      BY <1>0 DEF NodeInv, Kept, UndoDir
    <2> QED
      BY <2>1, <2>2, <2>3, <2>4, <2>5, <2>6, <2>7 DEF NodeInv
  <1> QED
    BY <1>1, <1>2, <1>3, <1>4, Others DEF Inv

LEMMA MkdirInv == ASSUME Inv, NEW n \in Node, Mkdir(n) PROVE Inv'
  <1>0. NodeInv(n) /\ TypeOK /\ Exclusion
    BY DEF Inv
  <1>1. TypeOK'
    BY <1>0 DEF TypeOK, Mkdir, PrepareSteps, CommitSteps, UndoSteps
  <1>2. Exclusion'
    BY <1>0 DEF Exclusion, Owned, NodeInv, StepsOf, Mkdir, UndoSteps, DeleteSteps
  <1>3. Only(n)
    BY <1>0 DEF TypeOK, Only, Mkdir
  <1>4. NodeInv(n)'
    <2>1. Owned(n)'
      BY <1>0 DEF NodeInv, TypeOK, StepsOf, Owned, Mkdir, PrepareSteps, CommitSteps, UndoSteps,
         DestroySteps, DeleteSteps
    <2>2. Placed(n)'
      BY <1>0 DEF NodeInv, TypeOK, Placed, Committed, Mkdir, RollbackAccepts, PrepareSteps
    <2>3. Made(n)'
      BY <1>0 DEF TypeOK, Made, Mkdir
    <2>4. Moving(n)'
      BY <1>0 DEF TypeOK, Moving, Mkdir
    <2>5. Located(n)'
      BY <1>0 DEF NodeInv, Located, Committed, Mkdir
    <2>6. Complete(n)'
      BY <1>0 DEF NodeInv, Complete, Committed, Mkdir
    <2>7. Kept(n)'
      BY <1>0 DEF NodeInv, Kept, Mkdir
    <2> QED
      BY <2>1, <2>2, <2>3, <2>4, <2>5, <2>6, <2>7 DEF NodeInv
  <1> QED
    BY <1>1, <1>2, <1>3, <1>4, Others DEF Inv

LEMMA JournalCreatedInv == ASSUME Inv, NEW n \in Node, JournalCreated(n) PROVE Inv'
  <1>0. NodeInv(n) /\ TypeOK /\ Exclusion
    BY DEF Inv
  <1>1. TypeOK'
    BY <1>0 DEF TypeOK, JournalCreated, NoJournal, PrepareSteps
  <1>2. Exclusion'
    BY <1>0 DEF Exclusion, JournalCreated
  <1>3. Only(n)
    BY <1>0 DEF Only, JournalCreated
  <1>4. NodeInv(n)'
    <2>1. Owned(n)'
      BY <1>0 DEF NodeInv, StepsOf, Owned, JournalCreated, PrepareSteps, CommitSteps, UndoSteps,
         DestroySteps, DeleteSteps
    <2>2. Placed(n)'
      BY <1>0 DEF NodeInv, Placed, Committed, JournalCreated, PrepareSteps
    <2>3. Made(n)'
      BY <1>0 DEF TypeOK, Made, JournalCreated, NoJournal
    <2>4. Moving(n)'
      BY <1>0 DEF Moving, JournalCreated
    <2>5. Located(n)'
      BY <1>0 DEF NodeInv, Located, Committed, JournalCreated
    <2>6. Complete(n)'
      BY <1>0 DEF NodeInv, Complete, Committed, JournalCreated
    <2>7. Kept(n)'
      BY <1>0 DEF NodeInv, Kept, JournalCreated
    <2> QED
      BY <2>1, <2>2, <2>3, <2>4, <2>5, <2>6, <2>7 DEF NodeInv
  <1> QED
    BY <1>1, <1>2, <1>3, <1>4, Others DEF Inv

LEMMA CreateRootInv == ASSUME Inv, NEW n \in Node, Create(n, "root", "root", "rootRec") PROVE Inv'
  <1>0. NodeInv(n) /\ TypeOK /\ Exclusion
    BY DEF Inv
  <1>1. TypeOK'
    BY <1>0 DEF TypeOK, Create, Artifact, PrepareSteps
  <1>2. Exclusion'
    BY <1>0 DEF Exclusion, Create
  <1>3. Only(n)
    BY <1>0 DEF Only, Create
  <1>4. NodeInv(n)'
    <2>1. Owned(n)'
      BY <1>0 DEF NodeInv, StepsOf, Owned, Create, PrepareSteps, CommitSteps, UndoSteps,
         DestroySteps, DeleteSteps
    <2>2. Placed(n)'
      BY <1>0 DEF NodeInv, Placed, Committed, Create, PrepareSteps
    <2>3. Made(n)'
      BY <1>0 DEF NodeInv, TypeOK, Made, Create
    <2>4. Moving(n)'
      BY <1>0 DEF Moving, Create
    <2>5. Located(n)'
      BY <1>0 DEF NodeInv, Located, Committed, Create
    <2>6. Complete(n)'
      BY <1>0 DEF NodeInv, Complete, Committed, Create
    <2>7. Kept(n)'
      BY <1>0 DEF NodeInv, Kept, Create
    <2> QED
      BY <2>1, <2>2, <2>3, <2>4, <2>5, <2>6, <2>7 DEF NodeInv
  <1> QED
    BY <1>1, <1>2, <1>3, <1>4, Others DEF Inv

LEMMA RecordRootInv == ASSUME Inv, NEW n \in Node, Record(n, "rootRec", "root", "data") PROVE Inv'
  <1>0. NodeInv(n) /\ TypeOK /\ Exclusion
    BY DEF Inv
  <1>1. TypeOK'
    BY <1>0 DEF TypeOK, Record, Artifact, PrepareSteps
  <1>2. Exclusion'
    BY <1>0 DEF Exclusion, Record
  <1>3. Only(n)
    BY <1>0 DEF Only, Record
  <1>4. NodeInv(n)'
    <2>1. Owned(n)'
      BY <1>0 DEF NodeInv, StepsOf, Owned, Record, PrepareSteps, CommitSteps, UndoSteps,
         DestroySteps, DeleteSteps
    <2>2. Placed(n)'
      BY <1>0 DEF NodeInv, Placed, Committed, Record, PrepareSteps
    <2>3. Made(n)'
      BY <1>0 DEF NodeInv, Made, Record
    <2>4. Moving(n)'
      BY <1>0 DEF Moving, Record
    <2>5. Located(n)'
      BY <1>0 DEF NodeInv, Located, Committed, Record
    <2>6. Complete(n)'
      BY <1>0 DEF NodeInv, Complete, Committed, Record
    <2>7. Kept(n)'
      BY <1>0 DEF NodeInv, Kept, Record
    <2> QED
      BY <2>1, <2>2, <2>3, <2>4, <2>5, <2>6, <2>7 DEF NodeInv
  <1> QED
    BY <1>1, <1>2, <1>3, <1>4, Others DEF Inv

LEMMA DataDiskInv == ASSUME Inv, NEW n \in Node, DataDisk(n) PROVE Inv'
  <1>0. NodeInv(n) /\ TypeOK /\ Exclusion
    BY DEF Inv
  <1>1. TypeOK'
    <2>1. CASE at' = [at EXCEPT ![n] = "seed"] /\ UNCHANGED <<disks, declared, command, want, scope, lane>>
      BY <1>0, <2>1 DEF TypeOK, disks, PrepareSteps
    <2>2. CASE Create(n, "data", "data", "dataRec")
      BY <1>0, <2>2 DEF TypeOK, Create, Artifact, PrepareSteps
    <2> QED
      BY <2>1, <2>2 DEF DataDisk
  <1>2. Exclusion'
    BY <1>0 DEF Exclusion, Owned, NodeInv, StepsOf, DataDisk, Create, UndoSteps, DeleteSteps
  <1>3. Only(n)
    BY <1>0 DEF TypeOK, Only, DataDisk, Create, disks
  <1>4. NodeInv(n)'
    <2>1. Owned(n)'
      BY <1>0 DEF NodeInv, TypeOK, StepsOf, Owned, DataDisk, Create, PrepareSteps, CommitSteps,
         UndoSteps, DestroySteps, DeleteSteps
    <2>2. Placed(n)'
      BY <1>0 DEF NodeInv, TypeOK, Placed, Committed, DataDisk, Create, disks, PrepareSteps
    <2>3. Made(n)'
      BY <1>0 DEF NodeInv, TypeOK, Made, DataDisk, Create, disks
    <2>4. Moving(n)'
      BY <1>0 DEF TypeOK, Moving, DataDisk, Create
    <2>5. Located(n)'
      BY <1>0 DEF NodeInv, TypeOK, Located, Kept, Committed, DataDisk, Create, disks
    <2>6. Complete(n)'
      BY <1>0 DEF NodeInv, TypeOK, Complete, Committed, DataDisk, Create, disks
    <2>7. Kept(n)'
      BY <1>0 DEF NodeInv, TypeOK, Kept, DataDisk, Create, disks
    <2> QED
      BY <2>1, <2>2, <2>3, <2>4, <2>5, <2>6, <2>7 DEF NodeInv
  <1> QED
    BY <1>1, <1>2, <1>3, <1>4, Others DEF Inv

LEMMA RecordDataInv == ASSUME Inv, NEW n \in Node, Record(n, "dataRec", "data", "seed") PROVE Inv'
  <1>0. NodeInv(n) /\ TypeOK /\ Exclusion
    BY DEF Inv
  <1>1. TypeOK'
    BY <1>0 DEF TypeOK, Record, Artifact, PrepareSteps
  <1>2. Exclusion'
    BY <1>0 DEF Exclusion, Record
  <1>3. Only(n)
    BY <1>0 DEF Only, Record
  <1>4. NodeInv(n)'
    <2>1. Owned(n)'
      BY <1>0 DEF NodeInv, StepsOf, Owned, Record, PrepareSteps, CommitSteps, UndoSteps,
         DestroySteps, DeleteSteps
    <2>2. Placed(n)'
      BY <1>0 DEF NodeInv, Placed, Committed, Record, PrepareSteps
    <2>3. Made(n)'
      BY <1>0 DEF NodeInv, TypeOK, Made, Record
    <2>4. Moving(n)'
      BY <1>0 DEF Moving, Record
    <2>5. Located(n)'
      BY <1>0 DEF NodeInv, Located, Committed, Record
    <2>6. Complete(n)'
      BY <1>0 DEF NodeInv, Complete, Committed, Record
    <2>7. Kept(n)'
      BY <1>0 DEF NodeInv, Kept, Record
    <2> QED
      BY <2>1, <2>2, <2>3, <2>4, <2>5, <2>6, <2>7 DEF NodeInv
  <1> QED
    BY <1>1, <1>2, <1>3, <1>4, Others DEF Inv

LEMMA CreateSeedInv == ASSUME Inv, NEW n \in Node, Create(n, "seed", "seed", "seedRec") PROVE Inv'
  <1>0. NodeInv(n) /\ TypeOK /\ Exclusion
    BY DEF Inv
  <1>1. TypeOK'
    BY <1>0 DEF TypeOK, Create, Artifact, PrepareSteps
  <1>2. Exclusion'
    BY <1>0 DEF Exclusion, Create
  <1>3. Only(n)
    BY <1>0 DEF Only, Create
  <1>4. NodeInv(n)'
    <2>1. Owned(n)'
      BY <1>0 DEF NodeInv, StepsOf, Owned, Create, PrepareSteps, CommitSteps, UndoSteps,
         DestroySteps, DeleteSteps
    <2>2. Placed(n)'
      BY <1>0 DEF NodeInv, Placed, Committed, Create, PrepareSteps
    <2>3. Made(n)'
      BY <1>0 DEF NodeInv, TypeOK, Made, Create
    <2>4. Moving(n)'
      BY <1>0 DEF Moving, Create
    <2>5. Located(n)'
      BY <1>0 DEF NodeInv, Located, Committed, Create
    <2>6. Complete(n)'
      BY <1>0 DEF NodeInv, Complete, Committed, Create
    <2>7. Kept(n)'
      BY <1>0 DEF NodeInv, Kept, Create
    <2> QED
      BY <2>1, <2>2, <2>3, <2>4, <2>5, <2>6, <2>7 DEF NodeInv
  <1> QED
    BY <1>1, <1>2, <1>3, <1>4, Others DEF Inv

LEMMA RecordSeedInv == ASSUME Inv, NEW n \in Node, Record(n, "seedRec", "seed", "seal") PROVE Inv'
  <1>0. NodeInv(n) /\ TypeOK /\ Exclusion
    BY DEF Inv
  <1>1. TypeOK'
    BY <1>0 DEF TypeOK, Record, Artifact, PrepareSteps
  <1>2. Exclusion'
    BY <1>0 DEF Exclusion, Record
  <1>3. Only(n)
    BY <1>0 DEF Only, Record
  <1>4. NodeInv(n)'
    <2>1. Owned(n)'
      BY <1>0 DEF NodeInv, StepsOf, Owned, Record, PrepareSteps, CommitSteps, UndoSteps,
         DestroySteps, DeleteSteps
    <2>2. Placed(n)'
      BY <1>0 DEF NodeInv, Placed, Committed, Record, PrepareSteps
    <2>3. Made(n)'
      BY <1>0 DEF NodeInv, Made, Record
    <2>4. Moving(n)'
      BY <1>0 DEF Moving, Record
    <2>5. Located(n)'
      BY <1>0 DEF NodeInv, Located, Committed, Record
    <2>6. Complete(n)'
      BY <1>0 DEF NodeInv, Complete, Committed, Record
    <2>7. Kept(n)'
      BY <1>0 DEF NodeInv, Kept, Record
    <2> QED
      BY <2>1, <2>2, <2>3, <2>4, <2>5, <2>6, <2>7 DEF NodeInv
  <1> QED
    BY <1>1, <1>2, <1>3, <1>4, Others DEF Inv

LEMMA SealInv == ASSUME Inv, NEW n \in Node, Seal(n) PROVE Inv'
  <1>0. NodeInv(n) /\ TypeOK /\ Exclusion
    BY DEF Inv
  <1>1. TypeOK'
    BY <1>0, ZenonT(60) DEF TypeOK, Seal, disks, control, Artifact, PrepareSteps, CommitSteps, UndoSteps,
       DestroySteps, DeleteSteps
  <1>2. Exclusion'
    BY <1>0 DEF Exclusion, Seal
  <1>3. Only(n)
    BY <1>0 DEF Only, Seal
  <1>4. NodeInv(n)'
    <2>1. Owned(n)'
      BY <1>0 DEF NodeInv, StepsOf, Owned, Seal, CommitSteps, UndoSteps, DestroySteps,
         DeleteSteps
    <2>2. Placed(n)'
      BY <1>0 DEF NodeInv, Placed, Committed, Seal, PrepareSteps
    <2>3. Made(n)'
      BY <1>0 DEF NodeInv, Made, Seal
    <2>4. Moving(n)'
      BY <1>0 DEF Moving, Seal
    <2>5. Located(n)'
      BY <1>0 DEF NodeInv, Located, Committed, Seal
    <2>6. Complete(n)'
      BY <1>0 DEF NodeInv, Complete, Committed, Seal
    <2>7. Kept(n)'
      BY <1>0 DEF NodeInv, Kept, Seal
    <2> QED
      BY <2>1, <2>2, <2>3, <2>4, <2>5, <2>6, <2>7 DEF NodeInv
  <1> QED
    BY <1>1, <1>2, <1>3, <1>4, Others DEF Inv

LEMMA PrepareFailsInv == ASSUME Inv, NEW n \in Node, PrepareFails(n) PROVE Inv'
  <1>0. NodeInv(n) /\ TypeOK /\ Exclusion
    BY DEF Inv
  <1>1. TypeOK'
    BY <1>0 DEF TypeOK, PrepareFails, disks
  <1>2. Exclusion'
    BY <1>0 DEF Exclusion, PrepareFails
  <1>3. Only(n)
    BY <1>0 DEF Only, PrepareFails, disks
  <1>4. NodeInv(n)'
    <2>1. Owned(n)'
      BY <1>0 DEF NodeInv, StepsOf, Owned, PrepareFails
    <2>2. Placed(n)'
      BY <1>0 DEF NodeInv, TypeOK, Placed, PrepareFails, disks, PrepareSteps
    <2>3. Made(n)'
      BY <1>0 DEF TypeOK, Made, PrepareFails
    <2>4. Moving(n)'
      BY <1>0 DEF TypeOK, Moving, PrepareFails
    <2>5. Located(n)'
      BY <1>0 DEF NodeInv, Located, Committed, PrepareFails, disks
    <2>6. Complete(n)'
      BY <1>0 DEF NodeInv, Complete, Committed, PrepareFails, disks
    <2>7. Kept(n)'
      BY <1>0 DEF NodeInv, Kept, PrepareFails, disks
    <2> QED
      BY <2>1, <2>2, <2>3, <2>4, <2>5, <2>6, <2>7 DEF NodeInv
  <1> QED
    BY <1>1, <1>2, <1>3, <1>4, Others DEF Inv

LEMMA CommitStateInv == ASSUME Inv, NEW n \in Node, CommitState(n) PROVE Inv'
  <1>0. NodeInv(n) /\ TypeOK /\ Exclusion
    BY DEF Inv
  <1>1. TypeOK'
    BY <1>0 DEF TypeOK, CommitState, CommitSteps
  <1>2. Exclusion'
    BY <1>0 DEF Exclusion, CommitState
  <1>3. Only(n)
    BY <1>0 DEF Only, CommitState
  <1>4. NodeInv(n)'
    <2>1. Owned(n)'
      BY <1>0 DEF NodeInv, StepsOf, Owned, CommitState, CommitSteps, UndoSteps
    <2>2. Placed(n)'
      BY <1>0 DEF NodeInv, TypeOK, Placed, CommitState, PrepareSteps
    <2>3. Made(n)'
      BY <1>0 DEF TypeOK, Made, CommitState
    <2>4. Moving(n)'
      BY <1>0 DEF Moving, CommitState
    <2>5. Located(n)'
      BY <1>0 DEF NodeInv, TypeOK, Placed, Made, Located, Kept, CommitState
    <2>6. Complete(n)'
      BY <1>0 DEF NodeInv, TypeOK, Made, Complete, CommitState
    <2>7. Kept(n)'
      BY <1>0 DEF NodeInv, Kept, CommitState
    <2> QED
      BY <2>1, <2>2, <2>3, <2>4, <2>5, <2>6, <2>7 DEF NodeInv
  <1> QED
    BY <1>1, <1>2, <1>3, <1>4, Others DEF Inv

LEMMA CommitFlagInv == ASSUME Inv, NEW n \in Node, CommitFlag(n) PROVE Inv'
  <1>0. NodeInv(n) /\ TypeOK /\ Exclusion
    BY DEF Inv
  <1>1. TypeOK'
    BY <1>0, ZenonT(60) DEF TypeOK, CommitFlag, disks, control, Artifact, PrepareSteps, CommitSteps,
       UndoSteps, DestroySteps, DeleteSteps
  <1>2. Exclusion'
    BY <1>0 DEF Exclusion, CommitFlag
  <1>3. Only(n)
    BY <1>0 DEF Only, CommitFlag
  <1>4. NodeInv(n)'
    <2>1. Owned(n)'
      BY <1>0 DEF NodeInv, StepsOf, Owned, CommitFlag, PrepareSteps, CommitSteps, UndoSteps,
         DestroySteps, DeleteSteps
    <2>2. Placed(n)'
      BY <1>0 DEF NodeInv, Placed, CommitFlag, PrepareSteps
    <2>3. Made(n)'
      BY <1>0 DEF Made, CommitFlag
    <2>4. Moving(n)'
      BY <1>0 DEF Moving, CommitFlag
    <2>5. Located(n)'
      BY <1>0 DEF NodeInv, Located, Committed, CommitFlag
    <2>6. Complete(n)'
      BY <1>0 DEF NodeInv, Complete, Committed, CommitFlag
    <2>7. Kept(n)'
      BY <1>0 DEF NodeInv, Kept, CommitFlag
    <2> QED
      BY <2>1, <2>2, <2>3, <2>4, <2>5, <2>6, <2>7 DEF NodeInv
  <1> QED
    BY <1>1, <1>2, <1>3, <1>4, Others DEF Inv

LEMMA FinalizeInv == ASSUME Inv, NEW n \in Node, Finalize(n) PROVE Inv'
  <1>0. NodeInv(n) /\ TypeOK /\ Exclusion
    BY DEF Inv
  <1>1. TypeOK'
    BY <1>0 DEF TypeOK, Finalize, NoJournal, CommitSteps
  <1>2. Exclusion'
    BY <1>0 DEF Exclusion, Finalize
  <1>3. Only(n)
    BY <1>0 DEF Only, Finalize
  <1>4. NodeInv(n)'
    <2>1. Owned(n)'
      BY <1>0 DEF NodeInv, StepsOf, Owned, Finalize, PrepareSteps, CommitSteps, UndoSteps,
         DestroySteps, DeleteSteps
    <2>2. Placed(n)'
      BY <1>0 DEF NodeInv, Placed, Finalize, PrepareSteps
    <2>3. Made(n)'
      BY <1>0 DEF Made, Finalize
    <2>4. Moving(n)'
      BY <1>0 DEF Moving, Finalize
    <2>5. Located(n)'
      BY <1>0 DEF NodeInv, Located, Committed, Finalize
    <2>6. Complete(n)'
      BY <1>0 DEF NodeInv, Complete, Committed, Finalize
    <2>7. Kept(n)'
      BY <1>0 DEF NodeInv, Kept, Finalize
    <2> QED
      BY <2>1, <2>2, <2>3, <2>4, <2>5, <2>6, <2>7 DEF NodeInv
  <1> QED
    BY <1>1, <1>2, <1>3, <1>4, Others DEF Inv

LEMMA MarkInv == ASSUME Inv, NEW n \in Node, Mark(n) PROVE Inv'
  <1>0. NodeInv(n) /\ TypeOK /\ Exclusion
    BY DEF Inv
  <1>1. TypeOK'
    BY <1>0 DEF TypeOK, Mark, DestroySteps
  <1>2. Exclusion'
    BY <1>0 DEF Exclusion, Mark
  <1>3. Only(n)
    BY <1>0 DEF Only, Mark
  <1>4. NodeInv(n)'
    <2>1. Owned(n)'
      BY <1>0 DEF NodeInv, StepsOf, Owned, Placed, Mark, CommitSteps, DestroySteps, DeleteSteps
    <2>2. Placed(n)'
      BY <1>0 DEF NodeInv, TypeOK, Placed, Committed, Mark, PrepareSteps
    <2>3. Made(n)'
      BY <1>0 DEF Made, Mark
    <2>4. Moving(n)'
      BY <1>0 DEF Moving, Mark
    <2>5. Located(n)'
      BY <1>0 DEF NodeInv, Located, Committed, Mark
    <2>6. Complete(n)'
      BY <1>0 DEF TypeOK, Complete, Mark
    <2>7. Kept(n)'
      BY <1>0 DEF NodeInv, Kept, Mark
    <2> QED
      BY <2>1, <2>2, <2>3, <2>4, <2>5, <2>6, <2>7 DEF NodeInv
  <1> QED
    BY <1>1, <1>2, <1>3, <1>4, Others DEF Inv

LEMMA TakeInv == ASSUME Inv, NEW n \in Node, Take(n) PROVE Inv'
  <1>0. NodeInv(n) /\ TypeOK /\ Exclusion
    BY DEF Inv
  <1>1. TypeOK'
    BY <1>0 DEF TypeOK, Take, disks, DestroySteps
  <1>2. Exclusion'
    BY <1>0 DEF Exclusion, Owned, NodeInv, StepsOf, Take, UndoSteps, DeleteSteps
  <1>3. Only(n)
    BY <1>0 DEF Only, Take, disks
  <1>4. NodeInv(n)'
    <2>1. Owned(n)'
      BY <1>0 DEF NodeInv, StepsOf, Owned, Placed, Take, CommitSteps, DestroySteps, DeleteSteps
    <2>2. Placed(n)'
      BY <1>0 DEF NodeInv, Placed, Committed, Take, disks, PrepareSteps
    <2>3. Made(n)'
      BY <1>0 DEF Made, Take
    <2>4. Moving(n)'
      BY <1>0 DEF Moving, Take
    <2>5. Located(n)'
      BY <1>0 DEF NodeInv, Located, Committed, Take, disks
    <2>6. Complete(n)'
      BY <1>0 DEF NodeInv, Complete, Committed, Take, disks
    <2>7. Kept(n)'
      BY <1>0 DEF NodeInv, Kept, Take, disks
    <2> QED
      BY <2>1, <2>2, <2>3, <2>4, <2>5, <2>6, <2>7 DEF NodeInv
  <1> QED
    BY <1>1, <1>2, <1>3, <1>4, Others DEF Inv

LEMMA PreserveInv == ASSUME Inv, NEW n \in Node, Preserve(n) PROVE Inv'
  <1>0. NodeInv(n) /\ TypeOK /\ Exclusion
    BY DEF Inv
  <1>1. TypeOK'
    BY <1>0 DEF TypeOK, Preserve, SourceExists, Artifact, CommitSteps, UndoSteps, DestroySteps
  <1>2. Exclusion'
    BY <1>0 DEF Exclusion, Preserve
  <1>3. Only(n)
    BY <1>0 DEF TypeOK, Only, Preserve
  <1>4. NodeInv(n)'
    <2>1. Owned(n)'
      BY <1>0 DEF NodeInv, TypeOK, StepsOf, Owned, Placed, Preserve, CommitSteps, DestroySteps,
         DeleteSteps
    <2>2. Placed(n)'
      BY <1>0 DEF NodeInv, TypeOK, Placed, Committed, Preserve, PrepareSteps
    <2>3. Made(n)'
      BY <1>0 DEF TypeOK, Made, Preserve
    <2>4. Moving(n)'
      BY <1>0 DEF NodeInv, TypeOK, Moving, Located, Preserve, SourceExists
    <2>5. Located(n)'
      BY <1>0 DEF NodeInv, Located, Committed, Preserve
    <2>6. Complete(n)'
      BY <1>0 DEF NodeInv, Complete, Committed, Preserve
    <2>7. Kept(n)'
      BY <1>0 DEF NodeInv, Kept, Preserve
    <2> QED
      BY <2>1, <2>2, <2>3, <2>4, <2>5, <2>6, <2>7 DEF NodeInv
  <1> QED
    BY <1>1, <1>2, <1>3, <1>4, Others DEF Inv

LEMMA PreserveDirInv == ASSUME Inv, NEW n \in Node, PreserveDir(n) PROVE Inv'
  <1>0. NodeInv(n) /\ TypeOK /\ Exclusion
    BY DEF Inv
  <1>1. TypeOK'
    BY <1>0 DEF TypeOK, PreserveDir, DestroySteps
  <1>2. Exclusion'
    BY <1>0 DEF Exclusion, PreserveDir
  <1>3. Only(n)
    BY <1>0 DEF Only, PreserveDir
  <1>4. NodeInv(n)'
    <2>1. Owned(n)'
      BY <1>0 DEF NodeInv, StepsOf, Owned, Placed, PreserveDir, CommitSteps, DestroySteps,
         DeleteSteps
    <2>2. Placed(n)'
      BY <1>0 DEF NodeInv, Placed, Committed, PreserveDir, PrepareSteps
    <2>3. Made(n)'
      BY <1>0 DEF Made, PreserveDir
    <2>4. Moving(n)'
      BY <1>0 DEF NodeInv, TypeOK, Moving, PreserveDir
    <2>5. Located(n)'
      BY <1>0 DEF NodeInv, Moving, Located, Committed, PreserveDir
    <2>6. Complete(n)'
      BY <1>0 DEF NodeInv, Placed, Complete, PreserveDir
    <2>7. Kept(n)'
      BY <1>0 DEF NodeInv, Moving, Kept, PreserveDir
    <2> QED
      BY <2>1, <2>2, <2>3, <2>4, <2>5, <2>6, <2>7 DEF NodeInv
  <1> QED
    BY <1>1, <1>2, <1>3, <1>4, Others DEF Inv

LEMMA PreserveMoveInv == ASSUME Inv, NEW n \in Node, PreserveMove(n) PROVE Inv'
  <1>0. NodeInv(n) /\ TypeOK /\ Exclusion
    BY DEF Inv
  <1>1. TypeOK'
    BY <1>0 DEF TypeOK, PreserveMove, DestroySteps
  <1>2. Exclusion'
    BY <1>0 DEF Exclusion, PreserveMove
  <1>3. Only(n)
    BY <1>0 DEF Only, PreserveMove
  <1>4. NodeInv(n)'
    <2>1. Owned(n)'
      BY <1>0 DEF NodeInv, StepsOf, Owned, Placed, PreserveMove, CommitSteps, DestroySteps,
         DeleteSteps
    <2>2. Placed(n)'
      BY <1>0 DEF NodeInv, Placed, Committed, PreserveMove, PrepareSteps
    <2>3. Made(n)'
      BY <1>0 DEF Made, PreserveMove
    <2>4. Moving(n)'
      BY <1>0 DEF NodeInv, TypeOK, Moving, PreserveMove
    <2>5. Located(n)'
      BY <1>0 DEF NodeInv, TypeOK, Moving, Located, PreserveMove
    <2>6. Complete(n)'
      BY <1>0 DEF NodeInv, Placed, Complete, PreserveMove
    <2>7. Kept(n)'
      BY <1>0 DEF NodeInv, TypeOK, Kept, PreserveMove
    <2> QED
      BY <2>1, <2>2, <2>3, <2>4, <2>5, <2>6, <2>7 DEF NodeInv
  <1> QED
    BY <1>1, <1>2, <1>3, <1>4, Others DEF Inv

LEMMA PreserveMarkerInv == ASSUME Inv, NEW n \in Node, PreserveMarker(n) PROVE Inv'
  <1>0. NodeInv(n) /\ TypeOK /\ Exclusion
    BY DEF Inv
  <1>1. TypeOK'
    BY <1>0 DEF TypeOK, PreserveMarker, DestroySteps
  <1>2. Exclusion'
    BY <1>0 DEF Exclusion, PreserveMarker
  <1>3. Only(n)
    BY <1>0 DEF Only, PreserveMarker
  <1>4. NodeInv(n)'
    <2>1. Owned(n)'
      BY <1>0 DEF NodeInv, StepsOf, Owned, Placed, PreserveMarker, CommitSteps, DestroySteps,
         DeleteSteps
    <2>2. Placed(n)'
      BY <1>0 DEF NodeInv, Placed, Committed, PreserveMarker, PrepareSteps
    <2>3. Made(n)'
      BY <1>0 DEF Made, PreserveMarker
    <2>4. Moving(n)'
      BY <1>0 DEF NodeInv, TypeOK, Moving, PreserveMarker
    <2>5. Located(n)'
      BY <1>0 DEF NodeInv, Located, Committed, PreserveMarker
    <2>6. Complete(n)'
      BY <1>0 DEF NodeInv, Complete, Committed, PreserveMarker
    <2>7. Kept(n)'
      BY <1>0 DEF NodeInv, Kept, PreserveMarker
    <2> QED
      BY <2>1, <2>2, <2>3, <2>4, <2>5, <2>6, <2>7 DEF NodeInv
  <1> QED
    BY <1>1, <1>2, <1>3, <1>4, Others DEF Inv

LEMMA RemoveInv == ASSUME Inv, NEW n \in Node, Remove(n) PROVE Inv'
  <1>0. NodeInv(n) /\ TypeOK /\ Exclusion
    BY DEF Inv
  <1>1. TypeOK'
    BY <1>0 DEF TypeOK, Remove, DestroySteps
  <1>2. Exclusion'
    BY <1>0 DEF Exclusion, Remove
  <1>3. Only(n)
    BY <1>0 DEF Only, Remove
  <1>4. NodeInv(n)'
    <2>1. Owned(n)'
      BY <1>0 DEF NodeInv, StepsOf, Owned, Placed, Remove, CommitSteps, DestroySteps, DeleteSteps
    <2>2. Placed(n)'
      BY <1>0 DEF NodeInv, TypeOK, Placed, Committed, Remove
    <2>3. Made(n)'
      BY <1>0 DEF Made, Remove
    <2>4. Moving(n)'
      BY <1>0 DEF NodeInv, Moving, Remove
    <2>5. Located(n)'
      BY <1>0 DEF NodeInv, Moving, Located, Committed, Remove
    <2>6. Complete(n)'
      BY <1>0 DEF NodeInv, Placed, Complete, Remove
    <2>7. Kept(n)'
      BY <1>0 DEF NodeInv, Kept, Remove, Disposable
    <2> QED
      BY <2>1, <2>2, <2>3, <2>4, <2>5, <2>6, <2>7 DEF NodeInv
  <1> QED
    BY <1>1, <1>2, <1>3, <1>4, Others DEF Inv

LEMMA RmdirInv == ASSUME Inv, NEW n \in Node, Rmdir(n) PROVE Inv'
  <1>0. NodeInv(n) /\ TypeOK /\ Exclusion
    BY DEF Inv
  <1>1. TypeOK'
    BY <1>0 DEF TypeOK, Rmdir
  <1>2. Exclusion'
    BY <1>0 DEF Exclusion, Rmdir
  <1>3. Only(n)
    BY <1>0 DEF Only, Rmdir
  <1>4. NodeInv(n)'
    <2>1. Owned(n)'
      BY <1>0 DEF NodeInv, StepsOf, Owned, Rmdir, PrepareSteps, CommitSteps, UndoSteps
    <2>2. Placed(n)'
      BY <1>0 DEF Placed, Rmdir, PrepareSteps
    <2>3. Made(n)'
      BY <1>0 DEF Made, Rmdir
    <2>4. Moving(n)'
      BY <1>0 DEF Moving, Rmdir
    <2>5. Located(n)'
      BY <1>0 DEF NodeInv, Located, Committed, Rmdir
    <2>6. Complete(n)'
      BY <1>0 DEF Complete, Committed, Rmdir
    <2>7. Kept(n)'
      BY <1>0 DEF NodeInv, Kept, Rmdir
    <2> QED
      BY <2>1, <2>2, <2>3, <2>4, <2>5, <2>6, <2>7 DEF NodeInv
  <1> QED
    BY <1>1, <1>2, <1>3, <1>4, Others DEF Inv

LEMMA DeleteStepInv == ASSUME Inv, NEW n \in Node, DeleteStep(n) PROVE Inv'
  <1>0. NodeInv(n) /\ TypeOK /\ Exclusion
    BY DEF Inv
  <1>1. TypeOK'
    BY <1>0, ZenonT(60) DEF TypeOK, DeleteStep, disks, control, Artifact, PrepareSteps, CommitSteps,
       UndoSteps, DestroySteps, DeleteSteps
  <1>2. Exclusion'
    BY <1>0 DEF Exclusion, DeleteStep
  <1>3. Only(n)
    BY <1>0 DEF TypeOK, Only, DeleteStep
  <1>4. NodeInv(n)'
    <2>1. Owned(n)'
      BY <1>0 DEF NodeInv, TypeOK, StepsOf, Owned, DeleteStep, PrepareSteps, CommitSteps,
         UndoSteps, DestroySteps, DeleteSteps
    <2>2. Placed(n)'
      BY <1>0 DEF NodeInv, TypeOK, Placed, DeleteStep, PrepareSteps
    <2>3. Made(n)'
      BY <1>0 DEF TypeOK, Made, DeleteStep
    <2>4. Moving(n)'
      BY <1>0 DEF TypeOK, Moving, DeleteStep
    <2>5. Located(n)'
      BY <1>0 DEF NodeInv, TypeOK, Exclusion, StepsOf, Owned, Placed, Located, Committed,
         DeleteStep, CommitSteps, DestroySteps
    <2>6. Complete(n)'
      BY <1>0 DEF NodeInv, Exclusion, StepsOf, Owned, Placed, Complete, Committed, DeleteStep,
         CommitSteps, DestroySteps
    <2>7. Kept(n)'
      BY <1>0 DEF NodeInv, TypeOK, Moving, Kept, DeleteStep
    <2> QED
      BY <2>1, <2>2, <2>3, <2>4, <2>5, <2>6, <2>7 DEF NodeInv
  <1> QED
    BY <1>1, <1>2, <1>3, <1>4, Others DEF Inv

LEMMA StartNodeInv == ASSUME Inv, NEW n \in Node, StartNode(n) PROVE Inv'
  <1>0. NodeInv(n) /\ TypeOK /\ Exclusion
    BY DEF Inv
  <1>1. TypeOK'
    BY <1>0 DEF TypeOK, StartNode, control
  <1>2. Exclusion'
    BY <1>0 DEF Exclusion, StartNode, control
  <1>3. Only(n)
    BY <1>0 DEF Only, StartNode, control
  <1>4. NodeInv(n)'
    <2>1. Owned(n)'
      BY <1>0 DEF NodeInv, Owned, StartNode, control
    <2>2. Placed(n)'
      BY <1>0 DEF NodeInv, Exclusion, Owned, Placed, StartNode, control
    <2>3. Made(n)'
      BY <1>0 DEF NodeInv, Made, StartNode, control
    <2>4. Moving(n)'
      BY <1>0 DEF NodeInv, Placed, Moving, Offline, StartNode, Offline, control
    <2>5. Located(n)'
      BY <1>0 DEF NodeInv, Located, Committed, StartNode
    <2>6. Complete(n)'
      BY <1>0 DEF NodeInv, TypeOK, Located, Complete, StartNode
    <2>7. Kept(n)'
      BY <1>0 DEF TypeOK, Kept, StartNode
    <2> QED
      BY <2>1, <2>2, <2>3, <2>4, <2>5, <2>6, <2>7 DEF NodeInv
  <1> QED
    BY <1>1, <1>2, <1>3, <1>4, Others DEF Inv

LEMMA StopNodeInv == ASSUME Inv, NEW n \in Node, StopNode(n) PROVE Inv'
  <1>0. NodeInv(n) /\ TypeOK /\ Exclusion
    BY DEF Inv
  <1>1. TypeOK'
    BY <1>0 DEF TypeOK, StopNode, control
  <1>2. Exclusion'
    BY <1>0 DEF Exclusion, StopNode, control
  <1>3. Only(n)
    BY <1>0 DEF Only, StopNode, control
  <1>4. NodeInv(n)'
    <2>1. Owned(n)'
      BY <1>0 DEF NodeInv, Owned, StopNode, control
    <2>2. Placed(n)'
      BY <1>0 DEF NodeInv, Placed, Committed, Offline, StopNode, control
    <2>3. Made(n)'
      BY <1>0 DEF NodeInv, Made, StopNode, control
    <2>4. Moving(n)'
      BY <1>0 DEF NodeInv, Moving, StopNode, control
    <2>5. Located(n)'
      BY <1>0 DEF NodeInv, Located, Committed, StopNode
    <2>6. Complete(n)'
      BY <1>0 DEF TypeOK, Complete, StopNode
    <2>7. Kept(n)'
      BY <1>0 DEF NodeInv, Kept, StopNode
    <2> QED
      BY <2>1, <2>2, <2>3, <2>4, <2>5, <2>6, <2>7 DEF NodeInv
  <1> QED
    BY <1>1, <1>2, <1>3, <1>4, Others DEF Inv

LEMMA ConvergeInv == ASSUME Inv, NEW n \in Node, Converge(n) PROVE Inv'
  <1>0. NodeInv(n) /\ TypeOK /\ Exclusion
    BY DEF Inv
  <1>1. TypeOK'
    BY <1>0 DEF TypeOK, Converge, control
  <1>2. Exclusion'
    BY <1>0 DEF Exclusion, Converge, control
  <1>3. Only(n)
    BY <1>0 DEF Only, Converge, control
  <1>4. NodeInv(n)'
    <2>1. Owned(n)'
      BY <1>0 DEF NodeInv, Owned, Converge, control
    <2>2. Placed(n)'
      BY <1>0 DEF NodeInv, Exclusion, Owned, Placed, Converge, control
    <2>3. Made(n)'
      BY <1>0 DEF NodeInv, Made, Converge, control
    <2>4. Moving(n)'
      BY <1>0 DEF NodeInv, Moving, Converge, control
    <2>5. Located(n)'
      BY <1>0 DEF NodeInv, Located, Committed, Converge
    <2>6. Complete(n)'
      BY <1>0 DEF Complete, Converge
    <2>7. Kept(n)'
      BY <1>0 DEF NodeInv, Kept, Converge
    <2> QED
      BY <2>1, <2>2, <2>3, <2>4, <2>5, <2>6, <2>7 DEF NodeInv
  <1> QED
    BY <1>1, <1>2, <1>3, <1>4, Others DEF Inv

LEMMA LaneCheckInv == ASSUME Inv, NEW n \in Node, LaneCheck(n) PROVE Inv'
  <1>0. (\A m \in Node : NodeInv(m)) /\ TypeOK /\ Exclusion
    BY DEF Inv
  <1>1. TypeOK'
    BY <1>0 DEF TypeOK, LaneCheck, disks, UndoSteps
  <1>2. Exclusion'
    BY <1>0 DEF Exclusion, LaneCheck, disks
  <1>3. ASSUME NEW m \in Node PROVE NodeInv(m)'
    <2>0. NodeInv(m)
      BY <1>0
    <2>1. Owned(m)'
      BY <1>0, <2>0 DEF NodeInv, TypeOK, StepsOf, Owned, Committed, LaneCheck, disks,
         CommitSteps, UndoSteps, DestroySteps, DeleteSteps
    <2>2. Placed(m)'
      BY <1>0, <2>0 DEF NodeInv, TypeOK, Placed, Committed, Offline, LaneCheck, RollbackAccepts,
         disks, PrepareSteps
    <2>3. Made(m)'
      BY <1>0, <2>0 DEF NodeInv, TypeOK, Exclusion, StepsOf, Owned, Placed, Made, LaneCheck,
         PrepareSteps, CommitSteps, DestroySteps
    <2>4. Moving(m)'
      BY <1>0, <2>0 DEF NodeInv, TypeOK, Moving, LaneCheck, disks
    <2>5. Located(m)'
      BY <1>0, <2>0 DEF NodeInv, Located, Committed, LaneCheck, disks
    <2>6. Complete(m)'
      BY <1>0, <2>0 DEF NodeInv, Complete, Committed, LaneCheck, disks
    <2>7. Kept(m)'
      BY <1>0, <2>0 DEF NodeInv, Kept, LaneCheck, disks
    <2> QED
      BY <2>1, <2>2, <2>3, <2>4, <2>5, <2>6, <2>7 DEF NodeInv
  <1> QED
    BY <1>1, <1>2, <1>3 DEF Inv

LEMMA LaneKilledInv == ASSUME Inv, LaneKilled PROVE Inv'
  <1>0. (\A m \in Node : NodeInv(m)) /\ TypeOK /\ Exclusion
    BY DEF Inv
  <1>1. TypeOK'
    BY <1>0 DEF TypeOK, LaneKilled, disks
  <1>2. Exclusion'
    BY <1>0 DEF Exclusion, LaneKilled, disks
  <1>3. ASSUME NEW m \in Node PROVE NodeInv(m)'
    <2>0. NodeInv(m)
      BY <1>0
    <2>1. Owned(m)'
      BY <1>0, <2>0 DEF NodeInv, Owned, LaneKilled
    <2>2. Placed(m)'
      BY <1>0, <2>0 DEF NodeInv, Placed, Committed, Offline, LaneKilled, disks, PrepareSteps
    <2>3. Made(m)'
      BY <1>0, <2>0 DEF NodeInv, Exclusion, StepsOf, Owned, Placed, Made, LaneKilled,
         PrepareSteps, DestroySteps
    <2>4. Moving(m)'
      BY <1>0, <2>0 DEF NodeInv, Moving, LaneKilled, disks
    <2>5. Located(m)'
      BY <1>0, <2>0 DEF NodeInv, Located, Committed, LaneKilled, disks
    <2>6. Complete(m)'
      BY <1>0, <2>0 DEF NodeInv, Complete, Committed, LaneKilled, disks
    <2>7. Kept(m)'
      BY <1>0, <2>0 DEF NodeInv, Kept, LaneKilled, disks
    <2> QED
      BY <2>1, <2>2, <2>3, <2>4, <2>5, <2>6, <2>7 DEF NodeInv
  <1> QED
    BY <1>1, <1>2, <1>3 DEF Inv

LEMMA UpBeginInv == ASSUME Inv, UpBegin PROVE Inv'
  <1>0. (\A m \in Node : NodeInv(m)) /\ TypeOK /\ Exclusion
    BY DEF Inv
  <1>1. TypeOK'
    BY <1>0 DEF TypeOK, UpBegin, disks, PrepareSteps
  <1>2. Exclusion'
    BY <1>0 DEF Exclusion, UpBegin
  <1>3. ASSUME NEW m \in Node PROVE NodeInv(m)'
    <2>0. NodeInv(m)
      BY <1>0
    <2>1. Owned(m)'
      BY <1>0, <2>0 DEF NodeInv, StepsOf, Owned, UpBegin, PrepareSteps
    <2>2. Placed(m)'
      BY <1>0, <2>0 DEF NodeInv, Placed, Committed, Offline, UpBegin, disks
    <2>3. Made(m)'
      BY <1>0, <2>0 DEF NodeInv, Exclusion, Owned, Made, UpBegin
    <2>4. Moving(m)'
      BY <1>0, <2>0 DEF NodeInv, Exclusion, Owned, Moving, UpBegin
    <2>5. Located(m)'
      BY <1>0, <2>0 DEF NodeInv, Located, Committed, UpBegin, disks
    <2>6. Complete(m)'
      BY <1>0, <2>0 DEF NodeInv, Complete, Committed, UpBegin, disks
    <2>7. Kept(m)'
      BY <1>0, <2>0 DEF NodeInv, Kept, UpBegin, disks
    <2> QED
      BY <2>1, <2>2, <2>3, <2>4, <2>5, <2>6, <2>7 DEF NodeInv
  <1> QED
    BY <1>1, <1>2, <1>3 DEF Inv

LEMMA CommitDocumentInv == ASSUME Inv, CommitDocument PROVE Inv'
  <1>0. (\A m \in Node : NodeInv(m)) /\ TypeOK /\ Exclusion
    BY DEF Inv
  <1>1. TypeOK'
    BY <1>0 DEF TypeOK, CommitDocument, disks
  <1>2. Exclusion'
    BY <1>0 DEF Exclusion, CommitDocument
  <1>3. ASSUME NEW m \in Node PROVE NodeInv(m)'
    <2>0. NodeInv(m)
      BY <1>0
    <2>1. Owned(m)'
      BY <1>0, <2>0 DEF NodeInv, Exclusion, StepsOf, Owned, CommitDocument, Prepared, CommitSteps
    <2>2. Placed(m)'
      BY <1>0, <2>0 DEF NodeInv, Owned, Placed, Committed, CommitDocument, Prepared, disks
    <2>3. Made(m)'
      BY <1>0, <2>0 DEF NodeInv, Made, CommitDocument, disks
    <2>4. Moving(m)'
      BY <1>0, <2>0 DEF NodeInv, Owned, Moving, CommitDocument, Prepared, UndoSteps
    <2>5. Located(m)'
      BY <1>0, <2>0 DEF NodeInv, Located, Committed, CommitDocument, disks
    <2>6. Complete(m)'
      BY <1>0, <2>0 DEF NodeInv, Complete, Committed, CommitDocument, disks
    <2>7. Kept(m)'
      BY <1>0, <2>0 DEF NodeInv, Kept, CommitDocument, disks
    <2> QED
      BY <2>1, <2>2, <2>3, <2>4, <2>5, <2>6, <2>7 DEF NodeInv
  <1> QED
    BY <1>1, <1>2, <1>3 DEF Inv

LEMMA CommitRefusedInv == ASSUME Inv, CommitRefused PROVE Inv'
  <1>0. (\A m \in Node : NodeInv(m)) /\ TypeOK /\ Exclusion
    BY DEF Inv
  <1>1. TypeOK'
    BY <1>0 DEF TypeOK, CommitRefused, Leave, Failed, disks, UndoSteps
  <1>2. Exclusion'
    BY <1>0 DEF Exclusion, CommitRefused, Leave
  <1>3. ASSUME NEW m \in Node PROVE NodeInv(m)'
    <2>0. NodeInv(m)
      BY <1>0
    <2>1. Owned(m)'
      BY <1>0, <2>0 DEF NodeInv, Exclusion, Owned, Committed, CommitRefused, Leave, disks,
         UndoSteps
    <2>2. Placed(m)'
      BY <1>0, <2>0 DEF NodeInv, Owned, Placed, Committed, CommitRefused, Leave, disks,
         PrepareSteps
    <2>3. Made(m)'
      BY <1>0, <2>0 DEF NodeInv, Owned, Made, CommitRefused, Leave, UndoSteps
    <2>4. Moving(m)'
      BY <1>0, <2>0 DEF NodeInv, Owned, Moving, CommitRefused, Leave, UndoSteps
    <2>5. Located(m)'
      BY <1>0, <2>0 DEF NodeInv, Located, Committed, CommitRefused, disks
    <2>6. Complete(m)'
      BY <1>0, <2>0 DEF NodeInv, Complete, Committed, CommitRefused, disks
    <2>7. Kept(m)'
      BY <1>0, <2>0 DEF NodeInv, Kept, CommitRefused, disks
    <2> QED
      BY <2>1, <2>2, <2>3, <2>4, <2>5, <2>6, <2>7 DEF NodeInv
  <1> QED
    BY <1>1, <1>2, <1>3 DEF Inv

LEMMA UpEndInv == ASSUME Inv, UpEnd PROVE Inv'
  <1>0. (\A m \in Node : NodeInv(m)) /\ TypeOK /\ Exclusion
    BY DEF Inv
  <1>1. TypeOK'
    BY <1>0 DEF TypeOK, UpEnd, Leave, Failed, disks, UndoSteps
  <1>2. Exclusion'
    BY <1>0 DEF Exclusion, UpEnd, Leave
  <1>3. ASSUME NEW m \in Node PROVE NodeInv(m)'
    <2>0. NodeInv(m)
      BY <1>0
    <2>1. Owned(m)'
      BY <1>0, <2>0 DEF NodeInv, Exclusion, Owned, Committed, UpEnd, Leave, disks, UndoSteps
    <2>2. Placed(m)'
      BY <1>0, <2>0 DEF NodeInv, Owned, Placed, Committed, UpEnd, Leave, disks, PrepareSteps
    <2>3. Made(m)'
      BY <1>0, <2>0 DEF NodeInv, Owned, Made, UpEnd, Leave, UndoSteps
    <2>4. Moving(m)'
      BY <1>0, <2>0 DEF NodeInv, Owned, Moving, UpEnd, Leave, UndoSteps
    <2>5. Located(m)'
      BY <1>0, <2>0 DEF NodeInv, Located, Committed, UpEnd, disks
    <2>6. Complete(m)'
      BY <1>0, <2>0 DEF NodeInv, Complete, Committed, UpEnd, disks
    <2>7. Kept(m)'
      BY <1>0, <2>0 DEF NodeInv, Kept, UpEnd, disks
    <2> QED
      BY <2>1, <2>2, <2>3, <2>4, <2>5, <2>6, <2>7 DEF NodeInv
  <1> QED
    BY <1>1, <1>2, <1>3 DEF Inv

LEMMA DestroyBeginInv == ASSUME Inv, DestroyBegin PROVE Inv'
  <1>0. (\A m \in Node : NodeInv(m)) /\ TypeOK /\ Exclusion
    BY DEF Inv
  <1>1. TypeOK'
    BY <1>0 DEF TypeOK, DestroyBegin, disks, DestroySteps
  <1>2. Exclusion'
    BY <1>0 DEF Exclusion, DestroyBegin
  <1>3. ASSUME NEW m \in Node PROVE NodeInv(m)'
    <2>0. NodeInv(m)
      BY <1>0
    <2>1. Owned(m)'
      BY <1>0, <2>0 DEF NodeInv, StepsOf, Owned, Committed, DestroyBegin, disks, DestroySteps
    <2>2. Placed(m)'
      BY <1>0, <2>0 DEF NodeInv, Placed, Committed, Offline, DestroyBegin, DestroyAccepts, disks,
         PrepareSteps
    <2>3. Made(m)'
      BY <1>0, <2>0 DEF NodeInv, Exclusion, Owned, Made, DestroyBegin, UndoSteps
    <2>4. Moving(m)'
      BY <1>0, <2>0 DEF NodeInv, Exclusion, Owned, Moving, DestroyBegin, UndoSteps
    <2>5. Located(m)'
      BY <1>0, <2>0 DEF NodeInv, Located, Committed, DestroyBegin, disks
    <2>6. Complete(m)'
      BY <1>0, <2>0 DEF NodeInv, Complete, Committed, DestroyBegin, disks
    <2>7. Kept(m)'
      BY <1>0, <2>0 DEF NodeInv, Kept, DestroyBegin, disks
    <2> QED
      BY <2>1, <2>2, <2>3, <2>4, <2>5, <2>6, <2>7 DEF NodeInv
  <1> QED
    BY <1>1, <1>2, <1>3 DEF Inv

LEMMA PreserveUndoInv == ASSUME Inv, NEW n \in Node, PreserveUndo(n) PROVE Inv'
  <1>0. (\A m \in Node : NodeInv(m)) /\ TypeOK /\ Exclusion
    BY DEF Inv
  <1>1. TypeOK'
    <2>1. /\ UNCHANGED <<dirs, journal, phase, disk, declared>>
          /\ store' \in [Node -> {"absent", "parent", "dir", "disk", "full", "marker"}]
          /\ files' \in [Node -> SUBSET (Artifact \cup {"journal", "state", "temp"})]
      BY <1>0 DEF TypeOK, PreserveUndo, Artifact
    <2>2. written' \in [Node -> {"none", "local", "retained", "lost"}]
      BY <1>0 DEF TypeOK, PreserveUndo
    <2>3. /\ command' = "none" /\ want' = {} /\ scope' = {} /\ lane' \subseteq Node
          /\ at' = [m \in Node |-> IF m \in lane' \ lane THEN "check"
                                   ELSE IF m \in scope THEN "idle" ELSE at[m]]
      BY <1>0 DEF TypeOK, PreserveUndo, Leave, Failed
    <2>4. at' \in [Node -> {"idle", "check"} \cup {at[m] : m \in Node}]
      BY <2>3
    <2> QED
      BY <1>0, <2>1, <2>2, <2>3, <2>4 DEF TypeOK, UndoSteps
  <1>2. Exclusion'
    BY <1>0 DEF Exclusion, PreserveUndo, Leave
  <1>3. ASSUME NEW m \in Node PROVE NodeInv(m)'
    <2>0. NodeInv(m)
      BY <1>0
    <2>1. Owned(m)'
      BY <1>0, <2>0 DEF NodeInv, Exclusion, Owned, Committed, PreserveUndo, Leave, UndoSteps
    <2>2. Placed(m)'
      BY <1>0, <2>0 DEF NodeInv, Owned, Placed, Committed, PreserveUndo, Leave, PrepareSteps
    <2>3. Made(m)'
      BY <1>0, <2>0 DEF NodeInv, Made, PreserveUndo, Leave
    <2>4. Moving(m)'
      BY <1>0, <2>0 DEF NodeInv, Owned, Placed, Moving, PreserveUndo, Leave
    <2>5. Located(m)'
      BY <1>0, <2>0 DEF NodeInv, TypeOK, Placed, Moving, Located, Kept, Committed, PreserveUndo
    <2>6. Complete(m)'
      BY <1>0, <2>0 DEF NodeInv, Placed, Complete, Committed, PreserveUndo
    <2>7. Kept(m)'
      BY <1>0, <2>0 DEF NodeInv, TypeOK, Moving, Kept, PreserveUndo
    <2> QED
      BY <2>1, <2>2, <2>3, <2>4, <2>5, <2>6, <2>7 DEF NodeInv
  <1> QED
    BY <1>1, <1>2, <1>3 DEF Inv

LEMMA DestroyEndInv == ASSUME Inv, DestroyEnd PROVE Inv'
  <1>0. (\A m \in Node : NodeInv(m)) /\ TypeOK /\ Exclusion
    BY DEF Inv
  <1>1. TypeOK'
    BY <1>0 DEF TypeOK, DestroyEnd, Leave, disks
  <1>2. Exclusion'
    BY <1>0 DEF Exclusion, DestroyEnd, Leave
  <1>3. ASSUME NEW m \in Node PROVE NodeInv(m)'
    <2>0. NodeInv(m)
      BY <1>0
    <2>1. Owned(m)'
      BY <1>0, <2>0 DEF NodeInv, Owned, Committed, DestroyEnd, Leave, disks
    <2>2. Placed(m)'
      BY <1>0, <2>0 DEF NodeInv, Owned, Placed, Committed, DestroyEnd, Leave, disks
    <2>3. Made(m)'
      BY <1>0, <2>0 DEF NodeInv, Owned, Made, DestroyEnd, Leave, UndoSteps
    <2>4. Moving(m)'
      BY <1>0, <2>0 DEF NodeInv, Owned, Moving, DestroyEnd, Leave, UndoSteps
    <2>5. Located(m)'
      BY <1>0, <2>0 DEF NodeInv, Located, Committed, DestroyEnd, disks
    <2>6. Complete(m)'
      BY <1>0, <2>0 DEF NodeInv, Complete, Committed, DestroyEnd, disks
    <2>7. Kept(m)'
      BY <1>0, <2>0 DEF NodeInv, Kept, DestroyEnd, disks
    <2> QED
      BY <2>1, <2>2, <2>3, <2>4, <2>5, <2>6, <2>7 DEF NodeInv
  <1> QED
    BY <1>1, <1>2, <1>3 DEF Inv

LEMMA DeleteBeginInv == ASSUME Inv, DeleteBegin PROVE Inv'
  <1>0. (\A m \in Node : NodeInv(m)) /\ TypeOK /\ Exclusion
    BY DEF Inv
  <1>1. TypeOK'
    BY <1>0 DEF TypeOK, DeleteBegin, disks, DeleteSteps
  <1>2. Exclusion'
    BY <1>0 DEF Exclusion, DeleteBegin, disks
  <1>3. ASSUME NEW m \in Node PROVE NodeInv(m)'
    <2>0. NodeInv(m)
      BY <1>0
    <2>1. Owned(m)'
      BY <1>0, <2>0 DEF StepsOf, Owned, DeleteBegin, DeleteSteps
    <2>2. Placed(m)'
      BY <1>0, <2>0 DEF NodeInv, Placed, DeleteBegin, disks, PrepareSteps
    <2>3. Made(m)'
      BY <1>0, <2>0 DEF Made, DeleteBegin
    <2>4. Moving(m)'
      BY <1>0, <2>0 DEF Moving, DeleteBegin
    <2>5. Located(m)'
      BY <1>0, <2>0 DEF NodeInv, Located, Committed, DeleteBegin, disks
    <2>6. Complete(m)'
      BY <1>0, <2>0 DEF NodeInv, Complete, Committed, DeleteBegin, disks
    <2>7. Kept(m)'
      BY <1>0, <2>0 DEF NodeInv, Kept, DeleteBegin, disks
    <2> QED
      BY <2>1, <2>2, <2>3, <2>4, <2>5, <2>6, <2>7 DEF NodeInv
  <1> QED
    BY <1>1, <1>2, <1>3 DEF Inv

LEMMA DeleteEndInv == ASSUME Inv, DeleteEnd PROVE Inv'
  <1>0. (\A m \in Node : NodeInv(m)) /\ TypeOK /\ Exclusion
    BY DEF Inv
  <1>1. TypeOK'
    BY <1>0 DEF TypeOK, DeleteEnd, Leave, disks
  <1>2. Exclusion'
    BY <1>0 DEF Exclusion, DeleteEnd, Leave
  <1>3. ASSUME NEW m \in Node PROVE NodeInv(m)'
    <2>0. NodeInv(m)
      BY <1>0
    <2>1. Owned(m)'
      BY <1>0, <2>0 DEF NodeInv, Owned, Committed, DeleteEnd, Leave, disks
    <2>2. Placed(m)'
      BY <1>0, <2>0 DEF NodeInv, Owned, Placed, Committed, DeleteEnd, Leave, disks
    <2>3. Made(m)'
      BY <1>0, <2>0 DEF NodeInv, Owned, Made, DeleteEnd, Leave, UndoSteps
    <2>4. Moving(m)'
      BY <1>0, <2>0 DEF NodeInv, Owned, Moving, DeleteEnd, Leave, UndoSteps
    <2>5. Located(m)'
      BY <1>0, <2>0 DEF NodeInv, Located, Committed, DeleteEnd, disks
    <2>6. Complete(m)'
      BY <1>0, <2>0 DEF NodeInv, Complete, Committed, DeleteEnd, disks
    <2>7. Kept(m)'
      BY <1>0, <2>0 DEF NodeInv, Kept, DeleteEnd, disks
    <2> QED
      BY <2>1, <2>2, <2>3, <2>4, <2>5, <2>6, <2>7 DEF NodeInv
  <1> QED
    BY <1>1, <1>2, <1>3 DEF Inv

LEMMA KilledInv == ASSUME Inv, Killed PROVE Inv'
  <1>0. (\A m \in Node : NodeInv(m)) /\ TypeOK /\ Exclusion
    BY DEF Inv
  <1>1. TypeOK'
    BY <1>0 DEF TypeOK, Killed
  <1>2. Exclusion'
    BY <1>0 DEF Exclusion, Killed
  <1>3. ASSUME NEW m \in Node PROVE NodeInv(m)'
    <2>0. NodeInv(m)
      BY <1>0
    <2>1. Owned(m)'
      BY <1>0, <2>0 DEF NodeInv, Owned, Committed, Killed
    <2>2. Placed(m)'
      BY <1>0, <2>0 DEF NodeInv, Owned, Placed, Committed, Killed, Writing, PrepareSteps
    <2>3. Made(m)'
      BY <1>0, <2>0 DEF NodeInv, Made, Killed
    <2>4. Moving(m)'
      BY <1>0, <2>0 DEF NodeInv, Moving, Killed
    <2>5. Located(m)'
      BY <1>0, <2>0 DEF NodeInv, Located, Committed, Killed
    <2>6. Complete(m)'
      BY <1>0, <2>0 DEF NodeInv, Complete, Committed, Killed
    <2>7. Kept(m)'
      BY <1>0, <2>0 DEF NodeInv, Kept, Killed
    <2> QED
      BY <2>1, <2>2, <2>3, <2>4, <2>5, <2>6, <2>7 DEF NodeInv
  <1> QED
    BY <1>1, <1>2, <1>3 DEF Inv

-----------------------------------------------------------------------------
LEMMA StepInv == ASSUME Inv, [Next]_vars PROVE Inv'
  <1>1. CASE UNCHANGED vars
    BY <1>1 DEF Inv, vars, TypeOK, Exclusion, NodeInv, Owned, Placed, Made, Moving, Located, Complete,
                Kept, Committed, Offline
  <1>2. CASE Up
    BY <1>2, UpBeginInv, CommitDocumentInv, CommitRefusedInv, UpEndInv, MkdirInv, JournalCreatedInv,
       CreateRootInv, RecordRootInv, DataDiskInv, RecordDataInv, CreateSeedInv, RecordSeedInv, SealInv,
       PrepareFailsInv, CommitStateInv, CommitFlagInv, FinalizeInv DEF Up, PrepareNode
  <1>3. CASE Rollback
    BY <1>3, LaneKilledInv, LaneCheckInv, UndoFileInv, UndoDirInv DEF Rollback
  <1>4. CASE Destroy
    BY <1>4, DestroyBeginInv, DestroyEndInv, MarkInv, TakeInv, PreserveInv, PreserveDirInv,
       PreserveMoveInv, PreserveMarkerInv, PreserveUndoInv, RemoveInv, RmdirInv DEF Destroy
  <1>5. CASE Delete
    BY <1>5, DeleteBeginInv, DeleteEndInv, DeleteStepInv DEF Delete
  <1>6. CASE Lifecycle
    BY <1>6, StartNodeInv, StopNodeInv, ConvergeInv DEF Lifecycle
  <1> QED
    BY <1>1, <1>2, <1>3, <1>4, <1>5, <1>6, KilledInv DEF Next

\* The inductive invariant: what each step of a command implies about the
\* files, the store and the data of the node it works on.
THEOREM Invariance == Spec => []Inv
  <1>1. Inv /\ [Next]_vars => Inv'
    BY StepInv
  <1> QED
    BY <1>1, InitInv, PTL DEF Spec

\* Every step keeps the files, the journal and the store in their types.
THEOREM TypeCorrect == Spec => []TypeOK
  <1>1. Inv => TypeOK
    BY DEF Inv
  <1> QED
    BY <1>1, Invariance, PTL

\* A prepared or running node has every file it was committed with, whatever
\* was interrupted and whoever failed next to it (prepare.go, commit.go,
\* rollback.go, destroy.go).
THEOREM CommittedComplete == Spec => []CommittedIsComplete
  <1>1. Inv => CommittedIsComplete
    BY DEF Inv, NodeInv, Complete, CommittedIsComplete
  <1> QED
    BY <1>1, Invariance, PTL

\* What a guest wrote to a persistent disk exists until `purge` (destroy.go,
\* persistent/store.go).
THEOREM DataKept == Spec => []PersistentDataKept
  <1>1. Inv => PersistentDataKept
    BY PersistentAssumption DEF Inv, NodeInv, Kept, PersistentDataKept
  <1> QED
    BY <1>1, Invariance, PTL

\* Nothing but a start makes a node run: every other step keeps the phases, or
\* sets one of them to something else.
LEMMA OnlyStartRuns ==
    ASSUME TypeOK, [Next]_vars, NEW n \in Node, phase[n] # "running", phase'[n] = "running"
    PROVE  \E m \in Node : StartNode(m)
  <1> DEFINE Sets(m, value) == phase' = [phase EXCEPT ![m] = value]
  <1>1. ASSUME NEW m \in Node, NEW value, value # "running", Sets(m, value) PROVE FALSE
    BY <1>1 DEF TypeOK
  <1>2. ~UNCHANGED phase
    OBVIOUS
  <1>3. ASSUME Up PROVE FALSE
    <2>1. ~(UpBegin \/ CommitDocument \/ CommitRefused \/ UpEnd)
      BY <1>2 DEF UpBegin, CommitDocument, CommitRefused, UpEnd, disks
    <2>2. PICK m \in Node : \/ PrepareNode(m) \/ PrepareFails(m) \/ CommitState(m)
                            \/ CommitFlag(m) \/ Finalize(m)
      BY <1>3, <2>1 DEF Up
    <2>3. ~PrepareNode(m)
      <3>1. ~(Mkdir(m) \/ JournalCreated(m) \/ DataDisk(m) \/ Seal(m))
        BY <1>2 DEF Mkdir, JournalCreated, DataDisk, Create, Seal, disks
      <3>2. ~(Create(m, "root", "root", "rootRec") \/ Create(m, "seed", "seed", "seedRec"))
        BY <1>2 DEF Create
      <3>3. ~(\/ Record(m, "rootRec", "root", "data") \/ Record(m, "dataRec", "data", "seed")
              \/ Record(m, "seedRec", "seed", "seal"))
        BY <1>2 DEF Record
      <3> QED
        BY <3>1, <3>2, <3>3 DEF PrepareNode
    <2>4. ~(PrepareFails(m) \/ CommitFlag(m) \/ Finalize(m))
      BY <1>2 DEF PrepareFails, CommitFlag, Finalize, disks
    <2>5. Sets(m, "prepared")
      BY <2>2, <2>3, <2>4 DEF CommitState
    <2> HIDE DEF Sets
    <2> QED
      BY <1>1, <2>5
  <1>4. ~Rollback
    BY <1>2 DEF Rollback, LaneKilled, LaneCheck, UndoFile, UndoDir, disks
  <1>5. ASSUME Destroy PROVE FALSE
    <2>1. ~(DestroyBegin \/ DestroyEnd)
      BY <1>2 DEF DestroyBegin, DestroyEnd, disks
    <2>2. PICK m \in Node : \/ Mark(m) \/ Take(m) \/ Preserve(m) \/ PreserveDir(m)
                            \/ PreserveMove(m) \/ PreserveMarker(m) \/ PreserveUndo(m)
                            \/ Remove(m) \/ Rmdir(m)
      BY <1>5, <2>1 DEF Destroy
    <2>3. ~(Take(m) \/ Preserve(m) \/ PreserveDir(m) \/ PreserveMove(m) \/ PreserveMarker(m))
      BY <1>2 DEF Take, Preserve, PreserveDir, PreserveMove, PreserveMarker, disks
    <2>4. ~(PreserveUndo(m) \/ Remove(m) \/ Rmdir(m))
      BY <1>2 DEF PreserveUndo, Remove, Rmdir
    <2>5. Sets(m, "destroying")
      BY <2>2, <2>3, <2>4 DEF Mark
    <2> HIDE DEF Sets
    <2> QED
      BY <1>1, <2>5
  <1>6. ~(Delete \/ Killed)
    BY <1>2 DEF Delete, DeleteBegin, DeleteEnd, DeleteStep, Killed, disks
  <1>7. PICK m \in Node : StartNode(m) \/ StopNode(m) \/ Converge(m)
    BY <1>2, <1>3, <1>4, <1>5, <1>6 DEF Next, Lifecycle, vars
  <1>8. ASSUME StopNode(m) \/ Converge(m) PROVE FALSE
    <2>1. Sets(m, "stopped")
      BY <1>8 DEF StopNode, Converge
    <2> HIDE DEF Sets
    <2> QED
      BY <1>1, <2>1
  <1> QED
    BY <1>7, <1>8

\* A node never boots from a blank disk while its data is kept elsewhere
\* (resolvePrivateDataDisk).
THEOREM OwnData == Spec => BootsItsOwnData
  <1> DEFINE Boots == \A n \in Persistent : phase[n] # "running" /\ phase'[n] = "running"
                        => written[n] \in {"none", disk[n]}
  <1>1. ASSUME Inv, [Next]_vars PROVE Boots
    <2> SUFFICES ASSUME NEW n \in Persistent, phase[n] # "running", phase'[n] = "running"
                 PROVE  written[n] \in {"none", disk[n]}
      OBVIOUS
    <2>1. n \in Node /\ NodeInv(n) /\ TypeOK
      BY <1>1, PersistentAssumption DEF Inv
    <2>2. PICK m \in Node : StartNode(m)
      BY <1>1, <2>1, OnlyStartRuns
    <2>3. m = n /\ Committed(n) /\ disk[n] \in {"local", "retained"}
          /\ (disk[n] = "local" => "data" \in files[n])
      BY <2>1, <2>2 DEF StartNode, TypeOK
    <2> QED
      BY <2>1, <2>3 DEF TypeOK, NodeInv, Located, Kept
  <1>2. Inv /\ [Next]_vars => [Boots]_vars
    BY <1>1
  <1> QED
    BY <1>2, Invariance, PTL DEF Spec, BootsItsOwnData

-----------------------------------------------------------------------------
\* The data of the contract.
hasData == [n \in Node |-> written[n] # "none"]
contract == <<status, hasData>>

\* A step on one node changes the node's entry of the contract only.
LEMMA OthersSame ==
    ASSUME NEW n \in Node, Only(n)
    PROVE  /\ status' = [status EXCEPT ![n] = status'[n]]
           /\ hasData' = [hasData EXCEPT ![n] = hasData'[n]]
  BY ZenonT(30) DEF Only, status, hasData, Committed

\* A step that keeps the node's entry is none of the contract.
LEMMA Hidden ==
    ASSUME NEW n \in Node, Only(n), status'[n] = status[n], hasData'[n] = hasData[n]
    PROVE  UNCHANGED contract
  BY DEF Only, status, hasData, Committed, contract

\* The steps of a prepare, of the moves of a disk and of a stop are hidden.
LEMMA QuietSteps ==
    ASSUME Inv, NEW n \in Node,
           \/ JournalCreated(n) \/ Create(n, "root", "root", "rootRec")
           \/ Record(n, "rootRec", "root", "data") \/ DataDisk(n)
           \/ Record(n, "dataRec", "data", "seed") \/ Create(n, "seed", "seed", "seedRec")
           \/ Record(n, "seedRec", "seed", "seal") \/ Seal(n) \/ PrepareFails(n)
           \/ CommitFlag(n) \/ Finalize(n) \/ UndoFile(n) \/ Take(n) \/ Preserve(n)
           \/ PreserveDir(n) \/ PreserveMove(n) \/ PreserveMarker(n) \/ StopNode(n)
    PROVE  UNCHANGED contract
  <1>1. TypeOK /\ Placed(n)
    BY DEF Inv, NodeInv
  <1>2. Only(n)
    BY <1>1 DEF TypeOK, Only, disks, control, JournalCreated, Create, Record, DataDisk, Seal, PrepareFails,
       CommitFlag, Finalize, UndoFile, Take, Preserve, PreserveDir, PreserveMove, PreserveMarker, StopNode
  <1>3. Committed(n)' = Committed(n)
    BY <1>1 DEF Committed, TypeOK, disks, JournalCreated, Create, Record, DataDisk, Seal, PrepareFails,
       CommitFlag, Finalize, UndoFile, Take, Preserve, PreserveDir, PreserveMove, PreserveMarker, StopNode
  <1>4. dirs' = dirs /\ (phase'[n] = "destroying" <=> phase[n] = "destroying")
    BY <1>1 DEF TypeOK, disks, JournalCreated, Create, Record, DataDisk, Seal, PrepareFails,
       CommitFlag, Finalize, UndoFile, Take, Preserve, PreserveDir, PreserveMove, PreserveMarker, StopNode
  <1>5. written'[n] # "none" <=> written[n] # "none"
    BY <1>1 DEF TypeOK, disks, JournalCreated, Create, Record, DataDisk, Seal, PrepareFails,
       CommitFlag, Finalize, UndoFile, Take, Preserve, PreserveDir, PreserveMove, PreserveMarker, StopNode
  <1> QED
    BY <1>2, <1>3, <1>4, <1>5, Hidden DEF status, hasData

\* The beginnings and ends of commands, and what may be left behind by a kill.
LEMMA QuietCommands ==
    ASSUME Inv,
           \/ UpBegin \/ CommitDocument \/ CommitRefused \/ UpEnd \/ LaneKilled
           \/ DestroyBegin \/ DestroyEnd \/ DeleteBegin \/ DeleteEnd \/ Killed
           \/ \E n \in Node : LaneCheck(n) \/ PreserveUndo(n)
    PROVE  UNCHANGED contract
  <1>1. TypeOK
    BY DEF Inv
  <1>2. UNCHANGED <<dirs, phase>>
    BY DEF disks, UpBegin, CommitDocument, CommitRefused, UpEnd, LaneKilled, DestroyBegin, DestroyEnd,
       DeleteBegin, DeleteEnd, Killed, LaneCheck, PreserveUndo
  <1>3. \A m \in Node : Committed(m)' = Committed(m) /\ (written'[m] # "none" <=> written[m] # "none")
    <2>1. CASE \E n \in Node : PreserveUndo(n)
      BY <1>1, <2>1 DEF PreserveUndo, TypeOK, Committed
    <2>2. CASE Killed
      BY <1>1, <2>2 DEF Killed, TypeOK, Committed
    <2>3. CASE UNCHANGED <<files, written>>
      BY <2>3 DEF Committed
    <2> QED
      BY <2>1, <2>2, <2>3 DEF disks, UpBegin, CommitDocument, CommitRefused, UpEnd, LaneKilled,
         DestroyBegin, DestroyEnd, DeleteBegin, DeleteEnd, LaneCheck
  <1> QED
    BY <1>2, <1>3 DEF contract, status, hasData

\* The steps the contract sees.
LEMMA VisibleSteps ==
    ASSUME Inv, NEW n \in Node,
           \/ Mkdir(n) \/ CommitState(n) \/ Mark(n) \/ Converge(n) \/ Remove(n)
           \/ Rmdir(n) \/ UndoDir(n) \/ StartNode(n) \/ DeleteStep(n)
    PROVE  [Abstract!Next]_contract
  <1>1. TypeOK /\ NodeInv(n)
    BY DEF Inv
  <1>2. Only(n)
    BY <1>1 DEF TypeOK, Only, disks, Mkdir, CommitState, Mark, Converge, Remove, Rmdir, UndoDir, StartNode,
       DeleteStep, control
  <1>3. /\ status' = [status EXCEPT ![n] = status'[n]]
        /\ hasData' = [hasData EXCEPT ![n] = hasData'[n]]
    BY <1>2, OthersSame
  <1>4. ASSUME hasData'[n] = hasData[n] PROVE UNCHANGED hasData
    BY <1>3, <1>4 DEF hasData
  <1>5. ASSUME status'[n] = status[n] PROVE UNCHANGED status
    BY <1>3, <1>5 DEF status
  <1>6. CASE Mkdir(n)
    <2>1. hasData'[n] = hasData[n]
      BY <1>6 DEF Mkdir, hasData
    <2>2. \/ status'[n] = status[n]
          \/ status[n] = "absent" /\ status'[n] = "unfinished"
      BY <1>1, <1>6 DEF Mkdir, status, NodeInv, Placed, Committed
    <2> QED
      BY <1>3, <1>4, <1>5, <2>1, <2>2 DEF Abstract!Next, Abstract!Begin, Abstract!Move, contract, hasData
  <1>7. CASE CommitState(n)
    <2>1. hasData'[n] = hasData[n]
      BY <1>7 DEF CommitState, hasData
    <2>2. status[n] = "unfinished" /\ status'[n] = "committed"
      BY <1>1, <1>7 DEF CommitState, status, NodeInv, Placed, Committed, TypeOK
    <2> QED
      BY <1>3, <1>4, <2>1, <2>2 DEF Abstract!Next, Abstract!Commit, Abstract!Move, contract, hasData
  <1>8. CASE Mark(n)
    <2>1. hasData'[n] = hasData[n]
      BY <1>8 DEF Mark, hasData
    <2>2. status[n] = "committed" /\ status'[n] = "leaving"
      BY <1>1, <1>8 DEF Mark, status, NodeInv, Placed, Committed, Offline, TypeOK
    <2> QED
      BY <1>3, <1>4, <2>1, <2>2 DEF Abstract!Next, Abstract!Announce, Abstract!Move, contract, hasData
  <1>9. CASE Converge(n)
    <2>1. hasData'[n] = hasData[n]
      BY <1>9 DEF Converge, hasData
    <2>2. status[n] = "leaving" /\ status'[n] = "committed"
      BY <1>1, <1>9 DEF Converge, status, NodeInv, Placed, Committed, TypeOK
    <2> QED
      BY <1>3, <1>4, <2>1, <2>2 DEF Abstract!Next, Abstract!Withdraw, Abstract!Move, contract, hasData
  <1>10. CASE Remove(n)
    <2>1. hasData'[n] = hasData[n]
      BY <1>1, <1>10 DEF Remove, hasData, TypeOK
    <2>2. \/ status'[n] = status[n]
          \/ status[n] = "leaving" /\ status'[n] = "unfinished"
      BY <1>1, <1>10 DEF Remove, Disposable, status, NodeInv, Placed, Committed, TypeOK
    <2> QED
      BY <1>3, <1>4, <1>5, <2>1, <2>2 DEF Abstract!Next, Abstract!Dismantle, Abstract!Move, contract, hasData
  <1>11. CASE Rmdir(n) \/ UndoDir(n)
    <2>1. hasData'[n] = hasData[n]
      BY <1>11 DEF Rmdir, UndoDir, hasData
    <2>2. status[n] \in {"unfinished", "absent"} /\ status'[n] = "absent"
      BY <1>1, <1>11 DEF Rmdir, UndoDir, status, Committed, TypeOK
    <2> QED
      BY <1>3, <1>4, <1>5, <2>1, <2>2 DEF Abstract!Next, Abstract!Discard, Abstract!Move, contract, hasData
  <1>12. CASE StartNode(n)
    <2>1. status[n] = "committed" /\ status'[n] = "committed"
      BY <1>1, <1>12 DEF StartNode, status, NodeInv, Placed, Committed, Offline, TypeOK
    <2>2. CASE written'[n] = "none"
      <3>1. hasData'[n] = hasData[n]
        BY <1>1, <1>12, <2>2 DEF StartNode, TypeOK, hasData
      <3> QED
        BY <1>4, <1>5, <2>1, <3>1 DEF contract
    <2>3. CASE written'[n] # "none"
      <3>1. hasData'[n] = TRUE
        BY <2>3 DEF hasData
      <3> QED
        BY <1>3, <1>5, <2>1, <3>1 DEF Abstract!Next, Abstract!Write, hasData
    <2> QED
      BY <2>2, <2>3
  <1>13. CASE DeleteStep(n)
    <2>1. status' = status
      BY <1>13 DEF DeleteStep, status, Committed
    <2>2. \A m \in Node : status[m] = "absent"
      BY <1>1, <1>13 DEF DeleteStep, Inv, Exclusion, NodeInv, Owned, StepsOf, status, PrepareSteps,
         CommitSteps, UndoSteps, DestroySteps, DeleteSteps, TypeOK
    <2>3. CASE written'[n] = written[n]
      <3>1. hasData'[n] = hasData[n]
        BY <2>3 DEF hasData
      <3> QED
        BY <1>4, <2>1, <3>1 DEF contract
    <2>4. CASE written'[n] # written[n]
      <3>1. hasData'[n] = FALSE
        BY <1>1, <1>13, <2>4 DEF DeleteStep, TypeOK, hasData
      <3> QED
        BY <1>3, <2>1, <2>2, <3>1 DEF Abstract!Next, Abstract!Purge, hasData
    <2> QED
      BY <2>3, <2>4
  <1> QED
    BY <1>6, <1>7, <1>8, <1>9, <1>10, <1>11, <1>12, <1>13

\* The files of the nodes implement NodeContract: a node is committed out of
\* an unfinished directory, dismantled only after it was announced, and its
\* data is dropped only when no node exists.
THEOREM Refinement == Spec => Contract
  <1>1. Init => Abstract!Init
    <2> SUFFICES ASSUME Init PROVE Abstract!Init
      OBVIOUS
    <2>1. status = [n \in Node |-> "absent"]
      BY DEF Init, status
    <2>2. ASSUME NEW n \in Node PROVE (written[n] # "none") = FALSE
      BY DEF Init
    <2> QED
      BY <2>1, <2>2 DEF Abstract!Init
  <1>2. Inv /\ [Next]_vars => [Abstract!Next]_contract
    <2> SUFFICES ASSUME Inv, [Next]_vars PROVE [Abstract!Next]_contract
      OBVIOUS
    <2>1. CASE UNCHANGED vars
      BY <2>1 DEF vars, contract, status, hasData, Committed
    <2>2. CASE Up
      BY <2>2, QuietSteps, QuietCommands, VisibleSteps DEF Up, PrepareNode
    <2>3. CASE Rollback
      BY <2>3, QuietSteps, QuietCommands, VisibleSteps DEF Rollback
    <2>4. CASE Destroy
      BY <2>4, QuietSteps, QuietCommands, VisibleSteps DEF Destroy
    <2>5. CASE Delete
      BY <2>5, QuietCommands, VisibleSteps DEF Delete
    <2>6. CASE Lifecycle
      BY <2>6, QuietSteps, VisibleSteps DEF Lifecycle
    <2> QED
      BY <2>1, <2>2, <2>3, <2>4, <2>5, <2>6, QuietCommands DEF Next
  <1> QED
    BY <1>1, <1>2, Invariance, PTL DEF Spec, Contract, Abstract!Spec, contract, hasData
=============================================================================
