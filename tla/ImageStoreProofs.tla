-------------------------- MODULE ImageStoreProofs --------------------------
(***************************************************************************)
(* The safety of the image cache, for any commands, nodes, paths, images   *)
(* and sources.  Why it holds: whoever changes a path, a download or an    *)
(* alias holds images.lock, and whoever records a base image holds         *)
(* allocator.lock, so that what was checked under a lock is still true in  *)
(* the step that relies on it.                                             *)
(***************************************************************************)
EXTENDS ImageStore, TLAPS

Images == [slot : Slot, digest : Digest, node : Node \cup {None}]

\* Steps of a pull before the image is handed out, of a creation after it,
\* and of an import.
PullSteps == {"lock", "cached", "qLock", "qCheck", "qMove", "stage", "publish", "rename"}
CreateSteps == {"mkdir", "overlay", "commit"}
ImportSteps == {"iLock", "import", "rLock", "register"}
PruneSteps == {"pLock", "pRefs", "resolve", "scan"}

\* Steps at which a command holds images.lock, and allocator.lock.
UnderImages == {"cached", "qLock", "qCheck", "qMove", "stage", "publish", "rename",
                "import", "register", "pRefs", "resolve", "scan"}
UnderAllocator == {"qCheck", "qMove", "mkdir", "overlay", "commit", "resolve"}

TypeOK ==
    /\ file \in [Slot -> Digest \cup {None, Junk}]
    /\ staged \in [Digest -> {"none", "part", "full", "wrong", "sealed"}]
    /\ catalog \in [Slot -> Digest \cup {None}]
    /\ alias \in [Local -> Digest \cup {None}]
    /\ base \in [Node -> Images \cup {None}] /\ unfinished \subseteq Node
    /\ images \in Proc \cup {None} /\ allocator \in Proc \cup {None}
    /\ at \in [Proc -> {"idle", "served"} \cup PullSteps \cup CreateSteps
                        \cup ImportSteps \cup PruneSteps]
    /\ job \in [Proc -> Images \cup {None}]
    /\ try \in [Proc -> [source : Nat, attempt : Nat]]
    /\ refs \in [Proc -> SUBSET Digest]
    /\ calm \in BOOLEAN

\* What a command was started for.
Tasked(p) ==
    /\ at[p] \in PullSteps => job[p] \in Images /\ job[p].slot \notin Local
    /\ at[p] = "served" => job[p] \in Images
    /\ at[p] \in CreateSteps => job[p] \in Images /\ job[p].node \in Node
    /\ at[p] \in ImportSteps => job[p] \in Images /\ job[p].slot \in Local

Locked(p) ==
    /\ at[p] \in UnderImages => images = p
    /\ at[p] \in UnderAllocator => allocator = p

\* What was checked, and is still so when it is relied on.
Checked(p) ==
    /\ at[p] = "rename" => staged[job[p].digest] = "sealed"
    /\ at[p] = "qMove" => \A n \in Node : base[n] # None => base[n].slot # job[p].slot
    /\ at[p] = "scan" => \A l \in Local : alias[l] # None => alias[l] \in refs[p]

Inv == TypeOK /\ \A p \in Proc : Tasked(p) /\ Locked(p) /\ Checked(p)

-----------------------------------------------------------------------------
LEMMA InitInv == Init => Inv
  <1> SUFFICES ASSUME Init PROVE Inv
    OBVIOUS
  <1>1. TypeOK
    BY DEF Init, TypeOK, First
  <1>2. \A p \in Proc : Tasked(p) /\ Locked(p) /\ Checked(p)
    BY DEF Init, Tasked, Locked, Checked, PullSteps, CreateSteps, ImportSteps, PruneSteps,
       UnderImages, UnderAllocator
  <1> QED
    BY <1>1, <1>2 DEF Inv

\* The part of TypeOK about commands and locks.
CommandTypes ==
    /\ images \in Proc \cup {None} /\ allocator \in Proc \cup {None}
    /\ at \in [Proc -> {"idle", "served"} \cup PullSteps \cup CreateSteps
                        \cup ImportSteps \cup PruneSteps]
    /\ job \in [Proc -> Images \cup {None}]
    /\ try \in [Proc -> [source : Nat, attempt : Nat]]
    /\ refs \in [Proc -> SUBSET Digest]

\* A command that ends, and a pull that tries again, keep them.
LEMMA EndTypes == ASSUME TypeOK, NEW p \in Proc, End(p) PROVE CommandTypes'
  BY DEF TypeOK, CommandTypes, End, First

LEMMA AgainTypes == ASSUME TypeOK, NEW p \in Proc, Retry(p) \/ NextSource(p) PROVE CommandTypes'
  <1> DEFINE again == [source |-> try[p].source + 1, attempt |-> 1]
             retry == [try[p] EXCEPT !.attempt = @ + 1]
  <1>1. again \in [source : Nat, attempt : Nat] /\ retry \in [source : Nat, attempt : Nat]
    BY DEF TypeOK
  <1>2. CASE End(p)
    BY <1>2, EndTypes
  <1>3. CASE ~End(p)
    <2>1. try' = [try EXCEPT ![p] = again] \/ try' = [try EXCEPT ![p] = retry]
      BY <1>3 DEF Retry, NextSource
    <2>2. at' = [at EXCEPT ![p] = "stage"] /\ UNCHANGED <<job, refs, images, allocator>>
      BY <1>3 DEF Retry, NextSource
    <2> HIDE DEF again, retry
    <2> QED
      BY <1>1, <2>1, <2>2 DEF TypeOK, CommandTypes, PullSteps
  <1> QED
    BY <1>2, <1>3

LEMMA WaitImagesInv ==
    ASSUME Inv, NEW p \in Proc, NEW from, NEW to, LockImages(p, from, to),
           <<from, to>> \in {<<"lock", "cached">>, <<"iLock", "import">>, <<"rLock", "register">>, <<"pLock", "pRefs">>}
    PROVE  Inv'
  <1>0. TypeOK /\ \A q \in Proc : Tasked(q) /\ Locked(q) /\ Checked(q)
    BY DEF Inv
  <1>1. TypeOK'
    BY <1>0, ConstantAssumption DEF TypeOK, LockImages, Go, cache, nodes, PullSteps, ImportSteps,
       PruneSteps
  <1>2. ASSUME NEW q \in Proc PROVE (Tasked(q) /\ Locked(q) /\ Checked(q))'
    <2>1. Tasked(q)'
      BY <1>0, ConstantAssumption DEF Tasked, LockImages, Go, PullSteps, CreateSteps, ImportSteps
    <2>2. Locked(q)'
      BY <1>0, ConstantAssumption DEF Locked, LockImages, Go, UnderAllocator
    <2>3. Checked(q)'
      BY <1>0, ConstantAssumption DEF Locked, Checked, LockImages, Go, UnderImages
    <2> QED
      BY <2>1, <2>2, <2>3
  <1> QED
    BY <1>1, <1>2 DEF Inv

LEMMA WaitAllocatorInv ==
    ASSUME Inv, NEW p \in Proc, NEW from, NEW to, LockAllocator(p, from, to),
           \/ <<from, to>> \in {<<"qLock", "qCheck">>, <<"pRefs", "resolve">>}
           \/ <<from, to>> = <<"served", "mkdir">> /\ job[p].node # None
    PROVE  Inv'
  <1>0. TypeOK /\ \A q \in Proc : Tasked(q) /\ Locked(q) /\ Checked(q)
    BY DEF Inv
  <1>1. TypeOK'
    BY <1>0, ConstantAssumption DEF TypeOK, LockAllocator, Go, cache, nodes, PullSteps,
       CreateSteps, PruneSteps
  <1>2. ASSUME NEW q \in Proc PROVE (Tasked(q) /\ Locked(q) /\ Checked(q))'
    <2>1. Tasked(q)'
      BY <1>0, ConstantAssumption DEF Tasked, LockAllocator, Go, Images, PullSteps, CreateSteps,
         ImportSteps
    <2>2. Locked(q)'
      BY <1>0, ConstantAssumption DEF Locked, LockAllocator, Go, UnderImages
    <2>3. Checked(q)'
      BY <1>0, ConstantAssumption DEF Locked, Checked, LockAllocator, Go, cache, UnderAllocator
    <2> QED
      BY <2>1, <2>2, <2>3
  <1> QED
    BY <1>1, <1>2 DEF Inv

LEMMA EndInv ==
    ASSUME Inv, NEW p \in Proc, End(p), UNCHANGED <<cache, nodes>>
    PROVE  Inv'
  <1>0. TypeOK /\ \A q \in Proc : Tasked(q) /\ Locked(q) /\ Checked(q)
    BY DEF Inv
  <1>1. TypeOK'
    BY <1>0, ConstantAssumption DEF TypeOK, End, First, cache, nodes
  <1>2. ASSUME NEW q \in Proc PROVE (Tasked(q) /\ Locked(q) /\ Checked(q))'
    <2>1. Tasked(q)'
      BY <1>0, ConstantAssumption DEF TypeOK, Tasked, End, PullSteps, CreateSteps, ImportSteps
    <2>2. Locked(q)'
      BY <1>0, ConstantAssumption DEF TypeOK, Locked, End, UnderImages, UnderAllocator
    <2>3. Checked(q)'
      BY <1>0, ConstantAssumption DEF TypeOK, Checked, End, cache, nodes
    <2> QED
      BY <2>1, <2>2, <2>3
  <1> QED
    BY <1>1, <1>2 DEF Inv

LEMMA CachedInv ==
    ASSUME Inv, NEW p \in Proc, Cached(p)
    PROVE  Inv'
  <1>0. TypeOK /\ \A q \in Proc : Tasked(q) /\ Locked(q) /\ Checked(q)
    BY DEF Inv
  <1>1. TypeOK'
    BY <1>0, ConstantAssumption DEF TypeOK, Cached, Go, cache, nodes, PullSteps
  <1>2. ASSUME NEW q \in Proc PROVE (Tasked(q) /\ Locked(q) /\ Checked(q))'
    <2>1. Tasked(q)'
      BY <1>0, ConstantAssumption DEF TypeOK, Tasked, Cached, Go, CreateSteps, ImportSteps,
         PruneSteps
    <2>2. Locked(q)'
      BY <1>0, ConstantAssumption DEF TypeOK, Locked, Cached, Go, UnderImages, UnderAllocator
    <2>3. Checked(q)'
      BY <1>0, ConstantAssumption DEF Locked, Checked, Cached, Go, UnderImages
    <2> QED
      BY <2>1, <2>2, <2>3
  <1> QED
    BY <1>1, <1>2 DEF Inv

LEMMA QuarantineInv ==
    ASSUME Inv, NEW p \in Proc, Quarantine(p), ~(End(p) /\ UNCHANGED <<cache, nodes>>)
    PROVE  Inv'
  <1>0. TypeOK /\ \A q \in Proc : Tasked(q) /\ Locked(q) /\ Checked(q)
    BY DEF Inv
  <1>1. TypeOK'
    BY <1>0, ConstantAssumption DEF TypeOK, Tasked, Quarantine, Go, QuarantineAccepts, cache,
       nodes, command, vars, Images, PullSteps, CreateSteps, ImportSteps
  <1>2. ASSUME NEW q \in Proc PROVE (Tasked(q) /\ Locked(q) /\ Checked(q))'
    <2>1. Tasked(q)'
      BY <1>0, ConstantAssumption DEF TypeOK, Tasked, Quarantine, Go, QuarantineAccepts,
         PullSteps, CreateSteps, ImportSteps
    <2>2. Locked(q)'
      BY <1>0, ConstantAssumption DEF TypeOK, Locked, Quarantine, Go, QuarantineAccepts,
         UnderImages, UnderAllocator
    <2>3. Checked(q)'
      BY <1>0, ConstantAssumption DEF TypeOK, Locked, Checked, Quarantine, Go, QuarantineAccepts,
         nodes, UnderImages
    <2> QED
      BY <2>1, <2>2, <2>3
  <1> QED
    BY <1>1, <1>2 DEF Inv

LEMMA StageInv ==
    ASSUME Inv, NEW p \in Proc, Stage(p)
    PROVE  Inv'
  <1>0. TypeOK /\ \A q \in Proc : Tasked(q) /\ Locked(q) /\ Checked(q)
    BY DEF Inv
  <1>1. TypeOK'
    <2>1. CommandTypes'
      BY <1>0, ConstantAssumption DEF TypeOK, CommandTypes, Stage, Go, PullSteps
    <2>2. file' \in [Slot -> Digest \cup {None, Junk}]
      BY <1>0, ConstantAssumption DEF TypeOK, Stage
    <2>3. staged' \in [Digest -> {"none", "part", "full", "wrong", "sealed"}]
      BY <1>0, ConstantAssumption DEF TypeOK, Stage
    <2>4. /\ catalog' \in [Slot -> Digest \cup {None}] /\ alias' \in [Local -> Digest \cup {None}]
      BY <1>0, ConstantAssumption DEF TypeOK, Stage, Go
    <2>5. /\ base' \in [Node -> Images \cup {None}] /\ unfinished' \subseteq Node /\ calm' \in BOOLEAN
      BY <1>0, ConstantAssumption DEF TypeOK, Stage, Go, nodes
    <2> QED
      BY <2>1, <2>2, <2>3, <2>4, <2>5 DEF TypeOK, CommandTypes
  <1>2. ASSUME NEW q \in Proc PROVE (Tasked(q) /\ Locked(q) /\ Checked(q))'
    <2>1. Tasked(q)'
      BY <1>0, ConstantAssumption DEF TypeOK, Tasked, Stage, Go, CreateSteps, ImportSteps,
         PruneSteps
    <2>2. Locked(q)'
      BY <1>0, ConstantAssumption DEF Locked, Stage, Go, UnderImages, UnderAllocator
    <2>3. Checked(q)'
      BY <1>0, ConstantAssumption DEF Locked, Checked, Stage, Go, UnderImages
    <2> QED
      BY <2>1, <2>2, <2>3
  <1> QED
    BY <1>1, <1>2 DEF Inv

LEMMA StageFailsInv ==
    ASSUME Inv, NEW p \in Proc, StageFails(p)
    PROVE  Inv'
  <1>0. TypeOK /\ \A q \in Proc : Tasked(q) /\ Locked(q) /\ Checked(q)
    BY DEF Inv
  <1>1. TypeOK'
    <2>1. CommandTypes'
      <3>1. CASE End(p)
        BY <1>0, <3>1, EndTypes
      <3>2. CASE Retry(p) \/ NextSource(p)
        BY <1>0, <3>2, AgainTypes
      <3>3. CASE ~End(p) /\ ~Retry(p) /\ ~NextSource(p)
        BY <1>0, <3>3 DEF CommandTypes, StageFails
      <3> QED
        BY <3>1, <3>2, <3>3
    <2>2. file' \in [Slot -> Digest \cup {None, Junk}]
      BY <1>0, ConstantAssumption DEF TypeOK, StageFails
    <2>3. staged' \in [Digest -> {"none", "part", "full", "wrong", "sealed"}]
      BY <1>0, ConstantAssumption DEF TypeOK, StageFails, Resumed, End, cache, nodes, command,
         vars, PullSteps, CreateSteps, PruneSteps
    <2>4. /\ catalog' \in [Slot -> Digest \cup {None}] /\ alias' \in [Local -> Digest \cup {None}]
      BY <1>0, ConstantAssumption DEF TypeOK, StageFails, Retry, NextSource, End
    <2>5. /\ base' \in [Node -> Images \cup {None}] /\ unfinished' \subseteq Node /\ calm' \in BOOLEAN
      BY <1>0, ConstantAssumption DEF TypeOK, StageFails, Retry, NextSource, End, nodes
    <2> QED
      BY <2>1, <2>2, <2>3, <2>4, <2>5 DEF TypeOK, CommandTypes
  <1>2. ASSUME NEW q \in Proc PROVE (Tasked(q) /\ Locked(q) /\ Checked(q))'
    <2>1. Tasked(q)'
      BY <1>0, ConstantAssumption DEF TypeOK, Tasked, StageFails, Retry, NextSource, End,
         PullSteps, CreateSteps, ImportSteps
    <2>2. Locked(q)'
      BY <1>0, ConstantAssumption DEF TypeOK, Locked, StageFails, Retry, NextSource, End,
         UnderImages, UnderAllocator
    <2>3. Checked(q)'
      BY <1>0, ConstantAssumption DEF TypeOK, Locked, Checked, StageFails, Retry, NextSource,
         End, UnderImages
    <2> QED
      BY <2>1, <2>2, <2>3
  <1> QED
    BY <1>1, <1>2 DEF Inv

LEMMA PublishInv ==
    ASSUME Inv, NEW p \in Proc, Publish(p)
    PROVE  Inv'
  <1>0. TypeOK /\ \A q \in Proc : Tasked(q) /\ Locked(q) /\ Checked(q)
    BY DEF Inv
  <1>1. TypeOK'
    <2>1. CommandTypes'
      <3>1. CASE End(p)
        BY <1>0, <3>1, EndTypes
      <3>2. CASE Retry(p) \/ NextSource(p)
        BY <1>0, <3>2, AgainTypes
      <3>3. CASE ~End(p) /\ ~Retry(p) /\ ~NextSource(p)
        BY <1>0, <3>3 DEF TypeOK, CommandTypes, Publish, Go, PullSteps
      <3> QED
        BY <3>1, <3>2, <3>3
    <2>2. file' \in [Slot -> Digest \cup {None, Junk}]
      BY <1>0, ConstantAssumption DEF TypeOK, Publish
    <2>3. staged' \in [Digest -> {"none", "part", "full", "wrong", "sealed"}]
      BY <1>0, ConstantAssumption DEF TypeOK, Publish
    <2>4. /\ catalog' \in [Slot -> Digest \cup {None}] /\ alias' \in [Local -> Digest \cup {None}]
      BY <1>0, ConstantAssumption DEF TypeOK, Publish, Go, NextSource, End
    <2>5. /\ base' \in [Node -> Images \cup {None}] /\ unfinished' \subseteq Node /\ calm' \in BOOLEAN
      BY <1>0, ConstantAssumption DEF TypeOK, Publish, Go, NextSource, End, nodes
    <2> QED
      BY <2>1, <2>2, <2>3, <2>4, <2>5 DEF TypeOK, CommandTypes
  <1>2. ASSUME NEW q \in Proc PROVE (Tasked(q) /\ Locked(q) /\ Checked(q))'
    <2>1. Tasked(q)'
      BY <1>0, ConstantAssumption DEF TypeOK, Tasked, Publish, Go, NextSource, End, PullSteps,
         CreateSteps, ImportSteps
    <2>2. Locked(q)'
      BY <1>0, ConstantAssumption DEF TypeOK, Locked, Publish, Go, NextSource, End, UnderImages,
         UnderAllocator
    <2>3. Checked(q)'
      BY <1>0, ConstantAssumption, SMTT(30) DEF TypeOK, Tasked, Locked, Checked, Publish, Go, NextSource,
         End, Images, PruneSteps, UnderImages
    <2> QED
      BY <2>1, <2>2, <2>3
  <1> QED
    BY <1>1, <1>2 DEF Inv

LEMMA RenameInv ==
    ASSUME Inv, NEW p \in Proc, Rename(p)
    PROVE  Inv'
  <1>0. TypeOK /\ \A q \in Proc : Tasked(q) /\ Locked(q) /\ Checked(q)
    BY DEF Inv
  <1>1. TypeOK'
    BY <1>0, ConstantAssumption DEF TypeOK, Tasked, Rename, Go, nodes, Images, PruneSteps
  <1>2. ASSUME NEW q \in Proc PROVE (Tasked(q) /\ Locked(q) /\ Checked(q))'
    <2>1. Tasked(q)'
      BY <1>0, ConstantAssumption DEF TypeOK, Tasked, Rename, Go, CreateSteps, ImportSteps,
         PruneSteps
    <2>2. Locked(q)'
      BY <1>0, ConstantAssumption DEF TypeOK, Locked, Rename, Go, UnderImages, UnderAllocator
    <2>3. Checked(q)'
      BY <1>0, ConstantAssumption DEF TypeOK, Locked, Checked, Rename, Go, UnderImages
    <2> QED
      BY <2>1, <2>2, <2>3
  <1> QED
    BY <1>1, <1>2 DEF Inv

LEMMA CreateInv ==
    ASSUME Inv, NEW p \in Proc, Create(p), ~(LockAllocator(p, "served", "mkdir") /\ job[p].node # None),
           ~(End(p) /\ UNCHANGED <<cache, nodes>>)
    PROVE  Inv'
  <1>0. TypeOK /\ \A q \in Proc : Tasked(q) /\ Locked(q) /\ Checked(q)
    BY DEF Inv
  <1>1. TypeOK'
    <2>1. CommandTypes'
      <3>1. CASE End(p)
        BY <1>0, <3>1, EndTypes
      <3>2. CASE Retry(p) \/ NextSource(p)
        BY <1>0, <3>2, AgainTypes
      <3>3. CASE ~End(p) /\ ~Retry(p) /\ ~NextSource(p)
        BY <1>0, <3>3 DEF TypeOK, CommandTypes, Tasked, Create, Go, Image, cache, CreateSteps,
           ImportSteps, PruneSteps
      <3> QED
        BY <3>1, <3>2, <3>3
    <2>2. file' \in [Slot -> Digest \cup {None, Junk}]
      BY <1>0, ConstantAssumption DEF TypeOK, Create, Image, cache
    <2>3. staged' \in [Digest -> {"none", "part", "full", "wrong", "sealed"}]
      BY <1>0, ConstantAssumption DEF TypeOK, Create, Image, cache
    <2>4. /\ catalog' \in [Slot -> Digest \cup {None}] /\ alias' \in [Local -> Digest \cup {None}]
      BY <1>0, ConstantAssumption DEF TypeOK, Create, Go, End, Image, cache
    <2>5. /\ base' \in [Node -> Images \cup {None}] /\ unfinished' \subseteq Node /\ calm' \in BOOLEAN
      BY <1>0, ConstantAssumption DEF TypeOK, Tasked, Create, Go, End, First, Image, nodes,
         Images, CreateSteps, ImportSteps
    <2> QED
      BY <2>1, <2>2, <2>3, <2>4, <2>5 DEF TypeOK, CommandTypes
  <1>2. ASSUME NEW q \in Proc PROVE (Tasked(q) /\ Locked(q) /\ Checked(q))'
    <2>1. Tasked(q)'
      BY <1>0, ConstantAssumption DEF TypeOK, Tasked, Create, Go, End, Image, PullSteps,
         CreateSteps, ImportSteps
    <2>2. Locked(q)'
      BY <1>0, ConstantAssumption, SMTT(30) DEF TypeOK, Locked, Create, Go, End, Image, UnderImages,
         UnderAllocator
    <2>3. Checked(q)'
      BY <1>0, ConstantAssumption DEF TypeOK, Locked, Checked, Create, Go, End, Image, cache,
         UnderAllocator
    <2> QED
      BY <2>1, <2>2, <2>3
  <1> QED
    BY <1>1, <1>2 DEF Inv

LEMMA ImportInv ==
    ASSUME Inv, NEW p \in Proc, at[p] = "import", Import(p), ~(End(p) /\ UNCHANGED <<cache, nodes>>)
    PROVE  Inv'
  <1>0. TypeOK /\ \A q \in Proc : Tasked(q) /\ Locked(q) /\ Checked(q)
    BY DEF Inv
  <1>1. TypeOK'
    BY <1>0, ConstantAssumption, SMTT(30) DEF TypeOK, Tasked, Import, LockImages, Go, cache, nodes,
       command, vars, Images, PullSteps, CreateSteps, ImportSteps, PruneSteps
  <1>2. ASSUME NEW q \in Proc PROVE (Tasked(q) /\ Locked(q) /\ Checked(q))'
    <2>1. Tasked(q)'
      BY <1>0, ConstantAssumption DEF TypeOK, Tasked, Import, LockImages, Go, PullSteps,
         CreateSteps, PruneSteps
    <2>2. Locked(q)'
      BY <1>0, ConstantAssumption DEF TypeOK, Locked, Import, LockImages, Go, UnderImages,
         UnderAllocator
    <2>3. Checked(q)'
      BY <1>0, ConstantAssumption DEF TypeOK, Locked, Checked, Import, LockImages, Go,
         UnderImages
    <2> QED
      BY <2>1, <2>2, <2>3
  <1> QED
    BY <1>1, <1>2 DEF Inv

LEMMA RegisterInv ==
    ASSUME Inv, NEW p \in Proc, Register(p)
    PROVE  Inv'
  <1>0. TypeOK /\ \A q \in Proc : Tasked(q) /\ Locked(q) /\ Checked(q)
    BY DEF Inv
  <1>1. TypeOK'
    BY <1>0, ConstantAssumption DEF TypeOK, Tasked, Register, End, First, nodes, Images,
       ImportSteps
  <1>2. ASSUME NEW q \in Proc PROVE (Tasked(q) /\ Locked(q) /\ Checked(q))'
    <2>1. Tasked(q)'
      BY <1>0, ConstantAssumption DEF TypeOK, Tasked, Register, End, PullSteps, CreateSteps,
         ImportSteps
    <2>2. Locked(q)'
      BY <1>0, ConstantAssumption DEF TypeOK, Locked, Register, End, UnderImages, UnderAllocator
    <2>3. Checked(q)'
      BY <1>0, ConstantAssumption DEF Locked, Checked, Register, End, UnderImages
    <2> QED
      BY <2>1, <2>2, <2>3
  <1> QED
    BY <1>1, <1>2 DEF Inv

LEMMA ResolveInv ==
    ASSUME Inv, NEW p \in Proc, at[p] = "resolve", Resolve(p), ~(End(p) /\ UNCHANGED <<cache, nodes>>)
    PROVE  Inv'
  <1>0. TypeOK /\ \A q \in Proc : Tasked(q) /\ Locked(q) /\ Checked(q)
    BY DEF Inv
  <1>1. TypeOK'
    <2>1. CommandTypes'
      <3>1. images' \in Proc \cup {None} /\ allocator' \in Proc \cup {None}
        BY <1>0 DEF TypeOK, Resolve, LockImages, LockAllocator
      <3>2. at' \in [Proc -> {"idle", "served"} \cup PullSteps \cup CreateSteps
                           \cup ImportSteps \cup PruneSteps]
        BY <1>0 DEF TypeOK, Resolve, LockImages, LockAllocator, Go, PruneSteps
      <3>3. job' \in [Proc -> Images \cup {None}] /\ UNCHANGED try
        BY <1>0, ConstantAssumption DEF TypeOK, Resolve, LockImages, LockAllocator, Go
      <3>4. refs' \in [Proc -> SUBSET Digest]
        BY <1>0 DEF TypeOK, Resolve, LockImages, LockAllocator, Go
      <3> QED
        BY <1>0, <3>1, <3>2, <3>3, <3>4 DEF TypeOK, CommandTypes
    <2>2. file' \in [Slot -> Digest \cup {None, Junk}]
      BY <1>0, ConstantAssumption DEF TypeOK, Resolve, LockImages, LockAllocator, cache
    <2>3. staged' \in [Digest -> {"none", "part", "full", "wrong", "sealed"}]
      BY <1>0, ConstantAssumption DEF TypeOK, Resolve, LockImages, LockAllocator, cache
    <2>4. /\ catalog' \in [Slot -> Digest \cup {None}] /\ alias' \in [Local -> Digest \cup {None}]
      BY <1>0, ConstantAssumption DEF TypeOK, Resolve, LockImages, LockAllocator, Go, cache
    <2>5. /\ base' \in [Node -> Images \cup {None}] /\ unfinished' \subseteq Node /\ calm' \in BOOLEAN
      BY <1>0, ConstantAssumption DEF TypeOK, Resolve, LockImages, LockAllocator, Go, nodes
    <2> QED
      BY <2>1, <2>2, <2>3, <2>4, <2>5 DEF TypeOK, CommandTypes
  <1>2. ASSUME NEW q \in Proc PROVE (Tasked(q) /\ Locked(q) /\ Checked(q))'
    <2>1. Tasked(q)'
      BY <1>0, ConstantAssumption DEF TypeOK, Tasked, Resolve, LockImages, LockAllocator, Go,
         PullSteps, CreateSteps, ImportSteps
    <2>2. Locked(q)'
      BY <1>0, ConstantAssumption DEF TypeOK, Locked, Resolve, LockImages, LockAllocator,
         UnderImages, UnderAllocator
    <2>3. Checked(q)'
      BY <1>0, ConstantAssumption DEF TypeOK, Locked, Checked, Resolve, LockImages,
         LockAllocator, Go, cache, UnderAllocator
    <2> QED
      BY <2>1, <2>2, <2>3
  <1> QED
    BY <1>1, <1>2 DEF Inv

LEMMA ScanInv ==
    ASSUME Inv, NEW p \in Proc, Scan(p)
    PROVE  Inv'
  <1>0. TypeOK /\ \A q \in Proc : Tasked(q) /\ Locked(q) /\ Checked(q)
    BY DEF Inv
  <1>1. TypeOK'
    <2>1. CommandTypes'
      <3>1. CASE End(p)
        BY <1>0, <3>1, EndTypes
      <3>2. CASE Retry(p) \/ NextSource(p)
        BY <1>0, <3>2, AgainTypes
      <3>3. CASE ~End(p) /\ ~Retry(p) /\ ~NextSource(p)
        BY <1>0, <3>3 DEF TypeOK, CommandTypes, Scan, Stale, command
      <3> QED
        BY <3>1, <3>2, <3>3
    <2>2. file' \in [Slot -> Digest \cup {None, Junk}]
      BY <1>0, ConstantAssumption DEF TypeOK, Scan, Stale
    <2>3. staged' \in [Digest -> {"none", "part", "full", "wrong", "sealed"}]
      BY <1>0, ConstantAssumption DEF TypeOK, Scan, Stale
    <2>4. /\ catalog' \in [Slot -> Digest \cup {None}] /\ alias' \in [Local -> Digest \cup {None}]
      BY <1>0, ConstantAssumption DEF TypeOK, Scan, Stale, End
    <2>5. /\ base' \in [Node -> Images \cup {None}] /\ unfinished' \subseteq Node /\ calm' \in BOOLEAN
      BY <1>0, ConstantAssumption DEF TypeOK, Scan, Stale, End, nodes
    <2> QED
      BY <2>1, <2>2, <2>3, <2>4, <2>5 DEF TypeOK, CommandTypes
  <1>2. ASSUME NEW q \in Proc PROVE (Tasked(q) /\ Locked(q) /\ Checked(q))'
    <2>1. Tasked(q)'
      BY <1>0, ConstantAssumption DEF TypeOK, Tasked, Scan, Stale, End, command, PullSteps,
         CreateSteps, ImportSteps
    <2>2. Locked(q)'
      BY <1>0, ConstantAssumption DEF TypeOK, Locked, Scan, Stale, End, command, UnderImages,
         UnderAllocator
    <2>3. Checked(q)'
      BY <1>0, ConstantAssumption DEF TypeOK, Locked, Checked, Scan, Stale, End, command,
         UnderImages
    <2> QED
      BY <2>1, <2>2, <2>3
  <1> QED
    BY <1>1, <1>2 DEF Inv

LEMMA StartInv ==
    ASSUME Inv, NEW p \in Proc, Start(p)
    PROVE  Inv'
  <1>0. TypeOK /\ \A q \in Proc : Tasked(q) /\ Locked(q) /\ Checked(q)
    BY DEF Inv
  <1>1. TypeOK'
    <2>1. CommandTypes'
      <3>1. images' \in Proc \cup {None} /\ allocator' \in Proc \cup {None}
        BY <1>0 DEF TypeOK, Start, PullBegin, AliasBegin, ImportBegin, PruneBegin, Begin, Image
      <3>2. at' \in [Proc -> {"idle", "served"} \cup PullSteps \cup CreateSteps
                           \cup ImportSteps \cup PruneSteps]
        BY <1>0 DEF TypeOK, Start, PullBegin, AliasBegin, ImportBegin, PruneBegin, Begin, Image,
           cache, nodes, PullSteps, CreateSteps, ImportSteps, PruneSteps
      <3>3. job' \in [Proc -> Images \cup {None}] /\ UNCHANGED try
        BY <1>0, ConstantAssumption DEF TypeOK, Images, Start, PullBegin, AliasBegin,
           ImportBegin, PruneBegin, Begin, Image
      <3>4. refs' \in [Proc -> SUBSET Digest]
        BY <1>0 DEF TypeOK, Start, PullBegin, AliasBegin, ImportBegin, PruneBegin, Begin, Image
      <3> QED
        BY <1>0, <3>1, <3>2, <3>3, <3>4 DEF TypeOK, CommandTypes
    <2>2. file' \in [Slot -> Digest \cup {None, Junk}]
      BY <1>0, ConstantAssumption DEF TypeOK, Start, PullBegin, AliasBegin, ImportBegin,
         PruneBegin, Begin, Image, cache
    <2>3. staged' \in [Digest -> {"none", "part", "full", "wrong", "sealed"}]
      BY <1>0, ConstantAssumption DEF TypeOK, Start, PullBegin, AliasBegin, ImportBegin,
         PruneBegin, Begin, Image, cache
    <2>4. /\ catalog' \in [Slot -> Digest \cup {None}] /\ alias' \in [Local -> Digest \cup {None}]
      BY <1>0, ConstantAssumption DEF TypeOK, Start, PullBegin, AliasBegin, ImportBegin,
         PruneBegin, Begin, Image, cache
    <2>5. /\ base' \in [Node -> Images \cup {None}] /\ unfinished' \subseteq Node /\ calm' \in BOOLEAN
      BY <1>0, ConstantAssumption DEF TypeOK, Start, PullBegin, AliasBegin, ImportBegin,
         PruneBegin, Begin, Image, nodes
    <2> QED
      BY <2>1, <2>2, <2>3, <2>4, <2>5 DEF TypeOK, CommandTypes
  <1>2. ASSUME NEW q \in Proc PROVE (Tasked(q) /\ Locked(q) /\ Checked(q))'
    <2>1. Tasked(q)'
      BY <1>0, ConstantAssumption DEF TypeOK, Tasked, Start, PullBegin, AliasBegin, ImportBegin,
         PruneBegin, Begin, Image, Images, PullSteps, CreateSteps, ImportSteps
    <2>2. Locked(q)'
      BY <1>0, ConstantAssumption DEF TypeOK, Locked, Start, PullBegin, AliasBegin, ImportBegin,
         PruneBegin, Begin, Image, UnderImages, UnderAllocator
    <2>3. Checked(q)'
      BY <1>0, ConstantAssumption DEF TypeOK, Checked, Start, PullBegin, AliasBegin, ImportBegin,
         PruneBegin, Begin, Image, cache, nodes
    <2> QED
      BY <2>1, <2>2, <2>3
  <1> QED
    BY <1>1, <1>2 DEF Inv

LEMMA HostInv ==
    ASSUME Inv, CatalogChange \/ Damage \/ Destroy \/ CalmDown
    PROVE  Inv'
  <1>0. TypeOK /\ \A q \in Proc : Tasked(q) /\ Locked(q) /\ Checked(q)
    BY DEF Inv
  <1>1. TypeOK'
    <2>1. CommandTypes'
      <3>1. images' \in Proc \cup {None} /\ allocator' \in Proc \cup {None}
        BY <1>0 DEF TypeOK, CatalogChange, Damage, Destroy, CalmDown
      <3>2. at' \in [Proc -> {"idle", "served"} \cup PullSteps \cup CreateSteps
                           \cup ImportSteps \cup PruneSteps]
        BY <1>0 DEF TypeOK, CatalogChange, Damage, Destroy, CalmDown, command
      <3>3. job' \in [Proc -> Images \cup {None}] /\ UNCHANGED try
        BY <1>0, ConstantAssumption DEF TypeOK, CatalogChange, Damage, Destroy, CalmDown, command
      <3>4. refs' \in [Proc -> SUBSET Digest]
        BY <1>0 DEF TypeOK, CatalogChange, Damage, Destroy, CalmDown, command
      <3> QED
        BY <1>0, <3>1, <3>2, <3>3, <3>4 DEF TypeOK, CommandTypes
    <2>2. file' \in [Slot -> Digest \cup {None, Junk}]
      BY <1>0, ConstantAssumption DEF TypeOK, CatalogChange, Damage, Destroy, CalmDown, cache
    <2>3. staged' \in [Digest -> {"none", "part", "full", "wrong", "sealed"}]
      BY <1>0, ConstantAssumption DEF TypeOK, CatalogChange, Damage, Destroy, CalmDown, cache
    <2>4. /\ catalog' \in [Slot -> Digest \cup {None}] /\ alias' \in [Local -> Digest \cup {None}]
      BY <1>0, ConstantAssumption DEF TypeOK, CatalogChange, Damage, Destroy, CalmDown, cache
    <2>5. /\ base' \in [Node -> Images \cup {None}] /\ unfinished' \subseteq Node /\ calm' \in BOOLEAN
      BY <1>0, ConstantAssumption DEF TypeOK, Tasked, CatalogChange, Damage, Destroy, CalmDown,
         cache, nodes, command, vars, Images, PullSteps, CreateSteps, ImportSteps, PruneSteps
    <2> QED
      BY <2>1, <2>2, <2>3, <2>4, <2>5 DEF TypeOK, CommandTypes
  <1>2. ASSUME NEW q \in Proc PROVE (Tasked(q) /\ Locked(q) /\ Checked(q))'
    <2>1. Tasked(q)'
      BY <1>0, ConstantAssumption DEF Tasked, CatalogChange, Damage, Destroy, CalmDown, command
    <2>2. Locked(q)'
      BY <1>0, ConstantAssumption DEF Locked, CatalogChange, Damage, Destroy, CalmDown, command
    <2>3. Checked(q)'
      BY <1>0, ConstantAssumption DEF TypeOK, Checked, CatalogChange, Damage, Destroy, CalmDown,
         cache, nodes, command, PullSteps
    <2> QED
      BY <2>1, <2>2, <2>3
  <1> QED
    BY <1>1, <1>2 DEF Inv

-----------------------------------------------------------------------------
LEMMA NextInv == ASSUME Inv, [Next]_vars PROVE Inv'
  <1>1. CASE UNCHANGED vars
    BY <1>1 DEF Inv, vars, TypeOK, Tasked, Locked, Checked
  <1>2. ASSUME NEW p \in Proc, Step(p) PROVE Inv'
    <2>1. CASE End(p) /\ UNCHANGED <<cache, nodes>>
      BY <2>1, EndInv
    <2>2. CASE ~(End(p) /\ UNCHANGED <<cache, nodes>>)
      <3>1. CASE Pull(p)
        BY <2>2, <3>1, WaitImagesInv, CachedInv, WaitAllocatorInv, QuarantineInv, StageInv, StageFailsInv,
           PublishInv, RenameInv DEF Pull, PullEnd
      <3>2. CASE Create(p)
        <4>1. CASE LockAllocator(p, "served", "mkdir") /\ job[p].node # None
          BY <4>1, WaitAllocatorInv
        <4>2. CASE ~(LockAllocator(p, "served", "mkdir") /\ job[p].node # None)
          BY <2>2, <3>2, <4>2, CreateInv
        <4> QED
          BY <4>1, <4>2
      <3>3. CASE Import(p)
        BY <2>2, <3>3, WaitImagesInv, ImportInv DEF Import, Go
      <3>4. CASE Resolve(p)
        BY <2>2, <3>4, WaitImagesInv, WaitAllocatorInv, ResolveInv DEF Resolve
      <3>5. CASE Register(p) \/ Scan(p)
        BY <3>5, RegisterInv, ScanInv
      <3> QED
        BY <1>2, <2>2, <3>1, <3>2, <3>3, <3>4, <3>5 DEF Step, TimedOut
    <2> QED
      BY <2>1, <2>2
  <1>3. ASSUME NEW p \in Proc, Start(p) \/ Killed(p) PROVE Inv'
    BY <1>3, StartInv, EndInv DEF Killed
  <1>4. CASE CatalogChange \/ Damage \/ Destroy \/ CalmDown
    BY <1>4, HostInv
  <1> QED
    BY <1>1, <1>2, <1>3, <1>4 DEF Next

\* The inductive invariant: who holds which lock at which step, and what was
\* checked under it.
THEOREM Invariance == Spec => []Inv
  <1>1. Inv /\ [Next]_vars => Inv'
    BY NextInv
  <1> QED
    BY <1>1, InitInv, PTL DEF Spec

-----------------------------------------------------------------------------
\* Whoever is handed an image gets the bytes it asked for, however the download
\* was interrupted and resumed (store.go Pull, publish, ValidateCached).
THEOREM Verified == Spec => ServedIsVerified
  <1> DEFINE Served == \A p \in Proc : at[p] # "served" /\ at'[p] = "served"
                         => file'[job'[p].slot] = job'[p].digest
  <1>1. ASSUME Inv, [Next]_vars PROVE Served
    <2> SUFFICES ASSUME NEW q \in Proc, at[q] # "served", at'[q] = "served"
                 PROVE  file'[job'[q].slot] = job'[q].digest
      OBVIOUS
    <2>0. TypeOK /\ Tasked(q) /\ Checked(q)
      BY <1>1 DEF Inv
    <2>1. CASE Cached(q)
      BY <2>0, <2>1 DEF Cached, Go, TypeOK, cache
    <2>2. CASE Rename(q)
      <3>1. at[q] = "rename" /\ UNCHANGED job
        BY <2>2 DEF Rename, Go
      <3>2. staged[job[q].digest] = "sealed" /\ job[q] \in Images
        BY <2>0, <3>1 DEF Checked, Tasked, PullSteps
      <3>3. file' = [file EXCEPT ![job[q].slot] = job[q].digest]
        BY <2>2, <3>2 DEF Rename
      <3> QED
        BY <2>0, <3>1, <3>2, <3>3 DEF TypeOK, Images
    <2>3. CASE \E l \in Local, n \in Node : AliasBegin(q, l, n)
      BY <2>0, <2>3 DEF AliasBegin, Begin, Image, TypeOK, cache
    <2>4. CASE ~Cached(q) /\ ~Rename(q) /\ ~(\E l \in Local, n \in Node : AliasBegin(q, l, n))
      <3>1. ASSUME NEW p \in Proc, Step(p) PROVE FALSE
        <4>1. p = q
          BY <1>1, <2>0, <3>1 DEF TypeOK, Step, Pull, LockImages, LockAllocator, Go, End, Cached, Quarantine, Stage,
             StageFails, Retry, NextSource, Publish, Rename, PullEnd, Create, Import, Register, Resolve,
             Scan, TimedOut, command
        <4> QED
          BY <2>0, <2>4, <3>1, <4>1 DEF TypeOK, Step, Pull, LockImages, LockAllocator, Go, End, Quarantine, Stage,
             StageFails, Retry, NextSource, Publish, PullEnd, Create, Import, Register, Resolve,
             Scan, TimedOut, command
      <3>2. ASSUME NEW p \in Proc, Start(p) \/ Killed(p) PROVE FALSE
        BY <2>0, <2>4, <3>2 DEF TypeOK, Start, PullBegin, AliasBegin, ImportBegin, PruneBegin, Begin, Killed, End
      <3>3. CASE CatalogChange \/ Damage \/ Destroy \/ CalmDown \/ UNCHANGED vars
        BY <3>3 DEF CatalogChange, Damage, Destroy, CalmDown, vars, command
      <3> QED
        BY <1>1, <3>1, <3>2, <3>3 DEF Next
    <2> QED
      BY <2>1, <2>2, <2>3, <2>4
  <1>2. Inv /\ [Next]_vars => [Served]_vars
    BY <1>1
  <1> QED
    BY <1>2, Invariance, PTL DEF Spec, ServedIsVerified

\* The file a node has its overlay on is never moved away as a damaged entry
\* of the cache (recovery.go quarantineCache).
THEOREM BasesSpared == Spec => QuarantineSparesBases
  <1> DEFINE Spared == \A p \in Proc : at[p] = "qMove" /\ at'[p] = "stage"
                         => \A n \in Node : base[n] # None => base[n].slot # job[p].slot
  <1>1. Inv => Spared
    BY DEF Inv, Checked
  <1>2. Inv /\ [Next]_vars => [Spared]_vars
    BY <1>1
  <1> QED
    BY <1>2, Invariance, PTL DEF Spec, QuarantineSparesBases

\* A local alias names an image that is there, and loses it to damage only:
\* no prune comes between an import and its alias, or takes the image for
\* unreferenced later (service.go ImportNamed, PruneAll).
THEOREM AliasKept == Spec => AliasedImageKept
  <1> DEFINE Kept == \A l \in Local :
               alias'[l] # None /\ (alias[l] = None \/ file[l] = alias[l])
               => file'[l] \in {alias'[l], Junk}
  <1>1. ASSUME Inv, [Next]_vars PROVE [Kept]_vars
    <2> SUFFICES ASSUME NEW l \in Local, alias'[l] # None, alias[l] = None \/ file[l] = alias[l],
                        ~UNCHANGED vars
                 PROVE  file'[l] \in {alias'[l], Junk}
      OBVIOUS
    <2>0. TypeOK /\ l \in Slot
      BY <1>1, ConstantAssumption DEF Inv
    <2>1. CASE UNCHANGED <<file, alias>>
      BY <2>0, <2>1
    <2>2. ASSUME NEW p \in Proc, Register(p) PROVE file'[l] \in {alias'[l], Junk}
      <3>1. at[p] = "register" /\ job[p] \in Images /\ job[p].slot \in Local
        BY <1>1, <2>2 DEF Register, Inv, Tasked, ImportSteps
      <3> QED
        BY <2>0, <2>2, <3>1 DEF Register, TypeOK, Images
    <2>3. ASSUME NEW p \in Proc, Quarantine(p) \/ Rename(p) PROVE file'[l] = file[l] /\ alias' = alias
      <3>1. CASE UNCHANGED file
        BY <2>3, <3>1 DEF Quarantine, Rename, cache
      <3>2. CASE ~UNCHANGED file
        <4>1. at[p] \in PullSteps
          BY <2>3, <3>2 DEF Quarantine, Rename, Go, PullSteps, cache
        <4>2. job[p] \in Images /\ job[p].slot # l
          BY <1>1, <4>1 DEF Inv, Tasked
        <4> QED
          BY <2>0, <2>3, <3>2, <4>2 DEF Quarantine, Rename, TypeOK, Images, cache
      <3> QED
        BY <3>1, <3>2
    <2>4. ASSUME NEW p \in Proc, Import(p) PROVE file'[l] \in {alias'[l], Junk}
      <3>1. alias' = alias
        BY <2>4 DEF Import, LockImages, cache
      <3>2. file' = file \/ (file[job[p].slot] \in {None, job[p].digest}
                              /\ file' = [file EXCEPT ![job[p].slot] = job[p].digest])
        BY <2>4 DEF Import, LockImages, cache
      <3> QED
        BY <2>0, <3>1, <3>2 DEF TypeOK
    <2>5. ASSUME NEW p \in Proc, Scan(p) PROVE file'[l] \in {alias'[l], Junk}
      <3>1. at[p] = "scan" /\ alias' = alias
        BY <2>5 DEF Scan
      <3>2. alias[l] \in refs[p]
        BY <1>1, <3>1 DEF Inv, Checked
      <3>3. file' = file \/ \E s \in Slot : file[s] \notin refs[p] /\ file' = [file EXCEPT ![s] = None]
        BY <2>5 DEF Scan, Stale
      <3> QED
        BY <2>0, <3>1, <3>2, <3>3 DEF TypeOK
    <2>6. CASE Damage
      BY <2>0, <2>6 DEF Damage, TypeOK
    <2>7. CASE \E p \in Proc : Start(p) \/ Killed(p)
      BY <2>1, <2>7 DEF Start, PullBegin, AliasBegin, ImportBegin, PruneBegin, Begin, Killed, cache
    <2>8. CASE CatalogChange \/ Destroy \/ CalmDown
      BY <2>1, <2>8 DEF CatalogChange, Destroy, CalmDown, cache
    <2>9. ASSUME NEW p \in Proc, Step(p) PROVE file'[l] \in {alias'[l], Junk}
      <3>1. CASE Create(p) \/ Resolve(p) \/ TimedOut(p)
        BY <2>1, <3>1 DEF Create, Resolve, TimedOut, LockImages, LockAllocator, cache
      <3>2. CASE Pull(p)
        <4>1. Quarantine(p) \/ Rename(p) \/ UNCHANGED <<file, alias>>
          BY <3>2 DEF Pull, LockImages, LockAllocator, Cached, Stage, StageFails, Publish, PullEnd, cache
        <4> QED
          BY <2>0, <2>1, <2>3, <4>1
      <3> QED
        BY <2>2, <2>4, <2>5, <2>9, <3>1, <3>2 DEF Step
    <2> QED
      BY <1>1, <2>6, <2>7, <2>8, <2>9 DEF Next
  <1>2. Inv /\ [Next]_vars => [Kept]_vars
    BY <1>1
  <1> QED
    BY <1>2, Invariance, PTL DEF Spec, AliasedImageKept
=============================================================================
