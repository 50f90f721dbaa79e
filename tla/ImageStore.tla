----------------------------- MODULE ImageStore -----------------------------
(***************************************************************************)
(* The image cache: pull with its resumable downloads, quarantine of       *)
(* damaged files, import and local aliases, prune, and the creation of     *)
(* nodes on cached images, by commands that run at the same time.          *)
(*                                                                         *)
(* images.lock serialises changes of the cache.  allocator.lock serialises *)
(* the creation of nodes and is taken by prune and quarantine to read what *)
(* nodes refer to, always after images.lock.  Both are file locks: they    *)
(* are polled for 30 s, and free when their holder dies.                   *)
(*                                                                         *)
(* A slot is a path of the cache: one alias and release of the catalog, or *)
(* one file name of the local family.  The catalog may give a slot another *)
(* digest.  File permissions are left out: a writable file is verified and *)
(* made immutable in the step that checks the cache.                       *)
(***************************************************************************)
EXTENDS Naturals, FiniteSets

CONSTANTS
    Proc, Node,
    May,           \* May[p]: the commands p is let run, a bound of the instance
    Slot, Local,   \* paths of the cache; the ones imports fill
    Digest,
    Sources,       \* candidate sources of a pull: the repository and its mirror
    Attempts,      \* tries of one source, 3 in the code
    None, Junk     \* no file, no digest; content that has no valid digest

ASSUME ConstantAssumption ==
    /\ May \in [Proc -> SUBSET {"pull", "up", "import", "prune"}]
    /\ Local \subseteq Slot
    /\ Sources \in Nat \ {0} /\ Attempts \in Nat \ {0}
    /\ None \notin Digest /\ Junk \notin Digest /\ None # Junk
    /\ None \notin Proc

VARIABLES
    file,        \* file[s]: digest of the content at path s
    staged,      \* staged[d]: the resumable download of d; "none" also if empty
    catalog,     \* catalog[s]: digest of s in the active catalog
    alias,       \* alias[l]: digest registered for a local image
    base,        \* base[n]: image a committed node was created from
    unfinished,  \* nodes whose directory has no state document
    images,      \* holder of images.lock
    allocator,   \* holder of allocator.lock
    at,          \* at[p]: next step of command p
    job,         \* job[p]: the image it works on, and the node it creates
    try,         \* try[p]: candidate source and attempt of a pull
    refs,        \* refs[p]: the digests a prune found to be referenced
    calm         \* from here on nothing fails and the catalog stays

cache == <<file, staged, alias>>
nodes == <<base, unfinished>>
command == <<at, job, try, refs>>
vars == <<file, staged, catalog, alias, base, unfinished, images, allocator,
          at, job, try, refs, calm>>

ForImages == {"lock", "iLock", "rLock", "pLock"}
ForAllocator == {"qLock", "served", "pRefs"}
First == [source |-> 1, attempt |-> 1]

-----------------------------------------------------------------------------
(* Steps common to all commands.                                           *)

\* p goes on; its locks are as given.
Go(p, from, to) ==
    /\ at[p] = from /\ at' = [at EXCEPT ![p] = to]
    /\ UNCHANGED <<job, refs, catalog, calm>>

\* p returns, with whatever locks it holds released.
End(p) ==
    /\ at' = [at EXCEPT ![p] = "idle"] /\ job' = [job EXCEPT ![p] = None]
    /\ try' = [try EXCEPT ![p] = First] /\ refs' = [refs EXCEPT ![p] = {}]
    /\ images' = IF images = p THEN None ELSE images
    /\ allocator' = IF allocator = p THEN None ELSE allocator
    /\ UNCHANGED <<catalog, calm>>

Begin(p, step, image) ==
    /\ at[p] = "idle"
    /\ at' = [at EXCEPT ![p] = step] /\ job' = [job EXCEPT ![p] = image]
    /\ UNCHANGED <<cache, nodes, catalog, images, allocator, try, refs, calm>>

LockImages(p, from, to) ==
    /\ images = None /\ images' = p /\ Go(p, from, to)
    /\ UNCHANGED <<cache, nodes, allocator, try>>

LockAllocator(p, from, to) ==
    /\ allocator = None /\ allocator' = p /\ Go(p, from, to)
    /\ UNCHANGED <<cache, nodes, images, try>>

\* The 30 s of a wait are over.
TimedOut(p) ==
    /\ ~calm
    /\ \/ at[p] \in ForImages /\ images # None
       \/ at[p] \in ForAllocator /\ allocator # None
    /\ End(p) /\ UNCHANGED <<cache, nodes>>

-----------------------------------------------------------------------------
(* Pull.                                                                   *)

Image(s, d, n) == [slot |-> s, digest |-> d, node |-> n]

\* A pull of its own, or the one of an `up` that is to create node n.
PullBegin(p, s, n) ==
    /\ s \notin Local /\ catalog[s] # None
    /\ Begin(p, "lock", Image(s, catalog[s], n))

\* ValidateCached: the right bytes are handed out, other bytes are moved away.
Cached(p) ==
    LET found == file[job[p].slot]
    IN  /\ at[p] = "cached"
        /\ Go(p, "cached", IF found = job[p].digest THEN "served"
                           ELSE IF found = None THEN "stage" ELSE "qLock")
        /\ images' = IF found = job[p].digest THEN None ELSE images
        /\ UNCHANGED <<cache, nodes, allocator, try>>

\* Mutant: nodes are asked for the digest they recorded only.
AcceptsByDigest(p) ==
    unfinished = {} /\ \A n \in Node : base[n] # None => base[n].digest # job[p].digest

\* quarantineCache: no node is unreadable, or uses the image under its digest,
\* its name or its path.
QuarantineAccepts(p) ==
    /\ unfinished = {}
    /\ \A n \in Node : base[n] # None => /\ base[n].digest # job[p].digest
                                         /\ base[n].slot # job[p].slot

Quarantine(p) ==
    \/ /\ Go(p, "qCheck", "qMove") /\ QuarantineAccepts(p)
       /\ UNCHANGED <<cache, nodes, images, allocator, try>>
    \/ /\ at[p] = "qCheck" /\ ~QuarantineAccepts(p)
       /\ End(p) /\ UNCHANGED <<cache, nodes>>
    \/ /\ Go(p, "qMove", "stage")
       /\ file' = [file EXCEPT ![job[p].slot] = None]
       /\ allocator' = None
       /\ UNCHANGED <<staged, alias, nodes, images, try>>

\* The next candidate source, or the end of the pull.
NextSource(p) ==
    IF try[p].source < Sources
    THEN /\ try' = [try EXCEPT ![p] = [source |-> @.source + 1, attempt |-> 1]]
         /\ at' = [at EXCEPT ![p] = "stage"]
         /\ UNCHANGED <<job, refs, catalog, images, allocator, calm>>
    ELSE End(p)

\* openStaging: a file that is not a private partial download is removed.
Resumed(d) == IF staged[d] = "sealed" THEN "none" ELSE staged[d]

\* A download that completes.  A staged file of full length is reused as it
\* is; a source may have other bytes, and an interrupted download may have
\* begun with them.
Stage(p) ==
    LET d == job[p].digest
    IN  /\ Go(p, "stage", "publish")
        /\ staged' \in {[staged EXCEPT ![d] = r] :
                        r \in IF staged[d] \in {"full", "wrong"} THEN {staged[d]}
                              ELSE IF Resumed(d) = "part" \/ ~calm THEN {"full", "wrong"} ELSE {"full"}}
        /\ UNCHANGED <<file, alias, nodes, images, allocator, try>>

\* Mutant: the count starts over with every failure past the limit.
RetryForever(p) ==
    /\ try' = [try EXCEPT ![p].attempt = IF @ < Attempts THEN @ + 1 ELSE 1]
    /\ at' = [at EXCEPT ![p] = "stage"]
    /\ UNCHANGED <<job, refs, catalog, images, allocator, calm>>

\* A transient failure is retried a limited number of times.
Retry(p) ==
    /\ try[p].attempt < Attempts
    /\ try' = [try EXCEPT ![p].attempt = @ + 1] /\ at' = [at EXCEPT ![p] = "stage"]
    /\ UNCHANGED <<job, refs, catalog, images, allocator, calm>>

\* The connection breaks, which keeps the partial file; the source answers with
\* an error; or it contradicts the catalog, which removes the file.
StageFails(p) ==
    /\ ~calm /\ at[p] = "stage"
    /\ staged[job[p].digest] \notin {"full", "wrong"}
    /\ \/ /\ staged' \in {[staged EXCEPT ![job[p].digest] = r] : r \in {Resumed(job[p].digest), "part"}}
          /\ (Retry(p) \/ NextSource(p))
       \/ /\ staged' = [staged EXCEPT ![job[p].digest] = "none"]
          /\ NextSource(p)
    /\ UNCHANGED <<file, alias, nodes>>

\* Mutant: the digest of a complete download is not compared.
PublishUnverified(p) ==
    /\ Go(p, "publish", "rename")
    /\ staged' = [staged EXCEPT ![job[p].digest] = IF @ = "full" THEN "sealed" ELSE @]
    /\ UNCHANGED <<file, alias, nodes, images, allocator, try>>

\* Mutant: a rejected download stays for the next pull to resume.
PublishKeepsRejected(p) ==
    \/ /\ Go(p, "publish", "rename") /\ staged[job[p].digest] = "full"
       /\ staged' = [staged EXCEPT ![job[p].digest] = "sealed"]
       /\ UNCHANGED <<file, alias, nodes, images, allocator, try>>
    \/ /\ at[p] = "publish" /\ staged[job[p].digest] # "full"
       /\ NextSource(p)
       /\ UNCHANGED <<file, staged, alias, nodes>>

\* publish: verified and made immutable, or rejected and removed.
Publish(p) ==
    \/ /\ Go(p, "publish", "rename") /\ staged[job[p].digest] = "full"
       /\ staged' = [staged EXCEPT ![job[p].digest] = "sealed"]
       /\ UNCHANGED <<file, alias, nodes, images, allocator, try>>
    \/ /\ at[p] = "publish" /\ staged[job[p].digest] # "full"
       /\ staged' = [staged EXCEPT ![job[p].digest] = "none"]
       /\ NextSource(p)
       /\ UNCHANGED <<file, alias, nodes>>

\* The rename: the path has the bytes of the staged file from now on.
Rename(p) ==
    LET d == job[p].digest
    IN  /\ Go(p, "rename", "served")
        /\ file' = [file EXCEPT ![job[p].slot] = IF staged[d] = "sealed" THEN d ELSE Junk]
        /\ staged' = [staged EXCEPT ![d] = "none"]
        /\ images' = None
        /\ UNCHANGED <<alias, nodes, allocator, try>>

PullEnd(p) ==
    /\ at[p] = "served" /\ job[p].node = None
    /\ End(p) /\ UNCHANGED <<cache, nodes>>

Pull(p) == \/ LockImages(p, "lock", "cached") \/ Cached(p)
           \/ LockAllocator(p, "qLock", "qCheck") \/ Quarantine(p)
           \/ Stage(p) \/ StageFails(p) \/ Publish(p) \/ Rename(p) \/ PullEnd(p)

-----------------------------------------------------------------------------
(* up: a node is created on the image that was handed out.                 *)

\* ResolveLocalAlias: no lock, the bytes are checked.
AliasBegin(p, l, n) ==
    /\ alias[l] # None /\ file[l] = alias[l]
    /\ Begin(p, "served", Image(l, alias[l], n))

Create(p) ==
    \/ LockAllocator(p, "served", "mkdir") /\ job[p].node # None
    \/ /\ Go(p, "mkdir", "overlay") /\ job[p].node \notin unfinished /\ base[job[p].node] = None
       /\ unfinished' = unfinished \cup {job[p].node}
       /\ UNCHANGED <<cache, base, images, allocator, try>>
    \/ /\ at[p] = "mkdir" /\ (job[p].node \in unfinished \/ base[job[p].node] # None)
       /\ End(p) /\ UNCHANGED <<cache, nodes>>
    \/ /\ Go(p, "overlay", "commit") /\ file[job[p].slot] # None
       /\ UNCHANGED <<cache, nodes, images, allocator, try>>
    \/ /\ at[p] = "overlay" /\ file[job[p].slot] = None
       /\ End(p) /\ UNCHANGED <<cache, nodes>>
    \/ /\ at[p] = "commit"
       /\ base' = [base EXCEPT ![job[p].node] = Image(job[p].slot, job[p].digest, None)]
       /\ unfinished' = unfinished \ {job[p].node}
       /\ End(p) /\ UNCHANGED cache

-----------------------------------------------------------------------------
(* Import, and the alias of the imported image.                            *)

ImportBegin(p, l, d) == Begin(p, "iLock", Image(l, d, None))

\* The source is copied and verified; a name that is taken is only accepted
\* with the same bytes.  With a name, the alias is registered next.
Import(p) ==
    \/ LockImages(p, "iLock", "import")
    \/ /\ Go(p, "import", "rLock") /\ file[job[p].slot] \in {None, job[p].digest}
       /\ file' = [file EXCEPT ![job[p].slot] = job[p].digest]
       /\ images' = None
       /\ UNCHANGED <<staged, alias, nodes, allocator, try>>
    \/ /\ at[p] = "import" /\ file[job[p].slot] \notin {None, job[p].digest}
       /\ End(p) /\ UNCHANGED <<cache, nodes>>
    \/ LockImages(p, "rLock", "register")

\* Mutant: the image is not looked at again under the second lock.
RegisterUnchecked(p) ==
    /\ at[p] = "register"
    /\ alias' = [alias EXCEPT ![job[p].slot] = IF @ = None THEN job[p].digest ELSE @]
    /\ End(p) /\ UNCHANGED <<file, staged, nodes>>

\* RegisterLocalAlias: the image is still there, and the name is not taken.
Register(p) ==
    /\ at[p] = "register"
    /\ alias' = [alias EXCEPT ![job[p].slot] =
                   IF file[job[p].slot] = job[p].digest /\ @ = None THEN job[p].digest ELSE @]
    /\ End(p) /\ UNCHANGED <<file, staged, nodes>>

-----------------------------------------------------------------------------
(* Prune.                                                                  *)

PruneBegin(p) == Begin(p, "pLock", None)

\* PruneAll's resolver, under both locks; an unreadable node ends the command.
Resolve(p) ==
    \/ LockImages(p, "pLock", "pRefs")
    \/ LockAllocator(p, "pRefs", "resolve")
    \/ /\ at[p] = "resolve" /\ unfinished = {}
       /\ at' = [at EXCEPT ![p] = "scan"]
       /\ refs' = [refs EXCEPT ![p] =
                     {d \in Digest : \/ \E s \in Slot : catalog[s] = d
                                     \/ \E n \in Node : base[n] # None /\ base[n].digest = d
                                     \/ \E l \in Local : alias[l] = d}]
       /\ allocator' = None
       /\ UNCHANGED <<cache, nodes, images, job, try, catalog, calm>>
    \/ /\ at[p] = "resolve" /\ unfinished # {}
       /\ End(p) /\ UNCHANGED <<cache, nodes>>

Stale(p) == {s \in Slot : file[s] # None /\ file[s] \notin refs[p]}

\* scanPrune: partial downloads and files whose content nobody refers to are
\* removed one by one, in any order of their names.  A sealed download or a
\* broken image ends the command.
Scan(p) ==
    /\ at[p] = "scan"
    /\ \/ \E d \in Digest :
            /\ staged[d] \notin {"none", "sealed"}
            /\ staged' = [staged EXCEPT ![d] = "none"]
            /\ UNCHANGED <<file, command, images, allocator, catalog, calm>>
       \/ \E s \in Stale(p) :
            /\ file' = [file EXCEPT ![s] = None]
            /\ UNCHANGED <<staged, command, images, allocator, catalog, calm>>
       \/ /\ \/ \E d \in Digest : staged[d] = "sealed"
             \/ \E s \in Stale(p) : file[s] = Junk
             \/ Stale(p) = {} /\ \A d \in Digest : staged[d] = "none"
          /\ End(p) /\ UNCHANGED <<file, staged>>
    /\ UNCHANGED <<alias, nodes>>

-----------------------------------------------------------------------------
Step(p) == \/ Pull(p) \/ Create(p) \/ Import(p) \/ Register(p)
           \/ Resolve(p) \/ Scan(p) \/ TimedOut(p)

Start(p) ==
    \/ "pull" \in May[p] /\ \E s \in Slot : PullBegin(p, s, None)
    \/ "up" \in May[p] /\ \E s \in Slot, n \in Node : PullBegin(p, s, n)
    \/ "up" \in May[p] /\ \E l \in Local, n \in Node : AliasBegin(p, l, n)
    \/ "import" \in May[p] /\ \E l \in Local, d \in Digest : ImportBegin(p, l, d)
    \/ "prune" \in May[p] /\ PruneBegin(p)

\* The command is killed or returns early with an error.
Killed(p) == ~calm /\ at[p] # "idle" /\ End(p) /\ UNCHANGED <<cache, nodes>>

\* Another catalog becomes active (see the signed manifests).
CatalogChange ==
    /\ ~calm
    /\ \E s \in Slot \ Local, d \in Digest \cup {None} : catalog' = [catalog EXCEPT ![s] = d]
    /\ UNCHANGED <<cache, nodes, images, allocator, command, calm>>

\* The bytes of a cached image change on disk.
Damage ==
    /\ ~calm
    /\ \E s \in Slot : file[s] # None /\ file' = [file EXCEPT ![s] = Junk]
    /\ UNCHANGED <<staged, alias, nodes, catalog, images, allocator, command, calm>>

\* A node is destroyed, or the leftovers of its creation are rolled back.
Destroy ==
    /\ \E n \in Node :
         \/ base[n] # None /\ base' = [base EXCEPT ![n] = None] /\ UNCHANGED unfinished
         \/ /\ n \in unfinished /\ \A p \in Proc : at[p] \notin {"overlay", "commit"}
            /\ unfinished' = unfinished \ {n} /\ UNCHANGED base
    /\ UNCHANGED <<cache, catalog, images, allocator, command, calm>>

CalmDown ==
    /\ ~calm /\ calm' = TRUE
    /\ UNCHANGED <<cache, nodes, catalog, images, allocator, command>>

Init ==
    /\ file = [s \in Slot |-> None] /\ staged = [d \in Digest |-> "none"]
    /\ catalog \in [Slot -> Digest \cup {None}] /\ \A l \in Local : catalog[l] = None
    /\ alias = [l \in Local |-> None]
    /\ base = [n \in Node |-> None] /\ unfinished = {}
    /\ images = None /\ allocator = None
    /\ at = [p \in Proc |-> "idle"] /\ job = [p \in Proc |-> None]
    /\ try = [p \in Proc |-> First] /\ refs = [p \in Proc |-> {}]
    /\ calm = FALSE

Next ==
    \/ \E p \in Proc : Step(p) \/ Start(p) \/ Killed(p)
    \/ CatalogChange \/ Damage \/ Destroy \/ CalmDown

\* A command goes on whenever it can, a polled lock included; pulls of what the
\* catalog names are repeated.
Fairness ==
    /\ \A p \in Proc : SF_vars(Step(p))
    /\ \A s \in Slot \ Local : SF_vars(\E p \in Proc : "pull" \in May[p] /\ PullBegin(p, s, None))

Spec == Init /\ [][Next]_vars /\ Fairness

-----------------------------------------------------------------------------
\* Whoever is handed an image gets the bytes the catalog or the alias names,
\* however often the download was interrupted, resumed or taken from another
\* source (store.go Pull, publish, ValidateCached).
ServedIsVerified ==
    [][\A p \in Proc : at[p] # "served" /\ at'[p] = "served"
          => file'[job'[p].slot] = job'[p].digest]_vars

\* The file a node has its overlay on is never moved away as a damaged cache
\* entry, not even when the catalog has given its name another digest since
\* (recovery.go quarantineCache).
QuarantineSparesBases ==
    [][\A p \in Proc : at[p] = "qMove" /\ at'[p] = "stage"
          => \A n \in Node : base[n] # None => base[n].slot # job[p].slot]_vars

\* A local alias names an image that is there, and loses it to damage only:
\* no prune comes between the import and the alias, or finds the image
\* unreferenced later (service.go ImportNamed, PruneAll).
AliasedImageKept ==
    [][\A l \in Local :
          alias'[l] # None /\ (alias[l] = None \/ file[l] = alias[l])
          => file'[l] \in {alias'[l], Junk}]_vars

\* Every command ends: retries are bounded, and no two commands wait for each
\* other's lock (recovery.go stageWithRetry, store.go Pull).
OperationsEnd == \A p \in Proc : at[p] # "idle" ~> at[p] = "idle"

\* With a working source and no node in the way, repeated pulls repair the
\* cache from every state that interrupted, failed or wrong downloads left.
CacheRecovers ==
    \A s \in Slot \ Local, d \in Digest :
        (calm /\ catalog[s] = d) ~> (file[s] = d \/ unfinished # {} \/ \E n \in Node : base[n] # None)

\* images.go nodeImageReferences: "so prune never deletes a base image in use".
\* The references are read once, under a lock that is free again while the
\* files are removed.
PruneSparesBases ==
    [][\A p \in Proc, n \in Node :
          at[p] = "scan" /\ base[n] # None /\ file[base[n].slot] = base[n].digest
          => file'[base[n].slot] # None]_vars
=============================================================================
