---------------------------- MODULE CatalogRepo ----------------------------
(***************************************************************************)
(* The publishing side of a custom repository: `farrow image repo build`   *)
(* (internal/image/repo.go).  A build computes a catalog from repo.yaml    *)
(* and the artifacts, which change at any time, and then writes            *)
(* catalog.json, which clients read as the repository's catalog.  Builds   *)
(* take no lock; two of them overlapping are outside the model.            *)
(***************************************************************************)
EXTENDS CatalogManifest

VARIABLE releases    \* history: every catalog.json ever published

RepoInit == Init /\ releases = {}

\* MayReplace without the comparison of the bytes.
MayReplaceSameRevision(old, new) == old.rev <= new.rev

\* A revision may neither fall nor keep its number with other bytes.
MayReplace(old, new) == old.rev < new.rev \/ old = new

\* repo.yaml and the artifacts hold whatever the author left there, under a
\* new revision, the same or an older one; an invalid catalog, or a tree with a
\* missing, unsafe or changing artifact, ends the build before anything is
\* written.
Build(c) ==
  /\ c.text \in Accepted
  /\ MayReplace(published, c)
  /\ published' = c
  /\ releases' = releases \cup {c}
  /\ UNCHANGED <<disk, lock, release, cmd, left, accepted, consent>>

Next ==
  \/ \E c \in Catalogs : Build(c)
  \/ /\ UNCHANGED releases
     /\ \/ \E p \in Procs :
             \/ \E r \in Repos :
                  \/ \E c \in Catalogs, sig \in Signatures \cup {Unsigned}, down \in BOOLEAN :
                       Sync(p, r, c, sig, down)
                  \/ Reset(p, r)
                  \/ OpenCatalog(p, r)
             \/ LockTimeout(p) \/ SyncRefuse(p) \/ SyncAccept(p)
             \/ WriteFile(p) \/ WriteSignature(p) \/ WriteState(p) \/ ResetState(p)
             \/ ReadCatalog(p) \/ Kill(p)
        \/ \E b \in Binaries : Install(b)

Spec == RepoInit /\ [][Next]_<<vars, releases>>

-----------------------------------------------------------------------------
(* Properties.                                                             *)

Lucid == {text \in DOMAIN Content : Clear(Content[text])}

\* A catalog that Validate accepts never leaves the meaning of a reference
\* open: no alias means two images, no numeric selector is ambiguous or misses
\* the newest release (catalog.go 202-218, 331-377), and what is handed out is
\* what prune keeps (service.go 245-247).  So it is with every catalog that is
\* published or active.
AcceptedResolves ==
  /\ Ambiguous = {}
  /\ published # NoCatalog => published.text \in Lucid
  /\ \A r \in Repos : registry[r] # NoState => registry[r].cat.text \in Lucid

\* No state the registry ever holds points at a file or a signature that is
\* not there, whatever command is killed between the three writes: a catalog
\* that was activated can be read back (manifest_store.go:533-580).
PointerIsComplete == \A r \in Repos : registry[r] = NoState \/ Serves(r, registry[r])

\* Reset is the way out of every refusal: after it, image commands of the
\* same release work for that repository, whatever older and newer releases
\* left in the registry (Reset, 585-646; currentBaselineState, 282-306).
ResetRecovers ==
  [][\A p \in Procs, r \in Repos, b \in Binaries :
        ResetState(p) /\ job[p].repo = r /\ job[p].bin = b => CurrentWorks(r, b)']_<<vars, releases>>

\* Downgrade protection, and one slot per repository: the registry file
\* implements the register of CatalogContract, although two commands of two
\* releases may write it in turn.
Contract ==
  INSTANCE CatalogContract WITH
    mark <- [r \in Repos |-> registry[r].highest],
    active <- [r \in Repos |-> IF registry[r].embedded THEN 0 ELSE registry[r].cat.rev],
    consent <- consent
ImplementsContract == Contract!Spec

\* A client whose custom slot only ever held what `repo build` published is
\* never told, by a plain update, that this repository rolled back or gave
\* one revision two contents (Build, repo.go:350-371, against the refusals of
\* Sync).  Restoring the built-in catalog ends the promise until the next sync.
UpdatesGoThrough ==
  LET s == registry[Custom]
  IN published # NoCatalog /\ accepted[Custom] \subseteq releases /\ ~s.embedded /\ s.key = NoKey
       => Acceptable(s, published, Unsigned, FALSE)
=============================================================================
