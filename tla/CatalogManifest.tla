-------------------------- MODULE CatalogManifest --------------------------
(***************************************************************************)
(* The registry of active image catalogs: internal/image/manifest_store.go *)
(* with the catalog commands of service.go and catalog_session.go.  A      *)
(* catalog is the bytes of one file: its revision and a text that tells    *)
(* different bytes of one revision apart; its digest is the pair, and      *)
(* Content gives what the text says.                                       *)
(*                                                                         *)
(* Every command runs in a process of its own with the catalog compiled    *)
(* into its binary, so commands of two releases may overlap.  Sync and     *)
(* Reset hold manifest.lock, which the kernel frees when the process dies; *)
(* Current takes no lock.  Bound: Commands, the commands ever started.     *)
(***************************************************************************)
EXTENDS CatalogResolution

CONSTANTS Procs,       \* command slots
          Catalogs,    \* catalogs that exist: records [rev, text]
          Content,     \* text -> what it says, one of Drafts
          Signatures,  \* detached signatures by trusted keys
          Signed,      \* {<<catalog, signature>>}: what each of them signs
          SigKey,      \* signature -> the key that made it
          Binaries,    \* releases of farrow, 1 the oldest
          Embedded,    \* release -> the catalog compiled into it
          Commands     \* bound on the commands started

Default == "default"
Custom == "custom"
Repos == {Default, Custom}
Unsigned == "unsigned"
NoKey == "none"

KeyOf(sig) == IF sig = Unsigned THEN NoKey ELSE SigKey[sig]
Keys == {KeyOf(s) : s \in Signatures}

ASSUME CatalogAssumption ==
  /\ \A c \in Catalogs : c.rev \in Nat \ {0}
  /\ 1 \in Binaries /\ \A b \in Binaries : Embedded[b] \in Catalogs
  /\ Signed \subseteq Catalogs \X Signatures
  /\ Unsigned \notin Signatures
  /\ \A s \in Signatures : SigKey[s] # NoKey
  /\ 0 \notin Procs
  /\ Commands \in Nat

NoCatalog == [rev |-> 0, text |-> "none"]
NoState == [highest |-> 0, embedded |-> FALSE, cat |-> NoCatalog, key |-> NoKey]
NoJob == [repo |-> Default, cat |-> NoCatalog, sig |-> Unsigned, down |-> FALSE,
          next |-> NoState, bin |-> 0]

VARIABLES registry,   \* slot -> accepted state (images/manifests/state.json)
          files,      \* catalog files under images/manifests/versions
          sigs,       \* {<<catalog, signature>>}: signature files beside them
          lock,       \* holder of locks/manifest.lock, or 0
          release,    \* the release installed now
          published,  \* what the custom repository serves as catalog.json
          pc, job,    \* per command: its step; its arguments and the release it runs
          left,       \* commands that may still start
          accepted,   \* history: slot -> catalogs ever activated by Sync
          consent     \* history: slot -> active state came from --allow-downgrade

disk == <<registry, files, sigs>>
cmd == <<pc, job>>
vars == <<registry, files, sigs, lock, release, published, pc, job, left, accepted, consent>>

Max2(a, b) == IF a > b THEN a ELSE b

Init ==
  /\ registry = [r \in Repos |-> NoState]
  /\ files = {}
  /\ sigs = {}
  /\ lock = 0
  /\ release = 1
  /\ published = NoCatalog
  /\ pc = [p \in Procs |-> "idle"]
  /\ job = [p \in Procs |-> NoJob]
  /\ left = Commands
  /\ accepted = [r \in Repos |-> {}]
  /\ consent = [r \in Repos |-> FALSE]

-----------------------------------------------------------------------------
(* The decisions of Sync and Current.                                      *)

EmbeddedState(b) ==
  [highest |-> Embedded[b].rev, embedded |-> TRUE, cat |-> Embedded[b], key |-> NoKey]

\* Only a repository chosen by the user and outside the official ones may go unsigned.
UnsignedAllowed(r) == r = Custom

\* The texts that strictCatalog parses and validates.
Accepted == {text \in DOMAIN Content : Valid(Content[text])}

\* The compiled catalog is parsed by strictCatalog too, or farrow panics.
ASSUME ContentAssumption ==
  /\ \A text \in DOMAIN Content : Content[text] \in Drafts
  /\ \A b \in Binaries : Embedded[b].text \in Accepted

\* What readSource, verifyManifest and strictCatalog let through: a valid
\* catalog with a signature by a trusted key, or without one if the selected
\* repository itself publishes it.
Trusted(r, c, sig) ==
  /\ c.text \in Accepted
  /\ \/ <<c, sig>> \in Signed
     \/ sig = Unsigned /\ UnsignedAllowed(r) /\ c = published

\* A state whose mark predates the binary gives way to the compiled catalog.
Advanced(s, b) == IF s.highest < Embedded[b].rev THEN EmbeddedState(b) ELSE s

\* The compiled catalog and the state must agree on the compiled revision.
BaselineAgrees(s, b) ==
  s.highest >= Embedded[b].rev /\ (s.embedded \/ s.cat.rev = Embedded[b].rev)
     => s.cat = Embedded[b]

\* The state a command of release b starts from, and whether it may go on.
Known(r, b) ==
  IF r = Default
  THEN Advanced(IF registry[r] = NoState THEN EmbeddedState(b) ELSE registry[r], b)
  ELSE registry[r]

Usable(r, b) ==
  r = Default /\ registry[r] # NoState => BaselineAgrees(registry[r], b)

\* Acceptable measured by the active revision in place of the high-water mark.
AcceptableByActive(current, c, sig, down) ==
  /\ current.key # NoKey /\ sig = Unsigned => down
  /\ c.rev = current.cat.rev => c = current.cat
  /\ c.rev < current.cat.rev => down

\* The three refusals of Sync once the lock is held.
Acceptable(current, c, sig, down) ==
  /\ current.key # NoKey /\ sig = Unsigned => down
  /\ c.rev = current.cat.rev => c = current.cat
  /\ c.rev < current.highest => down

\* The pointer Current would follow, and whether it can be served.
Pointer(r, b) == IF registry[r] = NoState THEN EmbeddedState(b) ELSE Known(r, b)

Serves(r, s) ==
  \/ s.embedded
  \/ /\ s.cat \in files
     /\ IF s.key = NoKey THEN UnsignedAllowed(r)
                         ELSE \E sig \in Signatures : KeyOf(sig) = s.key /\ <<s.cat, sig>> \in sigs

CurrentWorks(r, b) == Usable(r, b) /\ Serves(r, Pointer(r, b))

-----------------------------------------------------------------------------
(* Commands.                                                               *)

Return(p) == /\ pc' = [pc EXCEPT ![p] = "idle"]
             /\ job' = [job EXCEPT ![p] = NoJob]

Begin(p, step, j) ==
  /\ pc[p] = "idle"
  /\ left > 0
  /\ left' = left - 1
  /\ pc' = [pc EXCEPT ![p] = step]
  /\ job' = [job EXCEPT ![p] = [j EXCEPT !.bin = release]]
  /\ UNCHANGED <<registry, files, sigs, lock, release, published, accepted, consent>>

\* The source is read, verified and parsed before any lock is taken.  `update`
\* is a sync of the repository's own catalog without --allow-downgrade.
Sync(p, r, c, sig, down) ==
  /\ Trusted(r, c, sig)
  /\ Begin(p, "sync", [NoJob EXCEPT !.repo = r, !.cat = c, !.sig = sig, !.down = down])

Reset(p, r) == Begin(p, "reset", [NoJob EXCEPT !.repo = r])

LockTimeout(p) ==
  /\ pc[p] \in {"sync", "reset"}
  /\ lock # 0
  /\ Return(p)
  /\ UNCHANGED <<disk, lock, release, published, left, accepted, consent>>

\* Under the lock: read the registry, judge the catalog against it.
SyncRefuse(p) ==
  /\ pc[p] = "sync"
  /\ lock = 0
  /\ ~ (/\ Usable(job[p].repo, job[p].bin)
        /\ Acceptable(Known(job[p].repo, job[p].bin), job[p].cat, job[p].sig, job[p].down))
  /\ Return(p)
  /\ UNCHANGED <<disk, lock, release, published, left, accepted, consent>>

SyncAccept(p) ==
  LET j == job[p]
      current == Known(j.repo, job[p].bin)
      next == [highest |-> Max2(current.highest, j.cat.rev), embedded |-> FALSE,
               cat |-> j.cat, key |-> KeyOf(j.sig)]
  IN /\ pc[p] = "sync"
     /\ lock = 0
     /\ Usable(j.repo, job[p].bin)
     /\ Acceptable(current, j.cat, j.sig, j.down)
     /\ lock' = p
     /\ pc' = [pc EXCEPT ![p] = "file"]
     /\ job' = [job EXCEPT ![p].next = next]
     /\ UNCHANGED <<disk, release, published, left, accepted, consent>>

\* WriteFile with the state written before the signature.
WriteFileStateNext(p) ==
  /\ pc[p] = "file"
  /\ files' = files \cup {job[p].cat}
  /\ pc' = [pc EXCEPT ![p] = "state"]
  /\ UNCHANGED <<registry, sigs, lock, release, published, job, left, accepted, consent>>

\* The catalog, its signature and the state are written in that order, each
\* by a rename; a file that is there already is left as it is.
WriteFile(p) ==
  /\ pc[p] = "file"
  /\ files' = files \cup {job[p].cat}
  /\ pc' = [pc EXCEPT ![p] = "signature"]
  /\ UNCHANGED <<registry, sigs, lock, release, published, job, left, accepted, consent>>

\* Another signature by the same key occupies the same path.
SignatureClash(p) ==
  \E sig \in Signatures \ {job[p].sig} :
     KeyOf(sig) = KeyOf(job[p].sig) /\ <<job[p].cat, sig>> \in sigs

WriteSignature(p) ==
  /\ pc[p] = "signature"
  /\ IF SignatureClash(p)
     THEN Return(p) /\ lock' = 0 /\ UNCHANGED sigs
     ELSE /\ sigs' = IF job[p].sig = Unsigned THEN sigs ELSE sigs \cup {<<job[p].cat, job[p].sig>>}
          /\ pc' = [pc EXCEPT ![p] = "state"]
          /\ UNCHANGED <<job, lock>>
  /\ UNCHANGED <<registry, files, release, published, left, accepted, consent>>

\* writeState reads the registry again and replaces one slot of it.
WriteState(p) ==
  LET j == job[p]
  IN /\ pc[p] = "state"
     /\ registry' = [registry EXCEPT ![j.repo] = j.next]
     /\ accepted' = [accepted EXCEPT ![j.repo] = @ \cup {j.cat}]
     /\ consent' = [consent EXCEPT ![j.repo] = j.down]
     /\ lock' = 0
     /\ Return(p)
     /\ UNCHANGED <<files, sigs, release, published, left>>

\* ResetState that marks the slot built-in and keeps the revision it had.
ResetStateKeepingRevision(p) ==
  LET r == job[p].repo
  IN /\ pc[p] = "reset"
     /\ lock = 0
     /\ registry' = IF registry[r] = NoState THEN registry
                    ELSE [registry EXCEPT ![r].embedded = TRUE]
     /\ consent' = [consent EXCEPT ![r] = FALSE]
     /\ Return(p)
     /\ UNCHANGED <<files, sigs, lock, release, published, left, accepted>>

\* Reset keeps the mark; a custom slot that was never used is left alone.
ResetState(p) ==
  LET r == job[p].repo
      s == registry[r]
      e == EmbeddedState(job[p].bin)
  IN /\ pc[p] = "reset"
     /\ lock = 0
     /\ IF r = Custom
        THEN registry' = IF s = NoState THEN registry
                         ELSE [registry EXCEPT ![r] = [e EXCEPT !.highest = s.highest, !.key = s.key]]
        ELSE registry' = [registry EXCEPT ![r] = [e EXCEPT !.highest = Max2(s.highest, e.highest)]]
     /\ consent' = [consent EXCEPT ![r] = FALSE]
     /\ Return(p)
     /\ UNCHANGED <<files, sigs, lock, release, published, left, accepted>>

\* Current, the start of every image command: the pointer first, the bytes
\* and the signature it names later, no lock in between.
OpenCatalog(p, r) ==
  /\ Usable(r, release)
  /\ Begin(p, "open", [NoJob EXCEPT !.repo = r, !.next = Pointer(r, release)])

ReadCatalog(p) ==
  /\ pc[p] = "open"
  /\ Return(p)
  /\ UNCHANGED <<disk, lock, release, published, left, accepted, consent>>

\* A command that dies before it holds the lock has changed nothing.
Kill(p) ==
  /\ lock = p
  /\ lock' = 0
  /\ Return(p)
  /\ UNCHANGED <<disk, release, published, left, accepted, consent>>

\* A newer release is installed; commands that run keep their own binary.
Install(b) ==
  /\ b > release
  /\ release' = b
  /\ UNCHANGED <<disk, lock, published, cmd, left, accepted, consent>>
=============================================================================
