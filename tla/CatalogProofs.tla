--------------------------- MODULE CatalogProofs ---------------------------
(***************************************************************************)
(* The safety of the catalog registry for any commands, catalogs, keys and *)
(* releases of farrow.  What makes it safe: a process between the judgement *)
(* of a catalog and the write of its state holds the lock, so that what it *)
(* judged against is still what it replaces (Pending).                     *)
(*                                                                         *)
(* And for any catalogs: what Validate accepts gives every reference one   *)
(* meaning (ValidIsClear), and nothing else is published or active         *)
(* (Vetted).                                                               *)
(***************************************************************************)
EXTENDS CatalogRepo, WellFoundedInduction, FiniteSetTheorems, TLAPS

AnyCatalog == Catalogs \cup {NoCatalog}
State == [highest : Nat, embedded : BOOLEAN, cat : AnyCatalog, key : Keys \cup {NoKey}]
Job == [repo : Repos, cat : AnyCatalog, sig : Signatures \cup {Unsigned}, down : BOOLEAN,
        next : State, bin : Binaries \cup {0}]

TypeOK ==
  /\ registry \in [Repos -> State]
  /\ files \subseteq Catalogs
  /\ sigs \subseteq Catalogs \X Signatures
  /\ lock \in Procs \cup {0}
  /\ release \in Binaries
  /\ published \in AnyCatalog
  /\ pc \in [Procs -> {"idle", "sync", "reset", "open", "file", "signature", "state"}]
  /\ job \in [Procs -> Job]
  /\ left \in Nat
  /\ accepted \in [Repos -> SUBSET Catalogs]
  /\ consent \in [Repos -> BOOLEAN]
  /\ releases \subseteq Catalogs

Holding == {"file", "signature", "state"}

\* What a command was started with.
Begun(p) ==
  /\ pc[p] # "idle" => job[p].bin \in Binaries
  /\ pc[p] \in {"sync"} \cup Holding =>
     /\ job[p].cat \in Catalogs
     /\ job[p].sig = Unsigned => UnsignedAllowed(job[p].repo)

\* What a command that holds the lock is about to write, against the registry
\* it will find then.
Pending(p) ==
  LET j == job[p]
  IN pc[p] \in Holding =>
       /\ lock = p
       /\ ~j.next.embedded /\ j.next.cat = j.cat /\ j.next.key = KeyOf(j.sig)
       /\ j.next.highest >= registry[j.repo].highest
       /\ j.next.highest >= j.cat.rev
       /\ j.cat.rev >= registry[j.repo].highest \/ j.down
       /\ j.repo = Custom => j.next.highest \in {registry[Custom].highest, j.cat.rev}

\* What it has written so far.
Written(p) ==
  /\ pc[p] \in {"signature", "state"} => job[p].cat \in files
  /\ pc[p] = "state" /\ job[p].sig # Unsigned => <<job[p].cat, job[p].sig>> \in sigs

\* The catalog the repository serves is the newest it ever served.
Newest ==
  /\ releases # {} => published \in releases
  /\ published = NoCatalog => releases = {}
  /\ \A c \in releases : c.rev < published.rev \/ c = published

\* What the custom slot holds was activated there.
Remembered ==
  LET s == registry[Custom]
  IN /\ s.highest = 0 \/ \E c \in accepted[Custom] : c.rev = s.highest
     /\ s = NoState \/ s.embedded \/ s.cat \in accepted[Custom]

Inv ==
  /\ TypeOK
  /\ \A p \in Procs : Begun(p) /\ Pending(p) /\ Written(p)
  /\ PointerIsComplete
  /\ Newest
  /\ Remembered

-----------------------------------------------------------------------------
\* Records of the declared kinds are in their sets.
LEMMA Records ==
  /\ NoCatalog \in AnyCatalog /\ NoCatalog.rev = 0
  /\ \A c \in AnyCatalog : c.rev \in Nat
  /\ \A c \in Catalogs : c.rev # 0 /\ c # NoCatalog
  /\ NoState \in State /\ NoJob \in Job
  /\ \A b \in Binaries : EmbeddedState(b) \in State
  /\ \A sig \in Signatures \cup {Unsigned} : KeyOf(sig) \in Keys \cup {NoKey}
  <1>1. NoCatalog \in AnyCatalog /\ NoCatalog.rev = 0
    BY DEF AnyCatalog, NoCatalog
  <1>2. \A c \in AnyCatalog : c.rev \in Nat
    BY CatalogAssumption, <1>1 DEF AnyCatalog
  <1>3. \A c \in Catalogs : c.rev # 0 /\ c # NoCatalog
    BY CatalogAssumption, <1>1
  <1>4. NoState \in State
    BY <1>1 DEF NoState, State
  <1>5. NoJob \in Job
    BY <1>1, <1>4 DEF NoJob, Job, Repos
  <1>6. \A b \in Binaries : EmbeddedState(b) \in State
    BY CatalogAssumption DEF EmbeddedState, State, AnyCatalog
  <1>7. \A sig \in Signatures \cup {Unsigned} : KeyOf(sig) \in Keys \cup {NoKey}
    BY DEF KeyOf, Keys
  <1> QED
    BY <1>1, <1>2, <1>3, <1>4, <1>5, <1>6, <1>7

\* The registry starts empty, with no command.
LEMMA InitInv == RepoInit => Inv
  <1> SUFFICES ASSUME RepoInit PROVE Inv
    OBVIOUS
  <1>1. TypeOK
    BY CatalogAssumption, Records DEF RepoInit, Init, TypeOK
  <1>2. \A p \in Procs : Begun(p) /\ Pending(p) /\ Written(p)
    BY DEF RepoInit, Init, Begun, Pending, Written, Holding
  <1>3. PointerIsComplete
    BY DEF RepoInit, Init, PointerIsComplete
  <1>4. Newest
    BY DEF RepoInit, Init, Newest
  <1>5. Remembered
    BY DEF RepoInit, Init, Remembered, NoState, Repos
  <1> QED
    BY <1>1, <1>2, <1>3, <1>4, <1>5 DEF Inv

\* A step that leaves the disk, what was published and the history alone keeps
\* the global parts of the invariant.
LEMMA Quiet ==
  ASSUME Inv, UNCHANGED <<disk, published, accepted, consent, releases>>
  PROVE  PointerIsComplete' /\ Newest' /\ Remembered'
  <1>1. registry' = registry /\ files' = files /\ sigs' = sigs
    BY DEF disk
  <1>2. PointerIsComplete'
    BY <1>1 DEF Inv, PointerIsComplete, Serves
  <1>3. Newest'
    BY DEF Inv, Newest
  <1>4. Remembered'
    BY <1>1 DEF Inv, Remembered
  <1> QED
    BY <1>2, <1>3, <1>4

\* Nor does a command notice a step of another one that keeps its lock and
\* the slot it is about to replace.
LEMMA Others ==
  ASSUME Inv, NEW q \in Procs,
         job'[q] = job[q], pc'[q] = pc[q],
         pc[q] \in Holding => lock' = lock /\ registry' = registry,
         files \subseteq files', sigs \subseteq sigs'
  PROVE  Begun(q)' /\ Pending(q)' /\ Written(q)'
  <1> USE DEF Inv
  <1>1. Begun(q)'
    BY DEF Begun
  <1>2. Pending(q)'
    BY DEF Pending
  <1>3. Written(q)'
    BY DEF Written, Holding
  <1> QED
    BY <1>1, <1>2, <1>3

-----------------------------------------------------------------------------
\* A command begins: nothing is held, nothing is judged yet.
LEMMA BeginInv ==
  ASSUME Inv, UNCHANGED releases,
         NEW p \in Procs, NEW step \in {"sync", "reset", "open"}, NEW j \in Job, Begin(p, step, j),
         step = "sync" => j.cat \in Catalogs /\ (j.sig = Unsigned => UnsignedAllowed(j.repo))
  PROVE  Inv'
  <1> USE DEF Inv, Begin
  <1>1. job'[p] = [j EXCEPT !.bin = release] /\ pc'[p] = step
    BY DEF TypeOK
  <1>2. TypeOK'
    <2>1. job'[p] \in Job
      BY <1>1 DEF TypeOK, Job
    <2>2. job' \in [Procs -> Job]
      BY <2>1 DEF TypeOK
    <2> QED
      BY <2>2 DEF TypeOK
  <1>3. PointerIsComplete' /\ Newest' /\ Remembered'
    BY Quiet DEF disk
  <1>4. ASSUME NEW q \in Procs PROVE Begun(q)' /\ Pending(q)' /\ Written(q)'
    <2>1. CASE q = p
      <3>1. Begun(p)'
        BY <1>1 DEF Begun, TypeOK, Job, Holding
      <3>2. Pending(p)' /\ Written(p)'
        BY <1>1 DEF Pending, Written, Holding
      <3> QED
        BY <2>1, <3>1, <3>2
    <2>2. CASE q # p
      <3>1. job'[q] = job[q] /\ pc'[q] = pc[q]
        BY <2>2 DEF TypeOK
      <3> QED
        BY <3>1, Others
    <2> QED
      BY <2>1, <2>2
  <1> QED
    BY <1>2, <1>3, <1>4

\* A command ends without an effect, and gives its lock back if it holds it.
LEMMA EndInv ==
  ASSUME Inv, UNCHANGED <<disk, release, published, left, accepted, consent, releases>>,
         NEW p \in Procs, Return(p), lock' = lock \/ (lock = p /\ lock' = 0)
  PROVE  Inv'
  <1> USE DEF Inv, Return
  <1>1. job'[p] = NoJob /\ pc'[p] = "idle"
    BY DEF TypeOK
  <1>2. TypeOK'
    BY Records DEF TypeOK, disk
  <1>3. PointerIsComplete' /\ Newest' /\ Remembered'
    BY Quiet
  <1>4. ASSUME NEW q \in Procs PROVE Begun(q)' /\ Pending(q)' /\ Written(q)'
    <2>1. CASE q = p
      BY <2>1, <1>1 DEF Begun, Pending, Written, Holding
    <2>2. CASE q # p
      <3>1. job'[q] = job[q] /\ pc'[q] = pc[q]
        BY <2>2 DEF TypeOK
      <3>2. pc[q] \in Holding => lock' = lock
        BY <2>2 DEF Pending
      <3> QED
        BY <3>1, <3>2, Others DEF disk
    <2> QED
      BY <2>1, <2>2
  <1> QED
    BY <1>2, <1>3, <1>4

\* While nobody holds the lock, no command is between its judgement and its
\* state.
LEMMA FreeLock ==
  ASSUME Inv, lock = 0, NEW q \in Procs
  PROVE  pc[q] \notin Holding
  BY CatalogAssumption DEF Inv, Pending

\* The judged state has the mark of the registry at least; in the custom slot
\* it is the registry's.
LEMMA KnownMark ==
  ASSUME Inv, NEW r \in Repos, NEW b \in Binaries
  PROVE  /\ Known(r, b) \in State
         /\ Known(r, b).highest >= registry[r].highest
         /\ r = Custom => Known(r, b) = registry[r]
  <1> DEFINE base == IF registry[r] = NoState THEN EmbeddedState(b) ELSE registry[r]
  <1>1. registry[r] \in State /\ EmbeddedState(b) \in State
    BY Records DEF Inv, TypeOK
  <1>2. registry[r] = NoState => registry[r].highest = 0
    BY DEF NoState
  <1>3. base \in State /\ base.highest >= registry[r].highest
    BY <1>1, <1>2 DEF State
  <1>4. EmbeddedState(b).highest = Embedded[b].rev /\ Embedded[b].rev \in Nat
    BY CatalogAssumption DEF EmbeddedState
  <1>5. Advanced(base, b) \in State /\ Advanced(base, b).highest >= base.highest
    BY <1>1, <1>3, <1>4 DEF Advanced, State
  <1>6. CASE r = Custom
    BY <1>1, <1>6 DEF Known, Custom, Default, State
  <1>7. CASE r = Default
    <2>1. Known(r, b) = Advanced(base, b)
      BY <1>7 DEF Known
    <2>2. r # Custom
      BY <1>7 DEF Custom, Default
    <2> HIDE DEF base
    <2> QED
      BY <1>1, <1>3, <1>5, <2>1, <2>2 DEF State
  <1> QED
    BY <1>6, <1>7 DEF Repos

\* The catalog is judged, and the lock taken.
LEMMA AcceptInv ==
  ASSUME Inv, UNCHANGED releases, NEW p \in Procs, SyncAccept(p)
  PROVE  Inv'
  <1> DEFINE j == job[p]
             current == Known(j.repo, j.bin)
             next == [highest |-> Max2(current.highest, j.cat.rev), embedded |-> FALSE,
                      cat |-> j.cat, key |-> KeyOf(j.sig)]
  <1> USE DEF Inv
  <1>1. j \in Job /\ j.bin \in Binaries /\ j.cat \in Catalogs /\ j.repo \in Repos
    BY DEF SyncAccept, TypeOK, Job, Begun
  <1>2. /\ current \in State
        /\ current.highest >= registry[j.repo].highest
        /\ j.repo = Custom => current = registry[j.repo]
    BY <1>1, KnownMark
  <1>3. j.cat.rev \in Nat /\ registry[j.repo].highest \in Nat /\ current.highest \in Nat
    BY <1>1, <1>2, Records DEF TypeOK, State, AnyCatalog
  <1>4. next \in State
    BY <1>1, <1>3, Records DEF State, Max2, AnyCatalog, Job
  <1>5. /\ lock = 0 /\ lock' = p /\ pc' = [pc EXCEPT ![p] = "file"]
        /\ job' = [job EXCEPT ![p].next = next]
        /\ Acceptable(current, j.cat, j.sig, j.down)
        /\ UNCHANGED <<disk, release, published, left, accepted, consent>>
    BY DEF SyncAccept
  <1>6. job'[p] = [j EXCEPT !.next = next] /\ pc'[p] = "file"
    BY <1>5 DEF TypeOK
  <1> HIDE DEF next, current
  <1>7. TypeOK'
    <2>1. job'[p] \in Job
      BY <1>1, <1>4, <1>6 DEF Job
    <2>2. job' \in [Procs -> Job]
      BY <1>5, <2>1 DEF TypeOK
    <2> QED
      BY <1>5, <2>2 DEF TypeOK, disk
  <1>8. PointerIsComplete' /\ Newest' /\ Remembered'
    BY <1>5, Quiet
  <1>9. ASSUME NEW q \in Procs PROVE Begun(q)' /\ Pending(q)' /\ Written(q)'
    <2>1. CASE q = p
      <3>1. Begun(p)'
        BY <1>1, <1>6 DEF Begun, SyncAccept, Holding, Job
      <3>2. Written(p)'
        BY <1>6 DEF Written
      <3>3. /\ next.highest >= current.highest /\ next.highest >= j.cat.rev
            /\ next.highest \in {current.highest, j.cat.rev}
            /\ ~next.embedded /\ next.cat = j.cat /\ next.key = KeyOf(j.sig)
        BY <1>3 DEF next, Max2
      <3>4. j.cat.rev >= current.highest \/ j.down
        BY <1>3, <1>5 DEF Acceptable
      <3>5. next.highest \in Nat
        BY <1>4 DEF State
      <3>6. /\ job'[p].next = next /\ job'[p].cat = j.cat /\ job'[p].sig = j.sig
            /\ job'[p].repo = j.repo /\ job'[p].down = j.down /\ registry' = registry
        BY <1>1, <1>5, <1>6 DEF Job, disk
      <3>7. Pending(p)'
        BY <1>2, <1>3, <1>5, <3>3, <3>4, <3>5, <3>6 DEF Pending
      <3> QED
        BY <2>1, <3>1, <3>2, <3>7
    <2>2. CASE q # p
      <3>1. job'[q] = job[q] /\ pc'[q] = pc[q]
        BY <1>5, <2>2 DEF TypeOK
      <3> QED
        BY <1>5, <3>1, FreeLock, Others DEF disk
    <2> QED
      BY <2>1, <2>2
  <1> QED
    BY <1>7, <1>8, <1>9

-----------------------------------------------------------------------------
\* Only the holder of the lock is between judgement and state.
LEMMA OneHolder ==
  ASSUME Inv, NEW p \in Procs, NEW q \in Procs, pc[p] \in Holding, pc[q] \in Holding
  PROVE  p = q
  BY DEF Inv, Pending

\* The catalog file is written.
LEMMA WriteFileInv ==
  ASSUME Inv, UNCHANGED releases, NEW p \in Procs, WriteFile(p)
  PROVE  Inv'
  <1> USE DEF Inv, WriteFile
  <1>1. job[p].cat \in Catalogs /\ pc'[p] = "signature"
    BY DEF TypeOK, Begun, Holding
  <1>2. TypeOK'
    BY <1>1 DEF TypeOK
  <1>3. PointerIsComplete'
    BY DEF PointerIsComplete, Serves
  <1>4. Newest' /\ Remembered'
    BY DEF Newest, Remembered
  <1>5. ASSUME NEW q \in Procs PROVE Begun(q)' /\ Pending(q)' /\ Written(q)'
    <2>1. CASE q = p
      BY <2>1, <1>1 DEF Begun, Pending, Written, Holding
    <2>2. CASE q # p
      <3>1. job'[q] = job[q] /\ pc'[q] = pc[q]
        BY <2>2 DEF TypeOK
      <3> QED
        BY <3>1, Others
    <2> QED
      BY <2>1, <2>2
  <1> QED
    BY <1>2, <1>3, <1>4, <1>5

\* Its signature is written, or clashes with another one.
LEMMA WriteSignatureInv ==
  ASSUME Inv, UNCHANGED releases, NEW p \in Procs, WriteSignature(p)
  PROVE  Inv'
  <1>1. CASE SignatureClash(p)
    <2>1. lock = p
      BY DEF WriteSignature, Inv, Pending, Holding
    <2>2. Return(p) /\ lock' = 0 /\ UNCHANGED <<disk, release, published, left, accepted, consent>>
      BY <1>1 DEF WriteSignature, disk
    <2> QED
      BY <2>1, <2>2, EndInv
  <1>2. CASE ~SignatureClash(p)
    <2> USE DEF Inv
    <2>1. /\ pc[p] = "signature"
          /\ sigs' = IF job[p].sig = Unsigned THEN sigs ELSE sigs \cup {<<job[p].cat, job[p].sig>>}
          /\ pc' = [pc EXCEPT ![p] = "state"]
          /\ UNCHANGED <<job, lock, registry, files, release, published, left, accepted, consent>>
      BY <1>2 DEF WriteSignature
    <2>2. job[p] \in Job /\ job[p].cat \in Catalogs /\ pc'[p] = "state"
      BY <2>1 DEF TypeOK, Begun, Holding
    <2>3. job[p].sig # Unsigned => job[p].sig \in Signatures
      BY <2>2 DEF Job
    <2>4. TypeOK'
      BY <2>1, <2>2, <2>3 DEF TypeOK
    <2>5. PointerIsComplete'
      BY <2>1 DEF PointerIsComplete, Serves
    <2>6. Newest' /\ Remembered'
      BY <2>1 DEF Newest, Remembered
    <2>7. ASSUME NEW q \in Procs PROVE Begun(q)' /\ Pending(q)' /\ Written(q)'
      <3>1. CASE q = p
        BY <3>1, <2>1, <2>2 DEF Begun, Pending, Written, Holding
      <3>2. CASE q # p
        <4>1. job'[q] = job[q] /\ pc'[q] = pc[q]
          BY <2>1, <3>2 DEF TypeOK
        <4> QED
          BY <2>1, <4>1, Others
      <3> QED
        BY <3>1, <3>2
    <2> QED
      BY <2>4, <2>5, <2>6, <2>7
  <1> QED
    BY <1>1, <1>2

\* The state it is about to write points at files that are there.
LEMMA PendingServes ==
  ASSUME Inv, NEW p \in Procs, pc[p] = "state"
  PROVE  Serves(job[p].repo, job[p].next)
  <1> USE DEF Inv
  <1>1. /\ job[p] \in Job
        /\ job[p].next.cat = job[p].cat /\ job[p].next.key = KeyOf(job[p].sig)
        /\ job[p].cat \in files
    BY DEF TypeOK, Pending, Written, Holding
  <1>2. CASE job[p].sig = Unsigned
    <2>1. UnsignedAllowed(job[p].repo) /\ job[p].next.key = NoKey
      BY <1>1, <1>2 DEF Begun, Holding, KeyOf
    <2> QED
      BY <1>1, <2>1 DEF Serves
  <1>3. CASE job[p].sig # Unsigned
    <2>1. job[p].sig \in Signatures /\ <<job[p].cat, job[p].sig>> \in sigs
      BY <1>1, <1>3 DEF Job, Written
    <2>2. job[p].next.key # NoKey
      BY <1>1, <1>3, <2>1, CatalogAssumption DEF KeyOf
    <2> QED
      BY <1>1, <2>1, <2>2 DEF Serves
  <1> QED
    BY <1>2, <1>3

\* Serves, of given files and signatures.
Backed(r, s, fs, ss) ==
  \/ s.embedded
  \/ /\ s.cat \in fs
     /\ IF s.key = NoKey THEN UnsignedAllowed(r)
                         ELSE \E sig \in Signatures : KeyOf(sig) = s.key /\ <<s.cat, sig>> \in ss

\* The state is written, and the lock given back.
LEMMA WriteStateInv ==
  ASSUME Inv, UNCHANGED releases, NEW p \in Procs, WriteState(p)
  PROVE  Inv'
  <1> DEFINE j == job[p]
  <1> USE DEF Inv
  <1>1. /\ pc[p] = "state" /\ j \in Job /\ j.cat \in Catalogs /\ j.repo \in Repos /\ j.next \in State
        /\ lock = p
    BY DEF WriteState, TypeOK, Begun, Pending, Holding, Job
  <1>2. /\ registry' = [registry EXCEPT ![j.repo] = j.next]
        /\ accepted' = [accepted EXCEPT ![j.repo] = @ \cup {j.cat}]
        /\ consent' = [consent EXCEPT ![j.repo] = j.down]
        /\ lock' = 0 /\ Return(p)
        /\ UNCHANGED <<files, sigs, release, published, left>>
    BY DEF WriteState
  <1>3. registry'[j.repo] = j.next /\ accepted'[j.repo] = accepted[j.repo] \cup {j.cat}
    BY <1>1, <1>2 DEF TypeOK
  <1>4. TypeOK'
    <2>1. j.down \in BOOLEAN
      BY <1>1 DEF Job
    <2> QED
      BY <1>1, <1>2, <2>1, Records DEF TypeOK, Return
  <1>5. PointerIsComplete'
    <2>1. Backed(j.repo, j.next, files', sigs')
      BY <1>1, <1>2, PendingServes DEF Serves, Backed
    <2>2. ASSUME NEW r \in Repos, r # j.repo
          PROVE  registry'[r] = NoState \/ Backed(r, registry'[r], files', sigs')
      <3>1. registry'[r] = registry[r]
        BY <1>2, <2>2 DEF TypeOK
      <3>2. registry[r] = NoState \/ Backed(r, registry[r], files, sigs)
        BY DEF PointerIsComplete, Serves, Backed
      <3>3. files' = files /\ sigs' = sigs
        BY <1>2
      <3> QED
        BY <3>1, <3>2, <3>3
    <2>3. \A r \in Repos : registry'[r] = NoState \/ Backed(r, registry'[r], files', sigs')
      BY <1>3, <2>1, <2>2
    <2> QED
      BY <2>3 DEF PointerIsComplete, Serves, Backed
  <1>6. Newest'
    BY <1>2 DEF Newest
  <1>7. Remembered'
    <2>1. CASE j.repo = Custom
      <3>1. /\ j.next.highest \in {registry[Custom].highest, j.cat.rev}
            /\ j.next.cat = j.cat
        BY <1>1, <2>1 DEF Pending, Holding
      <3>2. j.cat \in accepted'[Custom] /\ accepted[Custom] \subseteq accepted'[Custom]
        BY <1>3, <2>1
      <3> QED
        BY <1>3, <2>1, <3>1, <3>2 DEF Remembered
    <2>2. CASE j.repo # Custom
      BY <1>2, <2>2 DEF Remembered, TypeOK, Repos
    <2> QED
      BY <2>1, <2>2
  <1>8. ASSUME NEW q \in Procs PROVE Begun(q)' /\ Pending(q)' /\ Written(q)'
    <2>1. CASE q = p
      BY <1>2, <2>1 DEF Begun, Pending, Written, Holding, Return, TypeOK
    <2>2. CASE q # p
      <3>1. job'[q] = job[q] /\ pc'[q] = pc[q]
        BY <1>2, <2>2 DEF TypeOK, Return
      <3>2. pc[q] \notin Holding
        BY <1>1, <2>2, OneHolder DEF Holding
      <3> QED
        BY <1>2, <3>1, <3>2, Others
    <2> QED
      BY <2>1, <2>2
  <1> QED
    BY <1>4, <1>5, <1>6, <1>7, <1>8

\* A slot is reset under the lock, when nobody else holds it.
LEMMA ResetInv ==
  ASSUME Inv, UNCHANGED releases, NEW p \in Procs, ResetState(p)
  PROVE  Inv'
  <1> DEFINE r == job[p].repo
             s == registry[r]
             e == EmbeddedState(job[p].bin)
             new == IF r = Custom THEN IF s = NoState THEN s ELSE [e EXCEPT !.highest = s.highest, !.key = s.key]
                                  ELSE [e EXCEPT !.highest = Max2(s.highest, e.highest)]
  <1> USE DEF Inv
  <1>1. job[p] \in Job /\ r \in Repos /\ s \in State /\ job[p].bin \in Binaries
    BY DEF ResetState, TypeOK, Begun, Job
  <1>2. e \in State /\ e.embedded
    BY <1>1, Records DEF EmbeddedState
  <1>3. new \in State /\ (new = NoState \/ new.embedded)
    BY <1>1, <1>2 DEF State, Max2
  <1>4. /\ registry' = [registry EXCEPT ![r] = new]
        /\ lock = 0
        /\ consent' = [consent EXCEPT ![r] = FALSE]
        /\ Return(p)
        /\ UNCHANGED <<files, sigs, lock, release, published, left, accepted>>
    BY <1>1 DEF ResetState, TypeOK
  <1>5. r = Custom => new.highest = s.highest
    BY <1>1, <1>2 DEF State
  <1> HIDE DEF new
  <1>6. registry'[r] = new
    BY <1>1, <1>4 DEF TypeOK
  <1>7. TypeOK'
    BY <1>1, <1>3, <1>4, Records DEF TypeOK, Return
  <1>8. PointerIsComplete'
    <2>1. ASSUME NEW q \in Repos, q # r PROVE registry'[q] = NoState \/ Backed(q, registry'[q], files', sigs')
      <3>1. registry'[q] = registry[q]
        BY <1>4, <2>1 DEF TypeOK
      <3> QED
        BY <1>4, <3>1 DEF PointerIsComplete, Serves, Backed
    <2>2. \A q \in Repos : registry'[q] = NoState \/ Backed(q, registry'[q], files', sigs')
      BY <1>3, <1>6, <2>1 DEF Backed
    <2> QED
      BY <2>2 DEF PointerIsComplete, Serves, Backed
  <1>9. Newest'
    BY <1>4 DEF Newest
  <1>10. Remembered'
    <2>1. CASE r = Custom
      BY <1>3, <1>4, <1>5, <1>6, <2>1 DEF Remembered
    <2>2. CASE r # Custom
      BY <1>4, <2>2 DEF Remembered, TypeOK, Repos
    <2> QED
      BY <2>1, <2>2
  <1>11. ASSUME NEW q \in Procs PROVE Begun(q)' /\ Pending(q)' /\ Written(q)'
    <2>1. CASE q = p
      BY <1>4, <2>1 DEF Begun, Pending, Written, Holding, Return, TypeOK
    <2>2. CASE q # p
      <3>1. job'[q] = job[q] /\ pc'[q] = pc[q]
        BY <1>4, <2>2 DEF TypeOK, Return
      <3> QED
        BY <1>4, <3>1, FreeLock, Others
    <2> QED
      BY <2>1, <2>2
  <1> QED
    BY <1>7, <1>8, <1>9, <1>10, <1>11

\* The author publishes a catalog.
LEMMA BuildInv ==
  ASSUME Inv, NEW c \in Catalogs, Build(c)
  PROVE  Inv'
  <1> USE DEF Inv, Build, disk, cmd
  <1>1. TypeOK'
    BY DEF TypeOK, AnyCatalog
  <1>2. PointerIsComplete'
    BY DEF PointerIsComplete, Serves
  <1>3. Newest'
    <2>1. \A d \in releases : d.rev \in Nat
      BY Records DEF TypeOK, AnyCatalog
    <2>2. published.rev \in Nat /\ c.rev \in Nat /\ c # NoCatalog
      BY Records DEF TypeOK, AnyCatalog
    <2> QED
      BY <2>1, <2>2 DEF Newest, MayReplace
  <1>4. Remembered'
    BY DEF Remembered
  <1>5. ASSUME NEW q \in Procs PROVE Begun(q)' /\ Pending(q)' /\ Written(q)'
    BY Others
  <1> QED
    BY <1>1, <1>2, <1>3, <1>4, <1>5

\* Another release of farrow is installed.
LEMMA InstallInv ==
  ASSUME Inv, UNCHANGED releases, NEW b \in Binaries, Install(b)
  PROVE  Inv'
  <1> USE DEF Inv, Install, disk, cmd
  <1>1. TypeOK'
    BY DEF TypeOK
  <1>2. PointerIsComplete' /\ Newest' /\ Remembered'
    BY Quiet
  <1>3. ASSUME NEW q \in Procs PROVE Begun(q)' /\ Pending(q)' /\ Written(q)'
    BY Others
  <1> QED
    BY <1>1, <1>2, <1>3

-----------------------------------------------------------------------------
\* Every step of a command keeps the invariant.
LEMMA CommandInv ==
  ASSUME Inv, UNCHANGED releases, NEW p \in Procs,
         \/ \E r \in Repos :
              \/ \E c \in Catalogs, sig \in Signatures \cup {Unsigned}, down \in BOOLEAN :
                   Sync(p, r, c, sig, down)
              \/ Reset(p, r)
              \/ OpenCatalog(p, r)
         \/ LockTimeout(p) \/ SyncRefuse(p) \/ SyncAccept(p)
         \/ WriteFile(p) \/ WriteSignature(p) \/ WriteState(p) \/ ResetState(p)
         \/ ReadCatalog(p) \/ Kill(p)
  PROVE  Inv'
  <1>1. ASSUME NEW r \in Repos, NEW c \in Catalogs, NEW sig \in Signatures \cup {Unsigned},
               NEW down \in BOOLEAN, Sync(p, r, c, sig, down)
        PROVE  Inv'
    <2> DEFINE j == [NoJob EXCEPT !.repo = r, !.cat = c, !.sig = sig, !.down = down]
    <2>1. j \in Job /\ j.cat = c /\ j.sig = sig /\ j.repo = r
      BY Records DEF Job, AnyCatalog
    <2>2. sig = Unsigned => UnsignedAllowed(r)
      BY <1>1, CatalogAssumption DEF Sync, Trusted
    <2>3. Begin(p, "sync", j)
      BY <1>1 DEF Sync
    <2> HIDE DEF j
    <2> QED
      BY <2>1, <2>2, <2>3, BeginInv
  <1>2. ASSUME NEW r \in Repos, Reset(p, r) PROVE Inv'
    <2> DEFINE j == [NoJob EXCEPT !.repo = r]
    <2>1. j \in Job
      BY Records DEF Job
    <2>2. Begin(p, "reset", j)
      BY <1>2 DEF Reset
    <2> HIDE DEF j
    <2> QED
      BY <2>1, <2>2, BeginInv
  <1>3. ASSUME NEW r \in Repos, OpenCatalog(p, r) PROVE Inv'
    <2> DEFINE j == [NoJob EXCEPT !.repo = r, !.next = Pointer(r, release)]
    <2>1. Pointer(r, release) \in State
      <3>1. release \in Binaries
        BY DEF Inv, TypeOK
      <3> QED
        BY <3>1, KnownMark, Records DEF Pointer
    <2>2. j \in Job
      BY <2>1, Records DEF Job
    <2>3. Begin(p, "open", j)
      BY <1>3 DEF OpenCatalog
    <2> HIDE DEF j
    <2> QED
      BY <2>2, <2>3, BeginInv
  <1>4. CASE LockTimeout(p)
    BY <1>4, EndInv DEF LockTimeout
  <1>5. CASE SyncRefuse(p)
    BY <1>5, EndInv DEF SyncRefuse
  <1>6. CASE ReadCatalog(p)
    BY <1>6, EndInv DEF ReadCatalog
  <1>7. CASE Kill(p)
    BY <1>7, EndInv DEF Kill
  <1> QED
    BY <1>1, <1>2, <1>3, <1>4, <1>5, <1>6, <1>7, AcceptInv, WriteFileInv, WriteSignatureInv,
       WriteStateInv, ResetInv

\* The inductive invariant: what a command between judgement and state has
\* judged still holds when it writes, and what it writes is there to be read.
THEOREM Invariance == Spec => []Inv
  <1>1. RepoInit => Inv
    BY InitInv
  <1>2. Inv /\ [Next]_<<vars, releases>> => Inv'
    <2> SUFFICES ASSUME Inv, [Next]_<<vars, releases>> PROVE Inv'
      OBVIOUS
    <2>1. CASE \E c \in Catalogs : Build(c)
      BY <2>1, BuildInv
    <2>2. CASE UNCHANGED releases /\ \E b \in Binaries : Install(b)
      BY <2>2, InstallInv
    <2>3. CASE UNCHANGED <<vars, releases>>
      <3> USE <2>3 DEF Inv, vars
      <3>1. TypeOK'
        BY DEF TypeOK
      <3>2. PointerIsComplete' /\ Newest' /\ Remembered'
        BY Quiet DEF disk
      <3>3. ASSUME NEW q \in Procs PROVE Begun(q)' /\ Pending(q)' /\ Written(q)'
        BY Others
      <3> QED
        BY <3>1, <3>2, <3>3
    <2> QED
      BY <2>1, <2>2, <2>3, CommandInv DEF Next
  <1> QED
    BY <1>1, <1>2, PTL DEF Spec

\* Every pointer of the registry leads to a catalog that is there, signed
\* where it has to be, whatever is killed between the three writes.
THEOREM PointerComplete == Spec => []PointerIsComplete
  BY Invariance, PTL DEF Inv

\* A client that only ever took what this repository published can always
\* take what it publishes next.
THEOREM UpdatesAccepted == Spec => []UpdatesGoThrough
  <1>1. Inv => UpdatesGoThrough
    <2> SUFFICES ASSUME Inv, published # NoCatalog, accepted[Custom] \subseteq releases,
                        ~registry[Custom].embedded, registry[Custom].key = NoKey
                 PROVE  Acceptable(registry[Custom], published, Unsigned, FALSE)
      BY DEF UpdatesGoThrough
    <2> DEFINE s == registry[Custom]
    <2>1. s \in State /\ published \in Catalogs /\ releases \subseteq Catalogs
      BY DEF Inv, TypeOK, Repos, AnyCatalog
    <2>2. published.rev \in Nat /\ published.rev # 0 /\ s.highest \in Nat /\ s.cat.rev \in Nat
      BY <2>1, Records DEF State, AnyCatalog
    <2>3. \A c \in releases : c.rev \in Nat /\ (c.rev < published.rev \/ c = published)
      BY <2>1, Records DEF Inv, Newest, AnyCatalog
    <2>4. published.rev >= s.highest
      BY <2>2, <2>3 DEF Inv, Remembered
    <2>5. published.rev = s.cat.rev => published = s.cat
      <3>1. CASE s = NoState
        BY <2>2, <3>1, Records DEF NoState
      <3>2. CASE s # NoState
        BY <2>2, <2>3, <3>2 DEF Inv, Remembered
      <3> QED
        BY <3>1, <3>2
    <2> QED
      BY <2>2, <2>4, <2>5 DEF Acceptable
  <1> QED
    BY <1>1, Invariance, PTL

-----------------------------------------------------------------------------
\* A pending state and a reset are steps of the contract; no other step
\* touches what the contract is about.
LEMMA WriteRefines ==
  ASSUME Inv, NEW p \in Procs, WriteState(p)
  PROVE  Contract!Next
  <1> USE DEF Inv
  <1>1. PICK r \in Repos : r = job[p].repo
    BY DEF TypeOK, Job
  <1>2. PICK c \in Catalogs : c = job[p].cat
    BY DEF WriteState, Begun, Holding
  <1>3. PICK next \in State : next = job[p].next
    BY DEF TypeOK, Job
  <1>4. /\ ~next.embedded /\ next.cat = c
        /\ next.highest >= registry[r].highest
        /\ next.highest >= c.rev
        /\ c.rev >= registry[r].highest \/ job[p].down
    BY <1>1, <1>2, <1>3 DEF WriteState, Pending, Holding
  <1>5. registry' = [registry EXCEPT ![r] = next] /\ consent' = [consent EXCEPT ![r] = job[p].down]
    BY <1>1, <1>3 DEF WriteState
  <1>6. registry'[r] = next /\ consent'[r] = job[p].down
    BY <1>5 DEF TypeOK
  <1>7. c.rev \in Nat /\ c.rev > 0
    BY CatalogAssumption
  <1>8. \A q \in Repos \ {r} : registry'[q] = registry[q] /\ consent'[q] = consent[q]
    BY <1>5 DEF TypeOK
  <1>9. Contract!Others(r)
    BY <1>8 DEF Contract!Others
  <1>10. Contract!Accept(r)
    BY <1>4, <1>6, <1>7, <1>9 DEF Contract!Accept
  <1> QED
    BY <1>10 DEF Contract!Next

\* The new state of a slot that is reset: built-in, its mark no lower.
LEMMA ResetValue ==
  ASSUME Inv, NEW p \in Procs, ResetState(p), NEW r \in Repos, r = job[p].repo
  PROVE  /\ registry'[r] \in State
         /\ registry'[r].highest >= registry[r].highest
         /\ registry'[r] = NoState \/ registry'[r].embedded
         /\ r = Default => registry'[r].embedded /\ registry'[r].cat = Embedded[job[p].bin]
  <1> DEFINE s == registry[r]
             e == EmbeddedState(job[p].bin)
             new == IF r = Custom THEN IF s = NoState THEN s ELSE [e EXCEPT !.highest = s.highest, !.key = s.key]
                                  ELSE [e EXCEPT !.highest = Max2(s.highest, e.highest)]
  <1>1. s \in State /\ job[p].bin \in Binaries
    BY DEF Inv, ResetState, TypeOK, Begun
  <1>2. e \in State /\ e.embedded /\ e.cat = Embedded[job[p].bin]
    BY <1>1, Records DEF EmbeddedState
  <1>3. registry'[r] = new
    BY DEF Inv, ResetState, TypeOK
  <1>4. r = Default => r # Custom
    BY DEF Default, Custom
  <1>5. s = registry[r]
    OBVIOUS
  <1> HIDE DEF s, e
  <1>6. new \in State /\ new.highest >= s.highest /\ (new = NoState \/ new.embedded)
    <2>1. s.highest \in Nat /\ e.highest \in Nat /\ s.key \in Keys \cup {NoKey}
      BY <1>1, <1>2 DEF State
    <2>2. [e EXCEPT !.highest = s.highest, !.key = s.key] \in State
      BY <1>2, <2>1 DEF State
    <2>3. Max2(s.highest, e.highest) \in Nat /\ Max2(s.highest, e.highest) >= s.highest
      BY <2>1 DEF Max2
    <2>4. [e EXCEPT !.highest = Max2(s.highest, e.highest)] \in State
      BY <1>2, <2>3 DEF State
    <2> QED
      BY <1>1, <1>2, <2>1, <2>2, <2>3, <2>4 DEF State
  <1>7. r = Default => new.embedded /\ new.cat = Embedded[job[p].bin]
    BY <1>1, <1>2, <1>4 DEF State
  <1> HIDE DEF new
  <1> QED
    BY <1>3, <1>5, <1>6, <1>7

LEMMA ResetRefines ==
  ASSUME Inv, NEW p \in Procs, ResetState(p)
  PROVE  Contract!Next
  <1> USE DEF Inv
  <1>1. PICK r \in Repos : r = job[p].repo
    BY DEF TypeOK, Job
  <1>2. NoState.highest = 0 /\ ~NoState.embedded /\ NoState.cat.rev = 0
    BY Records DEF NoState
  <1>3. /\ registry'[r].highest >= registry[r].highest
        /\ registry'[r].embedded \/ registry'[r].cat.rev = 0
    BY <1>1, <1>2, ResetValue
  <1>4. consent' = [consent EXCEPT ![r] = FALSE]
    BY <1>1 DEF ResetState
  <1>5. ~consent'[r]
    BY <1>4 DEF TypeOK
  <1>6. \A q \in Repos \ {r} : registry'[q] = registry[q] /\ consent'[q] = consent[q]
    BY <1>1, <1>4 DEF ResetState, TypeOK
  <1>7. Contract!Others(r)
    BY <1>6 DEF Contract!Others
  <1>8. Contract!Restore(r)
    BY <1>3, <1>5, <1>7 DEF Contract!Restore
  <1> QED
    BY <1>8 DEF Contract!Next

\* The registry implements CatalogContract: the mark of a slot never falls,
\* and a catalog below it becomes active with consent only, although the
\* catalog was read, verified and judged by commands of any releases at once.
THEOREM Refinement == Spec => ImplementsContract
  <1>1. RepoInit => Contract!Init
    BY Records DEF RepoInit, Init, Contract!Init, NoState
  <1>2. Inv /\ [Next]_<<vars, releases>> => [Contract!Next]_(Contract!cvars)
    <2> SUFFICES ASSUME Inv, [Next]_<<vars, releases>>
                 PROVE  Contract!Next \/ UNCHANGED Contract!cvars
      OBVIOUS
    <2>1. ASSUME UNCHANGED <<registry, consent>> PROVE UNCHANGED Contract!cvars
      BY <2>1 DEF Contract!cvars
    <2>2. CASE \E p \in Procs : WriteState(p)
      BY <2>2, WriteRefines
    <2>3. CASE \E p \in Procs : ResetState(p)
      BY <2>3, ResetRefines
    <2>4. CASE ~(\E p \in Procs : WriteState(p) \/ ResetState(p))
      <3>1. UNCHANGED <<registry, consent>>
        BY <2>4, ZenonT(30) DEF Next, Build, Install, Sync, Reset, OpenCatalog, Begin, LockTimeout, SyncRefuse,
           SyncAccept, WriteFile, WriteSignature, ReadCatalog, Kill, disk, vars
      <3> QED
        BY <2>1, <3>1
    <2> QED
      BY <2>2, <2>3, <2>4
  <1> QED
    BY <1>1, <1>2, Invariance, PTL DEF Spec, ImplementsContract, Contract!Spec

-----------------------------------------------------------------------------
\* After a reset, a command of the same release can use the repository.
THEOREM ResetIsWayOut == Spec => ResetRecovers
  <1>1. ASSUME Inv, NEW p \in Procs, NEW r \in Repos, NEW b \in Binaries,
               ResetState(p), job[p].repo = r, job[p].bin = b
        PROVE  CurrentWorks(r, b)'
    <2>1. /\ registry'[r] = NoState \/ registry'[r].embedded
          /\ r = Default => registry'[r].embedded /\ registry'[r].cat = Embedded[b]
      BY <1>1, ResetValue
    <2>2. EmbeddedState(b).embedded
      BY DEF EmbeddedState
    <2>3. CASE r = Custom
      <3>1. r # Default
        BY <2>3 DEF Custom, Default
      <3> QED
        BY <2>1, <2>2, <3>1 DEF CurrentWorks, Usable, Serves, Pointer, Known
    <2>4. CASE r = Default
      BY <2>1, <2>2, <2>4 DEF CurrentWorks, Usable, Serves, Pointer, Known, Advanced, BaselineAgrees
    <2> QED
      BY <2>3, <2>4 DEF Repos
  <1>2. Inv /\ [Next]_<<vars, releases>> =>
          [\A p \in Procs, r \in Repos, b \in Binaries :
             ResetState(p) /\ job[p].repo = r /\ job[p].bin = b => CurrentWorks(r, b)']_<<vars, releases>>
    BY <1>1
  <1> QED
    BY <1>2, Invariance, PTL DEF Spec, ResetRecovers

-----------------------------------------------------------------------------
(* Which release a selector means.                                         *)

\* The version keys of a catalog.
Key == Seq(DOMAIN Number) \ {<<>>}

\* A set of numbers has a least one.
LEMMA Least ==
    ASSUME NEW T \in SUBSET Nat, T # {}
    PROVE  \E x \in T : \A y \in T : x <= y
  <1> DEFINE R == OpToRel(<, Nat)
  <1>1. IsWellFoundedOn(R, Nat)
    BY NatLessThanWellFounded
  <1> HIDE DEF R
  <1>2. PICK x \in T : \A y \in T : ~(<<y, x>> \in R)
    BY <1>1, WFMin, Zenon
  <1>3. \A y \in T : ~(y < x)
    BY <1>2 DEF R, OpToRel
  <1> QED
    BY <1>3

\* Every component of a numeric key is a number, 0 beyond the end.
LEMMA ComponentValue ==
    ASSUME NEW v \in Key, Numeric(v), NEW i
    PROVE  Component(v, i) \in Nat /\ (i \notin DOMAIN v => Component(v, i) = 0)
  <1>1. ASSUME i \in DOMAIN v PROVE Number[v[i]] \in Nat
    <2>1. v[i] \in DOMAIN Number
      BY <1>1 DEF Key
    <2> QED
      BY <1>1, <2>1, DraftsAssumption DEF Numeric
  <1> QED
    BY <1>1 DEF Component

\* Keys without a newer and an older one among them rank alike, which Validate
\* finds out by dropping the zeros at the end.
LEMMA SameCanonicalKey ==
    ASSUME NEW v \in Key, NEW w \in Key, Numeric(v), Numeric(w),
           \A i \in Nat \ {0} : Component(v, i) = Component(w, i)
    PROVE  CanonicalKey(v) = CanonicalKey(w)
  <1> DEFINE kept(x) == {i \in DOMAIN x : i = 1 \/ \E j \in DOMAIN x : j >= i /\ Number[x[j]] # 0}
  <1>1. \A x \in Key : DOMAIN x = 1 .. Len(x) /\ Len(x) \in Nat \ {0}
    BY DEF Key
  <1>2. ASSUME NEW x \in Key, NEW y \in Key, Numeric(x), Numeric(y), NEW i \in kept(x),
               \A k \in Nat \ {0} : Component(x, k) = Component(y, k)
        PROVE  i \in kept(y)
    <2>1. CASE i = 1
      BY <1>1, <2>1
    <2>2. CASE i # 1
      <3>1. PICK j \in DOMAIN x : j >= i /\ Number[x[j]] # 0
        BY <2>2
      <3>2. i \in Nat \ {0} /\ j \in Nat \ {0} /\ i \in DOMAIN x
        BY <1>1
      <3>3. Component(y, j) # 0
        BY <1>2, <3>1, <3>2 DEF Component
      <3>4. j \in DOMAIN y /\ Number[y[j]] # 0
        BY <3>3 DEF Component
      <3>5. i \in DOMAIN y
        BY <1>1, <3>1, <3>2, <3>4
      <3> QED
        BY <3>1, <3>4, <3>5
    <2> QED
      BY <2>1, <2>2
  <1>3. kept(v) = kept(w)
    BY <1>2
  <1>4. \A i \in kept(v) : Number[v[i]] = Number[w[i]]
    <2> SUFFICES ASSUME NEW i \in kept(v) PROVE Number[v[i]] = Number[w[i]]
      OBVIOUS
    <2>1. i \in Nat \ {0} /\ i \in DOMAIN v /\ i \in DOMAIN w
      BY <1>1, <1>3
    <2> QED
      BY <2>1 DEF Component
  <1> HIDE DEF kept
  <1>5. [i \in kept(v) |-> Number[v[i]]] = [i \in kept(w) |-> Number[w[i]]]
    BY <1>3, <1>4
  <1> QED
    BY <1>5 DEF CanonicalKey, kept

\* compareNumericVersions orders the keys that do not rank alike.
LEMMA NewerTotal ==
    ASSUME NEW v \in Key, NEW w \in Key, Numeric(v), Numeric(w), CanonicalKey(v) # CanonicalKey(w)
    PROVE  Newer(v, w) \/ Newer(w, v)
  <1> DEFINE T == {i \in Nat \ {0} : Component(v, i) # Component(w, i)}
  <1>1. T \in SUBSET Nat /\ T # {}
    BY SameCanonicalKey
  <1>2. PICK i \in T : \A j \in T : i <= j
    BY <1>1, Least
  <1>3. \A j \in 1 .. i - 1 : Component(v, j) = Component(w, j)
    BY <1>2
  <1>4. i \in DOMAIN v \cup DOMAIN w
    BY <1>2, ComponentValue
  <1>5. Component(v, i) \in Nat /\ Component(w, i) \in Nat
    BY ComponentValue
  <1>6. Component(v, i) > Component(w, i) \/ Component(w, i) > Component(v, i)
    BY <1>2, <1>5
  <1> QED
    BY <1>3, <1>4, <1>6 DEF Newer

LEMMA NewerOnce ==
    ASSUME NEW v \in Key, NEW w \in Key, Numeric(v), Numeric(w), Newer(v, w)
    PROVE  ~Newer(w, v)
  <1>1. PICK i \in DOMAIN v \cup DOMAIN w :
          Component(v, i) > Component(w, i) /\ \A j \in 1 .. i - 1 : Component(v, j) = Component(w, j)
    BY DEF Newer
  <1> SUFFICES ASSUME NEW k \in DOMAIN w \cup DOMAIN v, Component(w, k) > Component(v, k),
                      \A j \in 1 .. k - 1 : Component(w, j) = Component(v, j)
               PROVE  FALSE
    BY DEF Newer
  <1>2. i \in Nat \ {0} /\ k \in Nat \ {0}
    BY DEF Key
  <1>3. \A n : Component(v, n) \in Nat /\ Component(w, n) \in Nat
    BY ComponentValue
  <1>4. i = k \/ i \in 1 .. k - 1 \/ k \in 1 .. i - 1
    BY <1>2
  <1> QED
    BY <1>1, <1>3, <1>4

LEMMA NewerTransitive ==
    ASSUME NEW u \in Key, NEW v \in Key, NEW w \in Key, Numeric(u), Numeric(v), Numeric(w),
           Newer(u, v), Newer(v, w)
    PROVE  Newer(u, w)
  <1>1. PICK i \in DOMAIN u \cup DOMAIN v :
          Component(u, i) > Component(v, i) /\ \A j \in 1 .. i - 1 : Component(u, j) = Component(v, j)
    BY DEF Newer
  <1>2. PICK k \in DOMAIN v \cup DOMAIN w :
          Component(v, k) > Component(w, k) /\ \A j \in 1 .. k - 1 : Component(v, j) = Component(w, j)
    BY DEF Newer
  <1>3. i \in Nat \ {0} /\ k \in Nat \ {0}
    BY DEF Key
  <1>4. \A n : Component(u, n) \in Nat /\ Component(v, n) \in Nat /\ Component(w, n) \in Nat
    BY ComponentValue
  <1> DEFINE m == IF i < k THEN i ELSE k
  <1>5. m \in Nat \ {0} /\ m <= i /\ m <= k /\ (m = i \/ m = k)
    BY <1>3
  <1> HIDE DEF m
  <1>6. \A j \in 1 .. m - 1 : Component(u, j) = Component(w, j)
    BY <1>1, <1>2, <1>3, <1>5
  <1>7. Component(u, m) > Component(w, m)
    <2>1. CASE i < k
      BY <1>1, <1>2, <1>3, <1>4, <2>1 DEF m
    <2>2. CASE i = k
      BY <1>1, <1>2, <1>3, <1>4, <2>2 DEF m
    <2>3. CASE k < i
      BY <1>1, <1>2, <1>3, <1>4, <2>3 DEF m
    <2> QED
      BY <1>3, <2>1, <2>2, <2>3
  <1>8. m \in DOMAIN u \cup DOMAIN w
    BY <1>4, <1>7, ComponentValue
  <1> QED
    BY <1>6, <1>7, <1>8 DEF Newer

LEMMA Positional ==
    ASSUME NEW a \in Nat, NEW b \in Nat, NEW c \in Nat, NEW x \in Nat, NEW y \in Nat, NEW z \in Nat,
           b < 100, c < 100, y < 100, z < 100,
           a > x \/ (a = x /\ b > y) \/ (a = x /\ b = y /\ c > z)
    PROVE  10000 * a + 100 * b + c > 10000 * x + 100 * y + z
  OBVIOUS

\* Rank, where it is defined, is the same order.
LEMMA NewerRanksHigher ==
    ASSUME NEW v \in Key, NEW w \in Key, Numeric(v), Numeric(w), Short(v), Short(w), Newer(v, w)
    PROVE  Rank(v) > Rank(w)
  <1>1. PICK i \in DOMAIN v \cup DOMAIN w :
          Component(v, i) > Component(w, i) /\ \A j \in 1 .. i - 1 : Component(v, j) = Component(w, j)
    BY DEF Newer
  <1>2. \A x \in Key : DOMAIN x = 1 .. Len(x) /\ Len(x) \in Nat
    BY DEF Key
  <1>3. i \in {1, 2, 3}
    BY <1>2 DEF Short
  <1>4. ASSUME NEW x \in Key, Numeric(x), Short(x), NEW n PROVE Component(x, n) \in Nat /\ Component(x, n) < 100
    <2>1. Component(x, n) \in Nat
      BY <1>4, ComponentValue
    <2>2. n \in DOMAIN x => Number[x[n]] < 100
      BY <1>4 DEF Short
    <2> QED
      BY <2>1, <2>2 DEF Component
  <1>5. \/ Component(v, 1) > Component(w, 1)
        \/ Component(v, 1) = Component(w, 1) /\ Component(v, 2) > Component(w, 2)
        \/ Component(v, 1) = Component(w, 1) /\ Component(v, 2) = Component(w, 2) /\ Component(v, 3) > Component(w, 3)
    BY <1>1, <1>3
  <1> QED
    BY <1>4, <1>5, Positional DEF Rank

\* Of finitely many numeric keys that rank apart one is the newest.
LEMMA NewestExists ==
    ASSUME NEW S, IsFiniteSet(S), S # {}, S \subseteq Key, \A v \in S : Numeric(v),
           \A v, w \in S : v # w => CanonicalKey(v) # CanonicalKey(w)
    PROVE  \E v \in S : \A w \in S \ {v} : Newer(v, w)
  <1> DEFINE older(v) == {w \in S : Newer(v, w)}
             age(v) == Cardinality(S) - Cardinality(older(v))
             T == {age(v) : v \in S}
  <1>1. \A v \in S : IsFiniteSet(older(v)) /\ Cardinality(older(v)) \in Nat /\ age(v) \in Nat
    <2> SUFFICES ASSUME NEW v \in S
                 PROVE  IsFiniteSet(older(v)) /\ Cardinality(older(v)) \in Nat /\ age(v) \in Nat
      OBVIOUS
    <2>1. older(v) \in SUBSET S /\ Cardinality(S) \in Nat
      BY FS_CardinalityType
    <2> HIDE DEF older
    <2>2. IsFiniteSet(older(v)) /\ Cardinality(older(v)) <= Cardinality(S)
      BY <2>1, FS_Subset
    <2>3. Cardinality(older(v)) \in Nat
      BY <2>2, FS_CardinalityType
    <2> QED
      BY <2>1, <2>2, <2>3
  <1>2. T # {} /\ T \in SUBSET Nat
    <2> HIDE DEF age
    <2> QED
      BY <1>1
  <1>3. PICK n \in T : \A k \in T : n <= k
    <2> HIDE DEF T
    <2> QED
      BY <1>2, Least
  <1>4. PICK v \in S : n = age(v)
    OBVIOUS
  <1> SUFFICES ASSUME NEW w \in S, w # v, ~Newer(v, w) PROVE FALSE
    OBVIOUS
  <1>5. Newer(w, v)
    BY NewerTotal
  <1>6. v \notin older(v)
    BY NewerOnce
  <1>7. older(v) \cup {v} \in SUBSET older(w)
    BY <1>5, NewerTransitive
  <1>8. age(v) <= age(w)
    <2>1. age(w) \in T
      OBVIOUS
    <2> HIDE DEF age, T
    <2> QED
      BY <1>3, <1>4, <2>1
  <1> HIDE DEF older
  <1>9. Cardinality(older(v) \cup {v}) = Cardinality(older(v)) + 1
    BY <1>1, <1>6, FS_AddElement
  <1>10. Cardinality(older(v) \cup {v}) <= Cardinality(older(w))
    BY <1>1, <1>7, FS_Subset
  <1>11. Cardinality(S) \in Nat /\ Cardinality(older(v)) \in Nat /\ Cardinality(older(w)) \in Nat
    BY <1>1, FS_CardinalityType
  <1> QED
    BY <1>8, <1>9, <1>10, <1>11

\* resolveVersion gives one release at most.
LEMMA ResolvedOnce ==
    ASSUME NEW versions, IsFiniteSet(versions), NEW selector
    PROVE  \E v : Resolved(versions, selector) \subseteq {v}
  <1> DEFINE matching == Matching(versions, selector)
             best == {v \in matching : \A w \in matching : ~Newer(w, v)}
  <1>1. best \in SUBSET versions
    BY DEF Matching
  <1>2. Resolved(versions, selector) \in {{selector}, {}, best}
        /\ (Resolved(versions, selector) = best => Cardinality(best) = 1 \/ best \subseteq {selector})
    BY DEF Resolved
  <1> HIDE DEF best
  <1>3. Cardinality(best) = 1 => \E v : best = {v}
    BY <1>1, FS_Subset, FS_Singleton
  <1> QED
    BY <1>2, <1>3

\* canonicalImage finds one image at most: Validate keeps aliases apart.
LEMMA NamedOnce ==
    ASSUME NEW c, IsCatalog(c), Valid(c), NEW word
    PROVE  \E n : Named(c, word) \subseteq {n}
  <1>1. ASSUME NEW m \in Named(c, word), NEW n \in Named(c, word), word \notin DOMAIN c.images, m # n
        PROVE  FALSE
    <2>1. m \in DOMAIN c.images /\ n \in DOMAIN c.images
      BY <1>1 DEF Named
    <2>2. PICK a \in c.images[m].aliases : a.written = word
      BY <1>1 DEF Named
    <2>3. PICK b \in c.images[n].aliases : b.written = word
      BY <1>1 DEF Named
    <2>4. a.lower = b.lower
      BY <2>1, <2>2, <2>3 DEF IsCatalog
    <2>5. a.lower \in LoweredAliases(c.images[m]) /\ a.lower \in LoweredAliases(c.images[n])
      BY <2>4 DEF LoweredAliases
    <2>6. LoweredAliases(c.images[m]) \cap LoweredAliases(c.images[n]) = {}
      BY <1>1, <2>1 DEF Valid, ValidImage
    <2> QED
      BY <2>5, <2>6
  <1>2. word \in DOMAIN c.images => Named(c, word) = {word}
    BY DEF Named
  <1> QED
    BY <1>1, <1>2

\* Every reference means one artifact at most, and one that Entries lists.
LEMMA MeaningIsOne == ASSUME NEW c, IsCatalog(c), Valid(c) PROVE OneMeaning(c)
  <1> SUFFICES ASSUME NEW ref \in References(c), NEW arch \in Arches
               PROVE  Cardinality(EntriesFor(c, ref, arch)) <= 1 /\ EntriesFor(c, ref, arch) \subseteq Entries(c)
    BY DEF OneMeaning
  <1> DEFINE word == IF ref.image = Unset THEN c.image ELSE ref.image
             E == EntriesFor(c, ref, arch)
  <1>1. ASSUME NEW e \in E
        PROVE  \E n \in Named(c, word) : \E k \in Release(c, n, ref) :
                 /\ k \in DOMAIN c.images[n].versions /\ arch \in DOMAIN c.images[n].versions[k]
                 /\ e = EntryOf(c, n, k, arch)
    BY <1>1 DEF EntriesFor
  <1>2. Named(c, word) \subseteq DOMAIN c.images
    BY DEF Named
  <1>3. PICK n : Named(c, word) \subseteq {n}
    BY NamedOnce
  <1>4. ASSUME n \in DOMAIN c.images PROVE \E k : Release(c, n, ref) \subseteq {k}
    <2>1. IsFiniteSet(DOMAIN c.images[n].versions)
      BY <1>4 DEF IsCatalog
    <2> QED
      BY <2>1, ResolvedOnce DEF Release
  <1>5. \E e : E \subseteq {e}
    <2>1. CASE n \in Named(c, word)
      <3>1. PICK k : Release(c, n, ref) \subseteq {k}
        BY <1>2, <1>4, <2>1
      <3>2. E \subseteq {EntryOf(c, n, k, arch)}
        <4> SUFFICES ASSUME NEW e \in E PROVE e = EntryOf(c, n, k, arch)
          OBVIOUS
        <4> HIDE DEF E, word
        <4> QED
          BY <1>1, <1>3, <3>1
      <3> QED
        BY <3>2
    <2>2. CASE n \notin Named(c, word)
      <3>1. E = {}
        <4> HIDE DEF E, word
        <4> QED
          BY <1>1, <1>3, <2>2
      <3> QED
        BY <3>1
    <2> QED
      BY <2>1, <2>2
  <1>6. Cardinality(E) <= 1
    <2> HIDE DEF E
    <2>1. E = {} \/ \E e : E = {e}
      BY <1>5
    <2>2. E = {} => Cardinality(E) = 0
      BY FS_EmptySet
    <2>3. (\E e : E = {e}) => Cardinality(E) = 1
      BY FS_Singleton, Zenon
    <2>4. Cardinality(E) = 0 \/ Cardinality(E) = 1
      BY <2>1, <2>2, <2>3, Zenon
    <2> QED
      BY <2>4
  <1>7. ASSUME NEW e \in E PROVE e \in Entries(c)
    <2>0. PICK m \in Named(c, word) : \E k \in Release(c, m, ref) :
                 /\ k \in DOMAIN c.images[m].versions /\ arch \in DOMAIN c.images[m].versions[k]
                 /\ e = EntryOf(c, m, k, arch)
      BY <1>1, <1>7
    <2>1. PICK k \in Release(c, m, ref) :
                 /\ k \in DOMAIN c.images[m].versions /\ arch \in DOMAIN c.images[m].versions[k]
                 /\ e = EntryOf(c, m, k, arch)
      BY <2>0
    <2> DEFINE exact == [image |-> m, channel |-> Unset, version |-> k]
    <2>2. m \in DOMAIN c.images
      BY <1>2
    <2>3. k # <<>>
      BY <2>1, <2>2 DEF IsCatalog
    <2>4. exact.image = m /\ exact.version = k
      OBVIOUS
    <2>5. m # Unset
      BY <2>2 DEF IsCatalog
    <2>6. m \in Named(c, IF exact.image = Unset THEN c.image ELSE exact.image)
      BY <2>2, <2>4, <2>5 DEF Named
    <2>7. Release(c, m, exact) = {k}
      BY <2>1, <2>3, <2>4 DEF Release, Resolved
    <2>8. e \in EntriesFor(c, exact, arch)
      BY <2>1, <2>6, <2>7 DEF EntriesFor
    <2> QED
      BY <2>1, <2>2, <2>8 DEF Entries
  <1> QED
    BY <1>6, <1>7

\* Of the releases below a selector that can be ranked the newest is taken.
LEMMA NewestIsSelected == ASSUME NEW c, IsCatalog(c), Valid(c) PROVE NewestSelected(c)
  <1> SUFFICES ASSUME NEW name \in DOMAIN c.images, NEW selector \in Selectors \ DOMAIN c.images[name].versions,
                      Matching(DOMAIN c.images[name].versions, selector) # {},
                      \A v \in Matching(DOMAIN c.images[name].versions, selector) \cup {selector} : Numeric(v)
               PROVE  \E v \in Matching(DOMAIN c.images[name].versions, selector) :
                        /\ Resolved(DOMAIN c.images[name].versions, selector) = {v}
                        /\ \A w \in Matching(DOMAIN c.images[name].versions, selector) \ {v} :
                             Newer(v, w) /\ (Short(v) /\ Short(w) => Rank(v) > Rank(w))
    BY DEF NewestSelected
  <1> DEFINE versions == DOMAIN c.images[name].versions
             matching == Matching(versions, selector)
  <1>1. IsFiniteSet(versions) /\ versions \subseteq Key
    BY DEF IsCatalog, Key
  <1>2. matching \in SUBSET versions
    BY DEF Matching
  <1>3. ASSUME NEW v \in matching, NEW w \in matching, v # w PROVE CanonicalKey(v) # CanonicalKey(w)
    BY <1>2, <1>3 DEF Valid, ValidImage, RankedApart
  <1>4. matching # {} /\ selector \notin versions /\ Numeric(selector) /\ \A v \in matching : Numeric(v)
    OBVIOUS
  <1>5. SUFFICES \E v \in matching : /\ Resolved(versions, selector) = {v}
                                     /\ \A w \in matching \ {v} : Newer(v, w) /\ (Short(v) /\ Short(w) => Rank(v) > Rank(w))
    OBVIOUS
  <1>6. Resolved(versions, selector)
          = LET best == {v \in matching : \A w \in matching : ~Newer(w, v)}
            IN IF Cardinality(best) # 1 THEN {} ELSE best
    BY <1>4 DEF Resolved
  <1> HIDE DEF matching, versions
  <1>7. IsFiniteSet(matching) /\ matching \subseteq Key
    BY <1>1, <1>2, FS_Subset
  <1>8. PICK v \in matching : \A w \in matching \ {v} : Newer(v, w)
    BY <1>3, <1>4, <1>7, NewestExists
  <1>9. v \in Key /\ Numeric(v)
    BY <1>4, <1>7
  <1> DEFINE best == {x \in matching : \A w \in matching : ~Newer(w, x)}
  <1>10. ASSUME NEW w \in matching \ {v} PROVE ~Newer(w, v)
    BY <1>4, <1>7, <1>8, <1>9, NewerOnce
  <1>11. ~Newer(v, v)
    BY <1>9, NewerOnce
  <1>12. best = {v}
    BY <1>8, <1>10, <1>11
  <1>13. Resolved(versions, selector) = {v}
    <2>1. Cardinality(best) = 1
      BY <1>12, FS_Singleton
    <2> QED
      BY <1>6, <1>12, <2>1
  <1>14. ASSUME NEW w \in matching \ {v}, Short(v), Short(w) PROVE Rank(v) > Rank(w)
    BY <1>4, <1>7, <1>8, <1>9, <1>14, NewerRanksHigher
  <1> QED
    BY <1>8, <1>13, <1>14

\* What Validate accepts leaves no reference open.
LEMMA ValidIsClear == ASSUME NEW c \in Drafts, Valid(c) PROVE Clear(c)
  BY DraftsAssumption, MeaningIsOne, NewestIsSelected DEF Clear

\* Every catalog that is published, active or on its way to be active has been
\* validated.
Vetted ==
  /\ published = NoCatalog \/ published.text \in Accepted
  /\ \A r \in Repos : registry[r] = NoState \/ registry[r].cat.text \in Accepted
  /\ \A p \in Procs : pc[p] \in {"sync"} \cup Holding => job[p].cat.text \in Accepted

LEMMA NextVetted == ASSUME Inv, Vetted, [Next]_<<vars, releases>> PROVE Vetted'
  <1>1. DOMAIN pc = Procs /\ DOMAIN job = Procs /\ DOMAIN registry = Repos /\ job \in [Procs -> Job]
    BY DEF Inv, TypeOK
  <1>2. ASSUME NEW p \in Procs, NEW step, NEW j \in Job, Begin(p, step, j),
               step \in {"sync"} \cup Holding => j.cat.text \in Accepted
        PROVE  Vetted'
    <2>1. pc' = [pc EXCEPT ![p] = step] /\ job' = [job EXCEPT ![p] = [j EXCEPT !.bin = release]]
          /\ registry' = registry /\ published' = published
      BY <1>2 DEF Begin
    <2>2. [j EXCEPT !.bin = release].cat = j.cat
      BY DEF Job
    <2> QED
      BY <1>1, <1>2, <2>1, <2>2 DEF Vetted
  <1>3. ASSUME NEW p \in Procs, Return(p), UNCHANGED <<registry, published>> PROVE Vetted'
    BY <1>1, <1>3 DEF Vetted, Return, Holding
  <1>4. ASSUME NEW p \in Procs, pc[p] \in {"sync"} \cup Holding, UNCHANGED <<registry, published>>,
               \A q \in Procs \ {p} : pc'[q] = pc[q] /\ job'[q] = job[q], job'[p].cat = job[p].cat
        PROVE  Vetted'
    BY <1>4 DEF Vetted
  <1>5. ASSUME NEW p \in Procs, SyncAccept(p) PROVE Vetted'
    <2> DEFINE next == [highest |-> Max2(Known(job[p].repo, job[p].bin).highest, job[p].cat.rev), embedded |-> FALSE,
                        cat |-> job[p].cat, key |-> KeyOf(job[p].sig)]
    <2>1. /\ pc[p] = "sync" /\ pc' = [pc EXCEPT ![p] = "file"] /\ job' = [job EXCEPT ![p].next = next]
          /\ registry' = registry /\ published' = published
      BY <1>5 DEF SyncAccept, disk
    <2> HIDE DEF next
    <2>2. job'[p].cat = job[p].cat
      BY <1>1, <2>1 DEF Job
    <2> QED
      BY <1>1, <1>4, <2>1, <2>2
  <1>6. ASSUME NEW p \in Procs, WriteFile(p) \/ WriteSignature(p) PROVE Vetted'
    <2>1. CASE Return(p) /\ UNCHANGED <<registry, published>>
      BY <1>3, <2>1
    <2>2. CASE ~Return(p)
      <3>1. pc[p] \in Holding /\ UNCHANGED <<registry, published, job>>
            /\ \A q \in Procs \ {p} : pc'[q] = pc[q]
        BY <1>1, <1>6, <2>2 DEF WriteFile, WriteSignature, Holding
      <3> QED
        BY <1>4, <3>1
    <2> QED
      BY <1>6, <2>1, <2>2 DEF WriteFile, WriteSignature
  <1>7. ASSUME NEW p \in Procs, WriteState(p) PROVE Vetted'
    <2>1. /\ registry' = [registry EXCEPT ![job[p].repo] = job[p].next] /\ published' = published
          /\ pc[p] = "state" /\ Return(p)
      BY <1>7 DEF WriteState
    <2>2. job[p].next.cat = job[p].cat
      BY <2>1 DEF Inv, Pending, Holding
    <2>3. job[p].next.cat.text \in Accepted
      BY <2>1, <2>2 DEF Vetted, Holding
    <2> QED
      BY <1>1, <2>1, <2>3 DEF Vetted, Return, Holding
  <1>8. ASSUME NEW p \in Procs, ResetState(p) PROVE Vetted'
    <2> DEFINE r == job[p].repo
               s == registry[r]
               e == EmbeddedState(job[p].bin)
    <2>1. pc[p] = "reset" /\ Return(p) /\ published' = published
      BY <1>8 DEF ResetState
    <2>2. job[p].bin \in Binaries
      BY <2>1 DEF Inv, Begun
    <2>3. e.cat.text \in Accepted
      BY <2>2, ContentAssumption DEF EmbeddedState
    <2>4. registry' \in {registry, [registry EXCEPT ![r] = [e EXCEPT !.highest = s.highest, !.key = s.key]],
                         [registry EXCEPT ![r] = [e EXCEPT !.highest = Max2(s.highest, e.highest)]]}
      BY <1>8 DEF ResetState
    <2>5. [e EXCEPT !.highest = s.highest, !.key = s.key].cat = e.cat
          /\ [e EXCEPT !.highest = Max2(s.highest, e.highest)].cat = e.cat
      BY DEF EmbeddedState
    <2> HIDE DEF e, s
    <2>6. \A q \in Repos : registry'[q] = registry[q] \/ registry'[q].cat = e.cat
      BY <1>1, <2>4, <2>5
    <2> QED
      BY <1>1, <2>1, <2>3, <2>6 DEF Vetted, Return, Holding
  <1>9. ASSUME NEW p \in Procs, NEW r \in Repos, NEW c \in Catalogs, NEW sig \in Signatures \cup {Unsigned},
               NEW down \in BOOLEAN, Sync(p, r, c, sig, down)
        PROVE  Vetted'
    <2> DEFINE j == [NoJob EXCEPT !.repo = r, !.cat = c, !.sig = sig, !.down = down]
    <2>1. j \in Job /\ j.cat = c
      BY Records DEF Job, AnyCatalog
    <2>2. Begin(p, "sync", j) /\ c.text \in Accepted
      BY <1>9 DEF Sync, Trusted
    <2> HIDE DEF j
    <2> QED
      BY <1>2, <2>1, <2>2
  <1>10. ASSUME NEW p \in Procs, NEW r \in Repos, Reset(p, r) \/ OpenCatalog(p, r) PROVE Vetted'
    <2>1. /\ UNCHANGED <<registry, published>>
          /\ \A q \in Procs \ {p} : pc'[q] = pc[q] /\ job'[q] = job[q]
          /\ pc'[p] \in {"reset", "open"}
      BY <1>1, <1>10 DEF Reset, OpenCatalog, Begin
    <2> QED
      BY <2>1 DEF Vetted, Holding
  <1>11. ASSUME NEW p \in Procs, LockTimeout(p) \/ SyncRefuse(p) \/ ReadCatalog(p) \/ Kill(p) PROVE Vetted'
    BY <1>3, <1>11 DEF LockTimeout, SyncRefuse, ReadCatalog, Kill, disk
  <1>12. ASSUME NEW c \in Catalogs, Build(c) PROVE Vetted'
    BY <1>12 DEF Build, Vetted, disk, cmd
  <1>13. ASSUME NEW b \in Binaries, Install(b) PROVE Vetted'
    BY <1>13 DEF Install, Vetted, disk, cmd
  <1>14. CASE UNCHANGED <<vars, releases>>
    BY <1>14 DEF Vetted, vars
  <1> QED
    BY <1>5, <1>6, <1>7, <1>8, <1>9, <1>10, <1>11, <1>12, <1>13, <1>14 DEF Next

\* No reference to any catalog that is published or active is ever open: it
\* means one artifact at most, one that prune keeps, and a numeric selector the
\* newest release below it (Validate, catalog.go 202-226; resolveVersion).
THEOREM AcceptedIsClear == Spec => []AcceptedResolves
  <1>1. RepoInit => Vetted
    BY DEF RepoInit, Init, Vetted, Holding
  <1>2. Vetted => AcceptedResolves
    <2>1. Accepted \subseteq Lucid
      BY ContentAssumption, ValidIsClear DEF Accepted, Lucid
    <2>2. Ambiguous = {}
      BY ValidIsClear DEF Ambiguous
    <2> QED
      BY <2>1, <2>2 DEF Vetted, AcceptedResolves
  <1> QED
    BY <1>1, <1>2, NextVetted, Invariance, PTL DEF Spec
=============================================================================
