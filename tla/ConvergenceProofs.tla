------------------------- MODULE ConvergenceProofs --------------------------
(***************************************************************************)
(* What the planner promises, for any inventories, images and ports.       *)
(*                                                                         *)
(* Inv: reload and recreate compare the wanted specification with the      *)
(* applied one before they touch a node; what they then do can only make   *)
(* the two agree more, and no command runs in between, so that the up that *)
(* follows finds nothing to refuse.                                        *)
(*                                                                         *)
(* Applied: the specification on disk is always one that resolution        *)
(* accepted, nodes with files belong to it and hold the definition it      *)
(* gives them, and no two of them hold one port.  The loops over the nodes *)
(* (ports, removal) are folds; a fold over a sequence is unrolled here     *)
(* into its list of intermediate results, and what every step preserves    *)
(* holds of the last by induction over the number of steps.                *)
(*                                                                         *)
(* Last, resolution by itself: what an accepted inventory may be relied on *)
(* for, and that it does not depend on the order of its groups.            *)
(***************************************************************************)
EXTENDS Convergence, WellFoundedInduction, FiniteSetTheorems, TLAPS

\* A state document has all its fields, or there is none.
Document(d) ==
  \/ d = NoNode
  \/ /\ d.phase \in {"stopped", "running"}
     /\ d = [phase |-> d.phase, def |-> d.def, env |-> d.env, runtime |-> d.runtime, ssh |-> d.ssh]

Documents(nodes) == \A n \in Names : Document(nodes[n])

\* The up of a reload or recreate is not refused when it begins.
Unrefused == job.step = "up" /\ job.by # "user" => ~RefusesAtOnce(job.spec, job.sel)

Inv == Documents(node) /\ "step" \in DOMAIN job /\ Unrefused

\* What a change of the nodes may do without making up refuse: no node gets a
\* document, and those that keep theirs keep the runtime in it.
Fewer(nodes) ==
  \A n \in Names :
    \/ nodes[n].phase = "absent"
    \/ node[n].phase # "absent" /\ nodes[n].runtime = node[n].runtime

-----------------------------------------------------------------------------
LEMMA StartedDocuments ==
    ASSUME NEW nodes, NEW spec, NEW S, NEW failing, Documents(nodes)
    PROVE  Documents(Started(nodes, spec, S, failing))
  <1> SUFFICES ASSUME NEW n \in Names PROVE Document(Started(nodes, spec, S, failing)[n])
    BY DEF Documents
  <1> DEFINE starting == {m \in S : nodes[m].phase = "stopped"}
             port == Repair(nodes, spec, starting)
             phase == IF n \in failing THEN "stopped" ELSE "running"
  <1>1. Document(nodes[n])
    BY DEF Documents
  <1>2. CASE n \notin starting \/ port[n] = 0
    BY <1>1, <1>2 DEF Started
  <1>3. CASE n \in starting /\ port[n] # 0
    <2>1. Started(nodes, spec, S, failing)[n] = [nodes[n] EXCEPT !.ssh = port[n], !.phase = phase]
      BY <1>3 DEF Started
    <2>2. nodes[n].phase = "stopped"
      BY <1>3
    <2> DEFINE d == nodes[n]
    <2>3. d = [phase |-> "stopped", def |-> d.def, env |-> d.env, runtime |-> d.runtime, ssh |-> d.ssh]
      BY <1>1, <2>2 DEF Document, NoNode
    <2> HIDE DEF d, port, phase
    <2>4. [d EXCEPT !.ssh = port[n], !.phase = phase]
            = [phase |-> phase, def |-> d.def, env |-> d.env, runtime |-> d.runtime, ssh |-> port[n]]
      <3> SUFFICES ASSUME NEW x, NEW y
                   PROVE  [d EXCEPT !.ssh = x, !.phase = y]
                            = [phase |-> y, def |-> d.def, env |-> d.env, runtime |-> d.runtime, ssh |-> x]
        OBVIOUS
      <3>1. [d EXCEPT !.ssh = x]
              = [phase |-> "stopped", def |-> d.def, env |-> d.env, runtime |-> d.runtime, ssh |-> x]
        BY <2>3
      <3>2. [d EXCEPT !.ssh = x, !.phase = y] = [[d EXCEPT !.ssh = x] EXCEPT !.phase = y]
        BY <2>3
      <3> DEFINE e == [d EXCEPT !.ssh = x]
      <3>4. e = [phase |-> "stopped", def |-> d.def, env |-> d.env, runtime |-> d.runtime, ssh |-> x]
        BY <3>1
      <3> HIDE DEF e
      <3>3. [e EXCEPT !.phase = y]
              = [phase |-> y, def |-> d.def, env |-> d.env, runtime |-> d.runtime, ssh |-> x]
        BY <3>4
      <3> QED
        BY <3>2, <3>3 DEF e
    <2>5. phase \in {"stopped", "running"}
      BY DEF phase
    <2> QED
      BY <2>1, <2>4, <2>5 DEF Document, d
  <1> QED
    BY <1>2, <1>3

LEMMA StoppedDocuments ==
    ASSUME NEW nodes, NEW S, Documents(nodes)
    PROVE  /\ Documents(Stopped(nodes, S))
           /\ \A n \in Names : /\ Stopped(nodes, S)[n].phase = "absent" <=> nodes[n].phase = "absent"
                               /\ nodes[n].phase # "absent" => Stopped(nodes, S)[n].runtime = nodes[n].runtime
  <1> SUFFICES ASSUME NEW n \in Names
               PROVE  /\ Document(Stopped(nodes, S)[n])
                      /\ Stopped(nodes, S)[n].phase = "absent" <=> nodes[n].phase = "absent"
                      /\ nodes[n].phase # "absent" => Stopped(nodes, S)[n].runtime = nodes[n].runtime
    BY DEF Documents
  <1>1. Document(nodes[n])
    BY DEF Documents
  <1>2. CASE n \in S /\ nodes[n].phase = "running"
    <2>1. Stopped(nodes, S)[n] = [nodes[n] EXCEPT !.phase = "stopped"]
      BY <1>2 DEF Stopped
    <2> DEFINE d == nodes[n]
    <2>2. d = [phase |-> "running", def |-> d.def, env |-> d.env, runtime |-> d.runtime, ssh |-> d.ssh]
      BY <1>1, <1>2 DEF Document, NoNode
    <2> HIDE DEF d
    <2>3. [d EXCEPT !.phase = "stopped"]
            = [phase |-> "stopped", def |-> d.def, env |-> d.env, runtime |-> d.runtime, ssh |-> d.ssh]
      BY <2>2
    <2>4. d.phase = "running"
      BY <2>2
    <2> QED
      BY <2>1, <2>3, <2>4 DEF Document, d
  <1>3. CASE ~(n \in S /\ nodes[n].phase = "running")
    <2>1. Stopped(nodes, S)[n] = nodes[n]
      BY <1>3 DEF Stopped
    <2> QED
      BY <1>1, <2>1
  <1> QED
    BY <1>2, <1>3

LEMMA DestroyedDocuments ==
    ASSUME NEW nodes, NEW S, Documents(nodes)
    PROVE  Documents(Destroyed(nodes, S))
  BY DEF Documents, Destroyed, Document

\* Fewer documents are no reason to refuse.
LEMMA FewerDrift ==
    ASSUME NEW spec, Fewer(node'), persisted' = persisted, RuntimeDrift(spec) = {}
    PROVE  /\ RuntimeDrift(spec)' = {}
           /\ ~EnvelopeChanged(spec) => ~EnvelopeChanged(spec)'
           /\ Removed(spec)' \subseteq Removed(spec)
           /\ Changed(spec)' \subseteq Changed(spec)
           /\ \A n \in Changed(spec)' : n \in Names /\ node'[n].phase # "absent"
  BY DEF Fewer, RuntimeDrift, Runtime, EnvelopeChanged, Removed, Changed, ToCreate, Known, Stateful

LEMMA ReloadInv == ASSUME Inv, NEW sel, Reload(sel) PROVE Inv'
  <1>1. /\ node' = Stopped(node, Committed(Chosen(wanted, sel))) /\ persisted' = persisted
        /\ ~Drifted(wanted) /\ Supported(wanted) /\ RuntimeDrift(wanted) = {}
        /\ job' = [step |-> "up", by |-> "reload", spec |-> wanted, sel |-> sel, peers |-> {}]
    BY DEF Reload
  <1>2. Documents(node)' /\ Fewer(node')
    BY <1>1, StoppedDocuments DEF Inv, Fewer, Documents
  <1>3. ~Drifted(wanted)' \/ wanted' # wanted
    BY <1>1, <1>2, FewerDrift DEF Drifted
  <1>4. wanted' = wanted
    BY DEF Reload
  <1>5. RuntimeDrift(wanted)' = {} /\ ~Drifted(wanted)' /\ Supported(wanted)'
    BY <1>1, <1>2, <1>3, <1>4, FewerDrift DEF Supported, Images
  <1>6. job'.spec = wanted' /\ "step" \in DOMAIN job'
    BY <1>1, <1>4
  <1> QED
    BY <1>2, <1>5, <1>6 DEF Inv, Unrefused, RefusesAtOnce, Drifted

\* What is left of the applied specification after the selected nodes are
\* destroyed differs from the wanted one in nothing: what differed was selected.
LEMMA RecreateInv == ASSUME Inv, NEW sel, Recreate(sel) PROVE Inv'
  <1> DEFINE S == Chosen(persisted, sel)
  <1>1. /\ node' = Destroyed(node, S)
        /\ persisted' = IF S = NamesIn(persisted) THEN NoSpec ELSE persisted
        /\ job' = [step |-> "up", by |-> "recreate", spec |-> wanted, sel |-> sel, peers |-> {}]
        /\ S # NamesIn(persisted) => ~DriftedApart(wanted, sel)
        /\ Supported(wanted)
        /\ sel # {} => RuntimeDrift(wanted) = {}
        /\ wanted' = wanted
    BY DEF Recreate
  <1>2. Documents(node)' /\ Fewer(node')
    BY <1>1, DestroyedDocuments DEF Inv, Fewer, Documents, Destroyed, NoNode
  <1>3. job'.spec = wanted /\ job'.sel = sel /\ Supported(wanted)'
    BY <1>1 DEF Supported, Images
  <1>4. CASE S = NamesIn(persisted)
    <2>1. persisted' = NoSpec
      BY <1>1, <1>4
    <2> QED
      BY <1>1, <1>2, <1>3, <2>1 DEF Inv, Unrefused, RefusesAtOnce, NoSpec
  <1>5. CASE S # NamesIn(persisted)
    <2>1. sel # {} /\ S = sel /\ persisted' = persisted /\ RuntimeDrift(wanted) = {}
      BY <1>1, <1>5 DEF Chosen
    <2>2. ~EnvelopeChanged(wanted) /\ Removed(wanted) = {} /\ Changed(wanted) \subseteq sel
      BY <1>1, <1>5, <2>1 DEF DriftedApart
    <2>3. /\ RuntimeDrift(wanted)' = {} /\ ~EnvelopeChanged(wanted)' /\ Removed(wanted)' = {}
          /\ Changed(wanted)' \subseteq sel
          /\ \A n \in Changed(wanted)' : n \in Names /\ node'[n].phase # "absent"
      BY <1>1, <1>2, <2>1, <2>2, FewerDrift
    <2>4. \A n \in Names \cap sel : node'[n].phase = "absent"
      BY <1>1, <2>1 DEF Destroyed, NoNode
    <2>5. Changed(wanted)' = {}
      BY <2>3, <2>4
    <2> QED
      BY <1>1, <1>2, <1>3, <2>3, <2>5 DEF Inv, Unrefused, RefusesAtOnce, Drifted
  <1> QED
    BY <1>4, <1>5

\* No other command begins while one is under way.
LEMMA OtherInv ==
    ASSUME Inv, Documents(node)',
           \/ job' = NoJob
           \/ "step" \in DOMAIN job' /\ (job'.step = "peers" \/ job'.by = "user")
           \/ UNCHANGED <<persisted, node, job>>
    PROVE  Inv'
  <1>1. CASE UNCHANGED <<persisted, node, job>>
    <2>1. Unrefused'
      BY <1>1 DEF Inv, Unrefused, RefusesAtOnce, Drifted, EnvelopeChanged, Removed, Changed, ToCreate,
         Known, RuntimeDrift, Stateful, Creating, Supported, Images, Runtime, Chosen, SameNode
    <2>2. Documents(node)' /\ "step" \in DOMAIN job'
      BY <1>1 DEF Inv, Documents
    <2> QED
      BY <2>1, <2>2 DEF Inv
  <1>2. CASE job' = NoJob \/ ("step" \in DOMAIN job' /\ (job'.step = "peers" \/ job'.by = "user"))
    BY <1>2 DEF Inv, Unrefused, NoJob
  <1> QED
    BY <1>1, <1>2

LEMMA NextInv == ASSUME Inv, [Next]_vars PROVE Inv'
  <1>0. Documents(node)
    BY DEF Inv
  <1>1. ASSUME NEW sel, Up(sel) PROVE Inv'
    BY <1>0, <1>1, OtherInv DEF Up, Documents
  <1>2. ASSUME NEW sel, Stop(sel) PROVE Inv'
    <2>1. node' = Stopped(node, Committed(Chosen(persisted, sel))) /\ job' = NoJob
      BY <1>2 DEF Stop, Selectable
    <2> QED
      BY <1>0, <2>1, StoppedDocuments, OtherInv DEF Documents
  <1>3. ASSUME NEW sel, NEW failing, Start(sel, failing) \/ Restart(sel, failing) PROVE Inv'
    <2> DEFINE S == Committed(Chosen(persisted, sel))
    <2>1. job' = NoJob
      BY <1>3 DEF Start, Restart, Selectable
    <2>2. \/ node' = Started(node, persisted, S, failing)
          \/ node' = Started(Stopped(node, S), persisted, S, failing)
      BY <1>3 DEF Start, Restart
    <2>3. Documents(node')
      BY <1>0, <2>2, StartedDocuments, StoppedDocuments
    <2> QED
      BY <2>1, <2>3, OtherInv DEF Documents
  <1>4. ASSUME NEW sel, NEW removed, Destroy(sel, removed) PROVE Inv'
    <2>1. job' = NoJob /\ node' = Destroyed(Stopped(node, Chosen(persisted, sel)), removed)
      BY <1>4 DEF Destroy
    <2> QED
      BY <1>0, <2>1, StoppedDocuments, DestroyedDocuments, OtherInv DEF Documents
  <1>5. CASE UpEnds
    BY <1>0, <1>5, OtherInv DEF UpEnds, Documents
  <1>6. ASSUME NEW failing, UpExisting(failing) \/ UpPeers(failing) PROVE Inv'
    <2>1. job' = NoJob /\ \E S : node' = Started(node, persisted, S, failing)
      BY <1>6 DEF UpExisting, UpPeers
    <2> QED
      BY <1>0, <2>1, StartedDocuments, OtherInv DEF Documents
  <1>7. ASSUME NEW prepared, NEW failing, job # NoJob, UpCreate(prepared, failing) PROVE Inv'
    <2> DEFINE spec == job.spec
               port == Allocate(spec, Creating(spec, job.sel))
               new(n) == [phase |-> "stopped", def |-> NodeIn(spec, n), env |-> Envelope(spec),
                          runtime |-> Runtime(spec), ssh |-> port[n]]
               made == [n \in Names |-> IF n \in prepared THEN new(n) ELSE node[n]]
    <2>1. /\ node' = Started(made, spec, prepared, failing)
          /\ job' = [job EXCEPT !.step = "peers", !.peers = Chosen(spec, job.sel) \ Creating(spec, job.sel)]
      BY <1>7 DEF UpCreate
    <2>2. \A n : Document(new(n))
      BY DEF Document
    <2> HIDE DEF port, new
    <2>3. Documents(made)
      BY <1>0, <2>2 DEF Documents
    <2>4. Documents(node')
      BY <2>1, <2>3, StartedDocuments
    <2>5. job'.step = "peers" /\ "step" \in DOMAIN job'
      BY <2>1 DEF Inv
    <2> QED
      BY <2>4, <2>5, OtherInv DEF Documents
  <1>8. ASSUME NEW i, Edit(i) PROVE Inv'
    BY <1>0, <1>8, OtherInv DEF Edit, Documents
  <1>9. ASSUME NEW ports, PortChange(ports) PROVE Inv'
    BY <1>0, <1>9, OtherInv DEF PortChange, Documents
  <1>10. CASE UNCHANGED vars
    BY <1>0, <1>10, OtherInv DEF vars, Documents
  <1> QED
    BY <1>1, <1>2, <1>3, <1>4, <1>5, <1>6, <1>7, <1>8, <1>9, <1>10, ReloadInv, RecreateInv DEF Next

\* The invariant.
THEOREM Invariance == Spec => []Inv
  <1>1. Init => Inv
    BY DEF Init, Inv, Documents, Document, Unrefused, NoJob
  <1> QED
    BY <1>1, NextInv, PTL DEF Spec

\* Of the specifications that do not drift, the commit refuses those only that
\* the comparison of drift lets pass.
LEMMA CommitRefusal ==
    ASSUME NEW spec, NEW sel, ~RefusesAtOnce(spec, sel), UpRefuses(spec, sel)
    PROVE  LetPass(spec)
  <1>1. persisted # NoSpec /\ ~Committable(spec)
    BY DEF UpRefuses, Committable
  <1>2. ~EnvelopeChanged(spec) /\ Changed(spec) = {}
    BY <1>1 DEF RefusesAtOnce, Drifted
  <1>3. Removed(spec) = {}
    BY <1>1 DEF RefusesAtOnce, Drifted
  <1>4. \A n \in NamesIn(persisted) \cap NamesIn(spec) :
           Stateful(n) => SameNode(NodeIn(persisted, n), NodeIn(spec, n))
    BY <1>2 DEF Changed, ToCreate, Known
  <1>5. CASE NamesIn(persisted) \subseteq NamesIn(spec)
    <2>1. PICK n \in NamesIn(persisted) : Stateful(n) /\ NodeIn(persisted, n) # NodeIn(spec, n)
      BY <1>1, <1>2, <1>5 DEF Committable
    <2>2. n \in NamesIn(persisted) \cap NamesIn(spec)
      BY <1>5
    <2>3. "auto" \in {NodeIn(persisted, n).disk, NodeIn(spec, n).disk}
      BY <1>4, <2>1, <2>2 DEF SameNode
    <2> QED
      BY <2>1, <2>2, <2>3 DEF LetPass
  <1>6. CASE ~(NamesIn(persisted) \subseteq NamesIn(spec))
    <2>1. PICK n \in NamesIn(persisted) \ NamesIn(spec) : TRUE
      BY <1>6
    <2>2. ~Stateful(n)
      BY <1>3, <2>1 DEF Removed
    <2> QED
      BY <2>1, <2>2 DEF LetPass
  <1> QED
    BY <1>5, <1>6

\* The up for which reload stopped nodes, or recreate destroyed them, is not
\* refused for drift, accelerator or boot mode, and its commit refuses it while
\* LetPass only (manager.go Reload, destroy.go RecreateResolved, commit.go).
THEOREM RefusalComesFirst == Spec => []RefusesBeforeMutation
  <1>1. Inv => RefusesBeforeMutation
    BY CommitRefusal DEF Inv, Unrefused, RefusesBeforeMutation
  <1> QED
    BY <1>1, Invariance, PTL

\* plan shows as appliable nothing that up refuses for drift, and what the
\* commit refuses while LetPass only (manager.go Plan, Up; commit.go): the three
\* compare the specifications in different code.
THEOREM PlanAgrees == Spec => []PlanIsHonest
  <1>1. PlanIsHonest
    <2> SUFFICES ASSUME NEW sel \in SUBSET Names,
                        PlanAction(wanted, sel) \in {"create", "converge", "start", "none"},
                        Supported(wanted)
                 PROVE  ~RefusesAtOnce(wanted, sel) /\ (UpRefuses(wanted, sel) => LetPass(wanted))
      BY DEF PlanIsHonest
    <2>1. ASSUME RefusesAtOnce(wanted, sel) PROVE FALSE
      <3>1. persisted # NoSpec
        BY <2>1 DEF RefusesAtOnce
      <3>2. /\ ~EnvelopeChanged(wanted) /\ Removed(wanted) = {}
            /\ Changed(wanted) = {} /\ RuntimeDrift(wanted) = {}
        BY <3>1 DEF PlanAction
      <3> QED
        BY <2>1, <3>2 DEF RefusesAtOnce, Drifted
    <2> QED
      BY <2>1, CommitRefusal
  <1> QED
    BY <1>1, PTL

\* A set of numbers that is not empty has a smallest one.
LEMMA Least ==
    ASSUME NEW T \in SUBSET Nat, T # {}
    PROVE  \E x \in T : \A y \in T : x <= y
  <1> DEFINE R == OpToRel(<, Nat)
  <1>1. IsWellFoundedOn(R, Nat)
    BY NatLessThanWellFounded
  <1> HIDE DEF R
  <1>2. PICK x \in T : \A y \in T : ~(<<y, x>> \in R)
    BY <1>1, WFMin, Zenon
  <1>3. \A y \in T : ~(y < x)
    BY <1>2 DEF R, OpToRel
  <1> QED
    BY <1>3

\* What holds of 0, and of a number up to N if of the one before, holds up to N.
LEMMA Induct ==
    ASSUME NEW N \in Nat, NEW T, 0 \in T, \A i \in 1 .. N : i - 1 \in T => i \in T
    PROVE  \A i \in 0 .. N : i \in T
  <1> SUFFICES ASSUME {i \in 0 .. N : i \notin T} # {} PROVE FALSE
    OBVIOUS
  <1>1. PICK x \in {i \in 0 .. N : i \notin T} : \A y \in {i \in 0 .. N : i \notin T} : x <= y
    <2>1. {i \in 0 .. N : i \notin T} \in SUBSET Nat
      OBVIOUS
    <2> QED
      BY <2>1, Least
  <1>2. x \in 1 .. N /\ x - 1 \in 0 .. N
    BY <1>1
  <1>3. x - 1 \in T
    BY <1>1, <1>2
  <1> QED
    BY <1>1, <1>2, <1>3

Iterates(f, N, D, base, step) ==
  f \in [0 .. N -> D] /\ f[0] = base /\ \A i \in 1 .. N : f[i] = step[<<i, f[i - 1]>>]

\* There is a function that does at each number what `step` says of the one before.
LEMMA Recursion ==
    ASSUME NEW N \in Nat, NEW D, NEW base \in D, NEW step \in [(1 .. N) \X D -> D]
    PROVE  \E f : Iterates(f, N, D, base, step)
  <1> DEFINE P(n, f) == f \in [0 .. n -> D] /\ f[0] = base /\ \A i \in 1 .. n : f[i] = step[<<i, f[i - 1]>>]
             T == {n \in 0 .. N : \E f : P(n, f)}
  <1>1. 0 \in T
    <2>1. P(0, [i \in 0 .. 0 |-> base])
      OBVIOUS
    <2> HIDE DEF P
    <2> QED
      BY <2>1
  <1>2. ASSUME NEW n \in 1 .. N, n - 1 \in T PROVE n \in T
    <2>1. PICK f : P(n - 1, f)
      BY <1>2
    <2>2. f[n - 1] \in D
      BY <2>1
    <2> DEFINE v == step[<<n, f[n - 1]>>]
               g == [i \in 0 .. n |-> IF i = n THEN v ELSE f[i]]
    <2>3. v \in D
      BY <2>2
    <2> HIDE DEF v
    <2>4. g \in [0 .. n -> D]
      BY <2>1, <2>3
    <2>5. g[0] = base
      BY <2>1
    <2>6. ASSUME NEW i \in 1 .. n PROVE g[i] = step[<<i, g[i - 1]>>]
      <3>1. g[i - 1] = f[i - 1]
        BY <2>6
      <3>2. CASE i = n
        <4>1. g[i] = v /\ g[i - 1] = f[n - 1]
          BY <3>1, <3>2
        <4> QED
          BY <3>2, <4>1 DEF v
      <3>3. CASE i # n
        BY <2>1, <3>1, <3>3
      <3> QED
        BY <3>2, <3>3
    <2>7. P(n, g)
      BY <2>4, <2>5, <2>6
    <2> HIDE DEF P, g
    <2> QED
      BY <2>7
  <1> HIDE DEF T
  <1>3. \A n \in 0 .. N : n \in T
    BY <1>1, <1>2, Induct
  <1>4. N \in T
    BY <1>3
  <1> QED
    BY <1>4 DEF T, Iterates

-----------------------------------------------------------------------------
(* Ports that are given one after the other.                               *)

LEMMA ChooseFree ==
    ASSUME NEW preferred, NEW taken
    PROVE  Choose(preferred, taken) \in Nat /\ (Choose(preferred, taken) # 0 => Choose(preferred, taken) \notin taken)
  <1> DEFINE free == Candidates(preferred) \ taken
  <1>1. free \in SUBSET Nat
    <2>1. MaxPort \in Nat
      BY DEF MaxPort
    <2>2. Candidates(preferred) \subseteq 1 .. MaxPort
      BY DEF Candidates
    <2> QED
      BY <2>1, <2>2
  <1>2. CASE free = {}
    BY <1>2 DEF Choose
  <1>3. CASE free # {}
    <2> HIDE DEF free
    <2>1. \E x \in free : \A y \in free : x <= y
      BY <1>1, <1>3, Least
    <2>2. Min(free) \in free
      BY <2>1 DEF Min
    <2>3. Choose(preferred, taken) = Min(free)
      BY <1>3 DEF Choose, free
    <2>4. free \cap taken = {}
      BY DEF free
    <2> QED
      BY <1>1, <2>2, <2>3, <2>4
  <1> QED
    BY <1>2, <1>3

\* A port for n beside those of p: none, a free one, or the one it owns.
Admits(v, p, n, taken, own) == v = 0 \/ v \notin taken \cup Range(p) \/ v = own[n]

\* The ports of p do not meet, nor those of others that are taken.
Apart(p, taken, own) ==
  /\ DOMAIN p = Names
  /\ \A n \in Names : p[n] = 0 \/ p[n] = own[n] \/ p[n] \notin taken
  /\ \A m, n \in Names : m # n /\ p[m] # 0 /\ p[n] # 0 => p[m] # p[n]

\* What is owned is taken, and by one.
Owning(taken, own) ==
  /\ \A n \in Names : own[n] = 0 \/ own[n] \in taken
  /\ \A m, n \in Names : m # n /\ own[m] # 0 /\ own[n] # 0 => own[m] # own[n]

Gives(f, N, taken, own) ==
  /\ f[0] = NoPorts
  /\ \A i \in 1 .. N :
       \/ f[i] = f[i - 1]
       \/ \E n \in Names : \E v : f[i] = [f[i - 1] EXCEPT ![n] = v] /\ Admits(v, f[i - 1], n, taken, own)

LEMMA ApartStep ==
    ASSUME NEW taken, NEW own, Owning(taken, own), NEW p, Apart(p, taken, own),
           NEW n \in Names, NEW v, Admits(v, p, n, taken, own)
    PROVE  Apart([p EXCEPT ![n] = v], taken, own)
  <1> DEFINE q == [p EXCEPT ![n] = v]
  <1>1. DOMAIN q = Names /\ q[n] = v /\ \A m \in Names : m # n => q[m] = p[m]
    BY DEF Apart
  <1>2. \A m \in Names : p[m] \in Range(p)
    BY DEF Apart, Range
  <1> HIDE DEF q
  <1>3. ASSUME NEW m \in Names, m # n, p[m] # 0, v # 0 PROVE p[m] # v
    <2>1. CASE v \notin taken \cup Range(p)
      BY <1>2, <2>1
    <2>2. CASE v = own[n]
      BY <1>3, <2>2 DEF Apart, Owning
    <2> QED
      BY <1>3, <2>1, <2>2 DEF Admits
  <1>4. v = 0 \/ v = own[n] \/ v \notin taken
    BY DEF Admits
  <1>5. Apart(q, taken, own)
    BY <1>1, <1>3, <1>4 DEF Apart
  <1> QED
    BY <1>5 DEF q

LEMMA ApartLoop ==
    ASSUME NEW N \in Nat, NEW taken, NEW own, Owning(taken, own), NEW f, Gives(f, N, taken, own)
    PROVE  Apart(f[N], taken, own)
  <1> DEFINE T == {i \in 0 .. N : Apart(f[i], taken, own)}
  <1>1. 0 \in T
    BY DEF Gives, Apart, NoPorts
  <1>2. ASSUME NEW i \in 1 .. N, i - 1 \in T PROVE i \in T
    <2>1. Apart(f[i - 1], taken, own)
      BY <1>2
    <2>2. Apart(f[i], taken, own)
      <3>1. CASE f[i] = f[i - 1]
        BY <2>1, <3>1
      <3>2. ASSUME NEW n \in Names, NEW v, f[i] = [f[i - 1] EXCEPT ![n] = v], Admits(v, f[i - 1], n, taken, own)
            PROVE  Apart(f[i], taken, own)
        BY <2>1, <3>2, ApartStep
      <3> QED
        BY <3>1, <3>2 DEF Gives
    <2> QED
      BY <2>2
  <1> HIDE DEF T
  <1>3. \A i \in 0 .. N : i \in T
    BY <1>1, <1>2, Induct
  <1> QED
    BY <1>3 DEF T

\* A specification whose nodes are a sequence, with names of their own.
Wellformed(spec) ==
  /\ {"net", "arch", "user", "nodes"} \subseteq DOMAIN spec
  /\ Len(spec.nodes) \in Nat /\ DOMAIN spec.nodes = 1 .. Len(spec.nodes)
  /\ NamesIn(spec) \subseteq Names
  /\ \A i, j \in DOMAIN spec.nodes : spec.nodes[i].name = spec.nodes[j].name => i = j

LEMMA NameOfNode ==
    ASSUME NEW spec, Wellformed(spec)
    PROVE  \A i \in DOMAIN spec.nodes : NodeIn(spec, spec.nodes[i].name) = spec.nodes[i]
  BY DEF Wellformed, NodeIn

LEMMA AllocateApart ==
    ASSUME NEW spec, Wellformed(spec), NEW create
    PROVE  Apart(Allocate(spec, create), Reserved(node, NamesIn(spec) \ create) \cup Bound(node), NoPorts)
  <1> DEFINE N == Len(spec.nodes)
             D == [Names -> Nat]
             taken == Reserved(node, NamesIn(spec) \ create) \cup Bound(node)
             name(i) == spec.nodes[i].name
             next(i, p) == IF name(i) \notin create THEN p
                           ELSE [p EXCEPT ![name(i)] = Choose(2221 + i, taken \cup Range(p))]
             Equation(h) == h = [i \in 0 .. N |-> IF i = 0 THEN NoPorts ELSE next(i, h[i - 1])]
             step == [x \in (1 .. N) \X D |-> next(x[1], x[2])]
             given == CHOOSE h : Equation(h)
  <1>1. Allocate(spec, create) = given[N]
    BY DEF Allocate
  <1>2. N \in Nat /\ \A i \in 1 .. N : name(i) \in Names
    BY DEF Wellformed, NamesIn
  <1>3. ASSUME NEW i \in 1 .. N, NEW p \in D PROVE next(i, p) \in D
    <2> DEFINE v == Choose(2221 + i, taken \cup Range(p))
    <2>1. v \in Nat
      BY ChooseFree
    <2> HIDE DEF v
    <2>2. [p EXCEPT ![name(i)] = v] \in D
      BY <1>2, <2>1
    <2> QED
      BY <2>2 DEF v
  <1>4. NoPorts \in D
    BY DEF NoPorts
  <1> HIDE DEF next
  <1>5. step \in [(1 .. N) \X D -> D] /\ \A i \in 1 .. N, p \in D : step[<<i, p>>] = next(i, p)
    BY <1>3
  <1> HIDE DEF step, N, D, name
  <1>6. PICK f : Iterates(f, N, D, NoPorts, step)
    BY <1>2, <1>4, <1>5, Recursion
  <1>7. Equation(f)
    <2>1. f \in [0 .. N -> D]
      BY <1>6 DEF Iterates
    <2>2. ASSUME NEW i \in 0 .. N PROVE f[i] = IF i = 0 THEN NoPorts ELSE next(i, f[i - 1])
      <3>1. i # 0 => i \in 1 .. N /\ i - 1 \in 0 .. N
        BY <1>2
      <3>2. i # 0 => f[i - 1] \in D
        BY <2>1, <3>1
      <3> QED
        BY <1>5, <1>6, <3>1, <3>2 DEF Iterates
    <2> QED
      BY <2>1, <2>2
  <1>8. Equation(given)
    BY <1>7
  <1> HIDE DEF given
  <1>9. Gives(given, N, taken, NoPorts)
    <2>1. given[0] = NoPorts
      BY <1>2, <1>8
    <2>2. ASSUME NEW i \in 1 .. N
          PROVE  \/ given[i] = given[i - 1]
                 \/ \E n \in Names : \E v :
                      given[i] = [given[i - 1] EXCEPT ![n] = v] /\ Admits(v, given[i - 1], n, taken, NoPorts)
      <3> DEFINE p == given[i - 1]
                 v == Choose(2221 + i, taken \cup Range(p))
      <3>1. given[i] = next(i, p)
        BY <1>2, <1>8
      <3>2. Admits(v, p, name(i), taken, NoPorts)
        <4>0. \A x, t : Choose(x, t) # 0 => Choose(x, t) \notin t
          BY ChooseFree
        <4> HIDE DEF p, taken
        <4>1. v # 0 => v \notin taken \cup Range(p)
          BY <4>0
        <4> HIDE DEF v
        <4> QED
          BY <4>1 DEF Admits
      <3> HIDE DEF p
      <3>3. given[i] = p \/ given[i] = [p EXCEPT ![name(i)] = v]
        BY <3>1 DEF next
      <3> HIDE DEF v
      <3> QED
        BY <1>2, <3>2, <3>3 DEF p
    <2> QED
      BY <2>1, <2>2 DEF Gives
  <1>10. Owning(taken, NoPorts)
    BY DEF Owning, NoPorts
  <1>11. Apart(given[N], taken, NoPorts)
    BY <1>2, <1>9, <1>10, ApartLoop
  <1> QED
    BY <1>1, <1>11

\* The ports that nodes of spec have already.
Owned(nodes, spec) ==
  [n \in Names |-> IF n \in NamesIn(spec) /\ nodes[n].phase # "absent" THEN nodes[n].ssh ELSE 0]

LEMMA RepairApart ==
    ASSUME NEW spec, Wellformed(spec), NEW nodes, NEW starting,
           \A n \in starting : nodes[n].phase # "absent",
           \A m, n \in Names : m # n /\ nodes[m].phase # "absent" /\ nodes[n].phase # "absent"
                                 => nodes[m].ssh # nodes[n].ssh
    PROVE  Apart(Repair(nodes, spec, starting), Reserved(nodes, NamesIn(spec)) \cup Bound(nodes), Owned(nodes, spec))
  <1> DEFINE N == Len(spec.nodes)
             V == Nat \cup {nodes[n].ssh : n \in Names}
             D == [Names -> V]
             taken == Reserved(nodes, NamesIn(spec)) \cup Bound(nodes)
             own == Owned(nodes, spec)
             name(i) == spec.nodes[i].name
             next(i, p) == LET n == spec.nodes[i].name
                           IN IF n \notin starting THEN p
                              ELSE [p EXCEPT ![n] =
                                      IF nodes[n].ssh \in Bound(nodes)
                                      THEN Choose(Family(nodes[n].ssh), taken \cup Range(p))
                                      ELSE nodes[n].ssh]
             port(i, p) == IF nodes[name(i)].ssh \in Bound(nodes)
                           THEN Choose(Family(nodes[name(i)].ssh), taken \cup Range(p))
                           ELSE nodes[name(i)].ssh
             Equation(h) == h = [i \in 0 .. N |-> IF i = 0 THEN NoPorts ELSE next(i, h[i - 1])]
             step == [x \in (1 .. N) \X D |-> next(x[1], x[2])]
             moved == CHOOSE h : Equation(h)
  <1>1. Repair(nodes, spec, starting) = moved[N]
    BY DEF Repair
  <1>2. N \in Nat /\ \A i \in 1 .. N : name(i) \in Names /\ name(i) \in NamesIn(spec)
    BY DEF Wellformed, NamesIn
  <1>3. \A i, p : next(i, p) = IF name(i) \notin starting THEN p ELSE [p EXCEPT ![name(i)] = port(i, p)]
    OBVIOUS
  <1> HIDE DEF next, name, taken
  <1>4. ASSUME NEW i \in 1 .. N, NEW p \in D PROVE next(i, p) \in D
    <2>1. port(i, p) \in V
      BY <1>2, ChooseFree
    <2> HIDE DEF port, V
    <2> QED
      BY <1>2, <1>3, <2>1
  <1>5. NoPorts \in D
    BY DEF NoPorts
  <1>6. \A x, t : Choose(x, t) # 0 => Choose(x, t) \notin t
    BY ChooseFree
  <1>7. ASSUME NEW i \in 1 .. N, NEW p, name(i) \in starting
        PROVE  Admits(port(i, p), p, name(i), taken, own)
    <2>1. own[name(i)] = nodes[name(i)].ssh
      BY <1>2, <1>7 DEF Owned
    <2> HIDE DEF own
    <2>2. port(i, p) = own[name(i)] \/ port(i, p) = 0 \/ port(i, p) \notin taken \cup Range(p)
      BY <1>6, <2>1
    <2> HIDE DEF port
    <2> QED
      BY <2>2 DEF Admits
  <1> HIDE DEF port
  <1>8. step \in [(1 .. N) \X D -> D] /\ \A i \in 1 .. N, p \in D : step[<<i, p>>] = next(i, p)
    BY <1>4
  <1> HIDE DEF step, N, D, own
  <1>9. PICK f : Iterates(f, N, D, NoPorts, step)
    BY <1>2, <1>5, <1>8, Recursion
  <1>10. Equation(f)
    <2>1. f \in [0 .. N -> D]
      BY <1>9 DEF Iterates
    <2>2. ASSUME NEW i \in 0 .. N PROVE f[i] = IF i = 0 THEN NoPorts ELSE next(i, f[i - 1])
      <3>1. i # 0 => i \in 1 .. N /\ i - 1 \in 0 .. N
        BY <1>2
      <3>2. i # 0 => f[i - 1] \in D
        BY <2>1, <3>1
      <3> QED
        BY <1>8, <1>9, <3>1, <3>2 DEF Iterates
    <2> QED
      BY <2>1, <2>2
  <1>11. Equation(moved)
    BY <1>10
  <1> HIDE DEF moved
  <1>12. Gives(moved, N, taken, own)
    <2>1. moved[0] = NoPorts
      BY <1>2, <1>11
    <2>2. ASSUME NEW i \in 1 .. N
          PROVE  \/ moved[i] = moved[i - 1]
                 \/ \E n \in Names : \E v : moved[i] = [moved[i - 1] EXCEPT ![n] = v]
                                        /\ Admits(v, moved[i - 1], n, taken, own)
      <3> DEFINE p == moved[i - 1]
      <3>1. moved[i] = next(i, p)
        BY <1>2, <1>11
      <3> HIDE DEF p
      <3>2. moved[i] = p \/ (name(i) \in starting /\ moved[i] = [p EXCEPT ![name(i)] = port(i, p)])
        BY <1>3, <3>1
      <3> QED
        BY <1>2, <1>7, <3>2 DEF p
    <2> QED
      BY <2>1, <2>2 DEF Gives
  <1>13. Owning(taken, own)
    <2>1. \A n \in Names : own[n] = 0 \/ own[n] \in taken
      BY DEF own, Owned, taken, Reserved
    <2>2. \A m, n \in Names : m # n /\ own[m] # 0 /\ own[n] # 0 => own[m] # own[n]
      BY DEF own, Owned
    <2> QED
      BY <2>1, <2>2 DEF Owning
  <1>14. Apart(moved[N], taken, own)
    BY <1>2, <1>12, <1>13, ApartLoop
  <1> QED
    BY <1>1, <1>14 DEF taken, own

-----------------------------------------------------------------------------
(* The specification without some of its nodes.                            *)

\* q: the first i definitions but those named in S.
Kept(q, nodes, i, S) ==
  /\ q \in Seq(Range(nodes))
  /\ \A k \in 1 .. Len(q) : \E j \in 1 .. i : q[k] = nodes[j] /\ nodes[j].name \notin S
  /\ \A j \in 1 .. i : nodes[j].name \notin S => \E k \in 1 .. Len(q) : q[k] = nodes[j]
  /\ \A k, l \in 1 .. Len(q) : q[k].name = q[l].name => k = l

LEMMA KeptStep ==
    ASSUME NEW nodes, NEW N \in Nat, DOMAIN nodes = 1 .. N, NEW S,
           \A i, j \in 1 .. N : nodes[i].name = nodes[j].name => i = j,
           NEW i \in 1 .. N, NEW q, Kept(q, nodes, i - 1, S)
    PROVE  Kept(IF nodes[i].name \in S THEN q ELSE Append(q, nodes[i]), nodes, i, S)
  <1>0. \A j \in 1 .. i : j = i \/ j \in 1 .. i - 1
    OBVIOUS
  <1>00. \A j \in 1 .. i - 1 : j \in 1 .. i
    OBVIOUS
  <1>1. CASE nodes[i].name \in S
    <2>1. \A j \in 1 .. i : nodes[j].name \notin S => j \in 1 .. i - 1
      BY <1>0, <1>1
    <2>2. Kept(q, nodes, i, S)
      BY <1>00, <2>1 DEF Kept
    <2> QED
      BY <1>1, <2>2
  <1>2. CASE nodes[i].name \notin S
    <2> DEFINE d == nodes[i]
               r == Append(q, d)
               L == Len(q)
    <2>1. d \in Range(nodes)
      BY DEF Range
    <2>2. q \in Seq(Range(nodes)) /\ L \in Nat
      BY DEF Kept
    <2>3. r \in Seq(Range(nodes)) /\ Len(r) = L + 1 /\ r[L + 1] = d /\ \A k \in 1 .. L : r[k] = q[k]
      BY <2>1, <2>2
    <2>4. \A k \in 1 .. L + 1 : k = L + 1 \/ k \in 1 .. L
      BY <2>2
    <2> HIDE DEF r, L
    <2>5. ASSUME NEW k \in 1 .. L PROVE q[k].name # d.name
      <3>1. PICK j \in 1 .. i - 1 : q[k] = nodes[j]
        BY DEF Kept, L
      <3> QED
        BY <3>1
    <2>6. \A k \in 1 .. Len(r) : \E j \in 1 .. i : r[k] = nodes[j] /\ nodes[j].name \notin S
      <3> SUFFICES ASSUME NEW k \in 1 .. L + 1 PROVE \E j \in 1 .. i : r[k] = nodes[j] /\ nodes[j].name \notin S
        BY <2>3
      <3>1. CASE k = L + 1
        BY <1>2, <2>3, <3>1
      <3>2. CASE k \in 1 .. L
        BY <1>00, <2>3, <3>2 DEF Kept, L
      <3> QED
        BY <2>4, <3>1, <3>2
    <2>7. \A j \in 1 .. i : nodes[j].name \notin S => \E k \in 1 .. Len(r) : r[k] = nodes[j]
      <3> SUFFICES ASSUME NEW j \in 1 .. i, nodes[j].name \notin S PROVE \E k \in 1 .. L + 1 : r[k] = nodes[j]
        BY <2>3
      <3>1. CASE j = i
        BY <2>2, <2>3, <3>1
      <3>2. CASE j \in 1 .. i - 1
        <4>1. PICK k \in 1 .. L : q[k] = nodes[j]
          BY <3>2 DEF Kept, L
        <4> QED
          BY <2>2, <2>3, <4>1
      <3> QED
        BY <1>0, <3>1, <3>2
    <2>8. \A k, l \in 1 .. Len(r) : r[k].name = r[l].name => k = l
      <3> SUFFICES ASSUME NEW k \in 1 .. L + 1, NEW l \in 1 .. L + 1, r[k].name = r[l].name PROVE k = l
        BY <2>3
      <3>1. CASE k \in 1 .. L /\ l \in 1 .. L
        <4>1. q[k].name = q[l].name
          BY <2>3, <3>1
        <4> QED
          BY <3>1, <4>1 DEF Kept, L
      <3> QED
        BY <2>3, <2>4, <2>5, <3>1
    <2>9. Kept(r, nodes, i, S)
      BY <2>3, <2>6, <2>7, <2>8 DEF Kept
    <2> QED
      BY <1>2, <2>9 DEF r
  <1> QED
    BY <1>1, <1>2

LEMMA WithoutKept ==
    ASSUME NEW spec, Wellformed(spec), NEW S
    PROVE  \E q : /\ Without(spec, S) = [spec EXCEPT !.nodes = q]
                  /\ Kept(q, spec.nodes, Len(spec.nodes), S)
  <1> DEFINE nodes == spec.nodes
             N == Len(nodes)
             D == Seq(Range(nodes))
             next(i, q) == IF nodes[i].name \in S THEN q ELSE Append(q, nodes[i])
             Equation(h) == h = [i \in 0 .. N |-> IF i = 0 THEN <<>> ELSE next(i, h[i - 1])]
             step == [x \in (1 .. N) \X D |-> next(x[1], x[2])]
             kept == CHOOSE h : Equation(h)
  <1>1. Without(spec, S) = [spec EXCEPT !.nodes = kept[N]]
    BY DEF Without
  <1>2. N \in Nat /\ DOMAIN nodes = 1 .. N /\ \A i, j \in 1 .. N : nodes[i].name = nodes[j].name => i = j
    BY DEF Wellformed
  <1> HIDE DEF nodes, N
  <1>3. ASSUME NEW i \in 1 .. N, NEW q \in D PROVE next(i, q) \in D
    <2>1. nodes[i] \in Range(nodes)
      BY <1>2 DEF Range
    <2> QED
      BY <2>1
  <1>4. <<>> \in D
    OBVIOUS
  <1>5. \A i \in 1 .. N : \A q : Kept(q, nodes, i - 1, S) => Kept(next(i, q), nodes, i, S)
    BY <1>2, KeptStep
  <1> HIDE DEF next
  <1>6. step \in [(1 .. N) \X D -> D] /\ \A i \in 1 .. N, q \in D : step[<<i, q>>] = next(i, q)
    BY <1>3
  <1>7. Kept(<<>>, nodes, 0, S)
    BY <1>4 DEF Kept
  <1> HIDE DEF step, D
  <1>8. PICK f : Iterates(f, N, D, <<>>, step)
    BY <1>2, <1>4, <1>6, Recursion
  <1>9. Equation(f)
    <2>1. f \in [0 .. N -> D]
      BY <1>8 DEF Iterates
    <2>2. ASSUME NEW i \in 0 .. N PROVE f[i] = IF i = 0 THEN <<>> ELSE next(i, f[i - 1])
      <3>1. i # 0 => i \in 1 .. N /\ i - 1 \in 0 .. N
        BY <1>2
      <3>2. i # 0 => f[i - 1] \in D
        BY <2>1, <3>1
      <3> QED
        BY <1>6, <1>8, <3>1, <3>2 DEF Iterates
    <2> QED
      BY <2>1, <2>2
  <1>10. Equation(kept)
    BY <1>9
  <1> HIDE DEF kept
  <1> DEFINE T == {i \in 0 .. N : Kept(kept[i], nodes, i, S)}
  <1>11. 0 \in T
    BY <1>2, <1>7, <1>10
  <1>12. ASSUME NEW i \in 1 .. N, i - 1 \in T PROVE i \in T
    <2>1. kept[i] = next(i, kept[i - 1])
      BY <1>2, <1>10
    <2> QED
      BY <1>5, <1>12, <2>1
  <1> HIDE DEF T
  <1>13. \A i \in 0 .. N : i \in T
    BY <1>2, <1>11, <1>12, Induct
  <1>14. Kept(kept[N], nodes, N, S)
    BY <1>2, <1>13 DEF T
  <1> QED
    BY <1>1, <1>14 DEF nodes, N

LEMMA WithoutRest ==
    ASSUME NEW spec, Wellformed(spec), NEW S
    PROVE  LET w == Without(spec, S)
           IN /\ Wellformed(w) /\ NamesIn(w) = NamesIn(spec) \ S /\ Envelope(w) = Envelope(spec)
              /\ \A n \in NamesIn(w) : NodeIn(w, n) = NodeIn(spec, n)
  <1> DEFINE w == Without(spec, S)
             N == Len(spec.nodes)
  <1>1. PICK q : w = [spec EXCEPT !.nodes = q] /\ Kept(q, spec.nodes, N, S)
    BY WithoutKept
  <1>2. {"net", "arch", "user", "nodes"} \subseteq DOMAIN spec
    BY DEF Wellformed
  <1>3. DOMAIN w = DOMAIN spec /\ w.nodes = q /\ w.net = spec.net /\ w.arch = spec.arch /\ w.user = spec.user
    BY <1>1, <1>2
  <1>4. N \in Nat /\ DOMAIN spec.nodes = 1 .. N
    BY DEF Wellformed
  <1>5. q \in Seq(Range(spec.nodes))
    BY <1>1 DEF Kept
  <1>6. Len(q) \in Nat /\ DOMAIN q = 1 .. Len(q)
    BY <1>5
  <1> HIDE DEF w, N
  <1>7. NamesIn(w) = NamesIn(spec) \ S
    <2>1. ASSUME NEW n \in NamesIn(w) PROVE n \in NamesIn(spec) \ S
      <3>1. PICK k \in 1 .. Len(q) : n = q[k].name
        BY <1>3, <1>6 DEF NamesIn
      <3>2. PICK j \in 1 .. N : q[k] = spec.nodes[j] /\ spec.nodes[j].name \notin S
        BY <1>1 DEF Kept
      <3> QED
        BY <1>4, <3>1, <3>2 DEF NamesIn
    <2>2. ASSUME NEW n \in NamesIn(spec) \ S PROVE n \in NamesIn(w)
      <3>1. PICK j \in 1 .. N : n = spec.nodes[j].name
        BY <1>4 DEF NamesIn
      <3>2. PICK k \in 1 .. Len(q) : q[k] = spec.nodes[j]
        BY <1>1, <3>1 DEF Kept
      <3> QED
        BY <1>3, <1>6, <3>1, <3>2 DEF NamesIn
    <2> QED
      BY <2>1, <2>2
  <1>8. Wellformed(w)
    <2>1. NamesIn(w) \subseteq Names
      BY <1>7 DEF Wellformed
    <2>2. \A i, j \in 1 .. Len(q) : q[i].name = q[j].name => i = j
      BY <1>1 DEF Kept
    <2> QED
      BY <1>2, <1>3, <1>6, <2>1, <2>2 DEF Wellformed
  <1>9. Envelope(w) = Envelope(spec)
    BY <1>3 DEF Envelope
  <1>10. ASSUME NEW n \in NamesIn(w) PROVE NodeIn(w, n) = NodeIn(spec, n)
    <2>1. PICK k \in DOMAIN q : n = q[k].name
      BY <1>3 DEF NamesIn
    <2>2. PICK j \in 1 .. N : q[k] = spec.nodes[j]
      BY <1>1, <1>6, <2>1 DEF Kept
    <2>3. NodeIn(w, q[k].name) = q[k]
      BY <1>3, <1>8, <2>1, NameOfNode
    <2>4. NodeIn(spec, spec.nodes[j].name) = spec.nodes[j]
      BY <1>4, NameOfNode
    <2> QED
      BY <2>1, <2>2, <2>3, <2>4
  <1> QED
    BY <1>7, <1>8, <1>9, <1>10 DEF w

-----------------------------------------------------------------------------
(* What is resolved from an inventory.                                     *)

LEMMA ManagedIsSequence ==
    ASSUME NEW inv, IsFiniteSet(Addresses(inv))
    PROVE  \E n \in Nat : DOMAIN Managed(inv) = 1 .. n
  <1> DEFINE hosts == {a \in Addresses(inv) : ~Skipped(inv, a)}
             n == Cardinality(hosts)
  <1>1. IsFiniteSet(hosts)
    BY FS_Subset
  <1>2. n \in Nat
    BY <1>1, FS_CardinalityType
  <1>3. DOMAIN Managed(inv) = 1 .. n
    BY DEF Managed
  <1> HIDE DEF n
  <1> QED
    BY <1>2, <1>3

LEMMA NodesOfAre ==
    ASSUME NEW inv, IsFiniteSet(Addresses(inv))
    PROVE  LET nodes == NodesOf(inv)
               hosts == Managed(inv)
               control == IF AdminIP(inv) \in Range(hosts) THEN AdminIP(inv) ELSE hosts[1]
           IN /\ Len(nodes) \in Nat /\ DOMAIN nodes = 1 .. Len(nodes) /\ DOMAIN hosts = DOMAIN nodes
              /\ \A i \in DOMAIN nodes : /\ nodes[i].address = hosts[i]
                                         /\ nodes[i].control = (hosts[i] = control)
  <1> DEFINE nodes == NodesOf(inv)
             hosts == Managed(inv)
             control == IF AdminIP(inv) \in Range(hosts) THEN AdminIP(inv) ELSE hosts[1]
  <1>1. PICK n \in Nat : DOMAIN hosts = 1 .. n
    BY ManagedIsSequence
  <1>2. /\ DOMAIN nodes = DOMAIN hosts
        /\ nodes = [i \in DOMAIN hosts |-> nodes[i]]
        /\ \A i \in DOMAIN hosts : nodes[i].address = hosts[i] /\ nodes[i].control = (hosts[i] = control)
    BY DEF NodesOf
  <1> HIDE DEF nodes, hosts, control
  <1>3. nodes \in Seq(Range(nodes))
    BY <1>1, <1>2 DEF Range
  <1>4. Len(nodes) = n
    BY <1>1, <1>2, <1>3
  <1> QED
    BY <1>1, <1>2, <1>4 DEF nodes, hosts, control

LEMMA ResolvedWellformed ==
    ASSUME NEW inv \in Range(Inventories)
    PROVE  Wellformed(Resolve(inv))
  <1> DEFINE spec == Resolve(inv)
  <1>0. IsFiniteSet(Addresses(inv))
    BY InventoriesAssumption DEF IsDocument
  <1>1. NamesIn(spec) \subseteq Names
    <2>1. PICK i \in DOMAIN Inventories : inv = Inventories[i]
      BY DEF Range
    <2>2. spec = Resolved[i] /\ i \in DOMAIN Resolved
      BY <2>1 DEF Resolved, resolve
    <2> HIDE DEF spec
    <2>3. spec \in Range(Resolved)
      BY <2>2 DEF Range
    <2> QED
      BY <2>3, NamesAssumption
  <1>2. CASE Parses(inv) /\ Valid(NodesOf(inv))
    <2> DEFINE nodes == NodesOf(inv)
    <2>1. spec.nodes = nodes /\ {"net", "arch", "user", "nodes"} \subseteq DOMAIN spec
      BY <1>2 DEF Resolve
    <2>2. Len(nodes) \in Nat /\ DOMAIN nodes = 1 .. Len(nodes)
      BY <1>0, NodesOfAre
    <2>3. \A i, j \in DOMAIN nodes : nodes[i].name = nodes[j].name => i = j
      BY <1>2 DEF Valid
    <2> HIDE DEF nodes, spec
    <2>4. Wellformed(spec)
      BY <1>1, <2>1, <2>2, <2>3 DEF Wellformed
    <2> QED
      BY <2>4 DEF spec
  <1>3. CASE ~(Parses(inv) /\ Valid(NodesOf(inv)))
    <2>1. spec = Rejected
      BY <1>3 DEF Resolve
    <2>2. spec.nodes = <<>> /\ {"net", "arch", "user", "nodes"} \subseteq DOMAIN spec
      BY <2>1 DEF Rejected
    <2> HIDE DEF spec
    <2>3. Wellformed(spec)
      BY <1>1, <2>2 DEF Wellformed
    <2> QED
      BY <2>3 DEF spec
  <1> QED
    BY <1>2, <1>3

LEMMA ResolvedUsable ==
    ASSUME NEW inv, IsFiniteSet(Addresses(inv)), Resolve(inv) # Rejected
    PROVE  /\ Plannable(Resolve(inv))
           /\ Publishable(Resolve(inv))
                <=> \A d \in Range(Resolve(inv).nodes) : d.aliases \subseteq HostSyntax
  <1> DEFINE spec == Resolve(inv)
             nodes == NodesOf(inv)
             hosts == Managed(inv)
             control == IF AdminIP(inv) \in Range(hosts) THEN AdminIP(inv) ELSE hosts[1]
  <1>1. Parses(inv) /\ Valid(nodes)
    BY DEF Resolve
  <1>2. spec.nodes = nodes /\ spec.net = hosts[1][1]
    BY <1>1 DEF Resolve
  <1>3. /\ Len(nodes) \in Nat /\ DOMAIN nodes = 1 .. Len(nodes) /\ DOMAIN hosts = DOMAIN nodes
        /\ \A i \in DOMAIN nodes : nodes[i].address = hosts[i] /\ nodes[i].control = (hosts[i] = control)
    BY NodesOfAre
  <1>4. \A a, b \in Range(hosts) : a[1] = b[1]
    BY <1>1 DEF Parses
  <1> HIDE DEF spec, nodes, hosts
  <1>5. Len(nodes) \in 1 .. 20 /\ 1 \in DOMAIN hosts
    <2>1. Len(nodes) \in 1 .. 20
      BY <1>1 DEF Valid
    <2>2. DOMAIN hosts = 1 .. Len(nodes)
      BY <1>3
    <2>3. 1 \in 1 .. Len(nodes)
      <3>1. \A L \in 1 .. 20 : 1 \in 1 .. L
        OBVIOUS
      <3> QED
        BY <2>1, <3>1
    <2> QED
      BY <2>1, <2>2, <2>3
  <1>6. \A i \in DOMAIN nodes : hosts[i] \in Range(hosts)
    BY <1>3 DEF Range
  <1>7. control \in Range(hosts)
    BY <1>3, <1>5, <1>6
  <1> HIDE DEF control
  <1>8. \A i \in DOMAIN nodes : nodes[i].address[1] = spec.net /\ StaticOctet(nodes[i].address[2])
    BY <1>1, <1>2, <1>3, <1>4, <1>5, <1>6 DEF Valid
  <1>9. \A i, j \in DOMAIN nodes : i # j => nodes[i].name # nodes[j].name /\ nodes[i].address # nodes[j].address
    BY <1>1 DEF Valid
  <1>10. Cardinality({i \in DOMAIN nodes : nodes[i].control}) = 1
    <2>1. PICK c \in DOMAIN nodes : control = hosts[c]
      BY <1>3, <1>7 DEF Range
    <2>2. \A i \in DOMAIN nodes : nodes[i].control = (i = c)
      BY <1>3, <1>9, <2>1
    <2>3. {i \in DOMAIN nodes : nodes[i].control} = {c}
      BY <2>1, <2>2
    <2> QED
      BY <2>3, FS_Singleton
  <1>11. Plannable(spec)
    <2>1. \A i \in DOMAIN nodes : nodes[i].name \in LabelSyntax
      BY <1>1 DEF Valid
    <2> QED
      BY <1>2, <1>5, <1>8, <1>9, <1>10, <2>1 DEF Plannable
  <1>12. ASSUME \A d \in Range(nodes) : d.aliases \subseteq HostSyntax PROVE Publishable(spec)
    <2> SUFFICES ASSUME NEW i \in DOMAIN nodes, NEW j \in DOMAIN nodes
                 PROVE  /\ nodes[i].address[2] \in 9 .. 254
                        /\ HostNames(nodes[i]) \subseteq HostSyntax
                        /\ i # j => HostNames(nodes[i]) \cap HostNames(nodes[j]) = {}
      BY <1>2 DEF Publishable
    <2>3. nodes[i].aliases \subseteq HostSyntax
      BY <1>12 DEF Range
    <2>4. nodes[i].name \in HostSyntax
      BY <1>1, SyntaxAssumption DEF Valid
    <2>1. nodes[i].address[2] \in 9 .. 254
      BY <1>8 DEF StaticOctet
    <2>2. i # j => /\ nodes[i].name # nodes[j].name /\ nodes[i].aliases \cap nodes[j].aliases = {}
                   /\ nodes[i].name \notin nodes[j].aliases /\ nodes[j].name \notin nodes[i].aliases
      BY <1>1 DEF Valid
    <2> QED
      BY <2>1, <2>2, <2>3, <2>4 DEF HostNames
  <1>13. ASSUME Publishable(spec), NEW d \in Range(nodes) PROVE d.aliases \subseteq HostSyntax
    <2>1. PICK i \in DOMAIN nodes : d = nodes[i]
      BY <1>13 DEF Range
    <2> QED
      BY <1>2, <1>13, <2>1 DEF Publishable, HostNames
  <1> QED
    BY <1>2, <1>11, <1>12, <1>13 DEF spec

-----------------------------------------------------------------------------
(* Documents and the applied specification.                                *)

\* The nodes are those of spec, as it defines them.
Belong(nodes, spec) ==
  \A n \in Names : nodes[n].phase # "absent" =>
     /\ n \in NamesIn(spec) /\ nodes[n].def = NodeIn(spec, n) /\ nodes[n].env = Envelope(spec)

Distinct(nodes) ==
  \A m, n \in Names : m # n /\ nodes[m].phase # "absent" /\ nodes[n].phase # "absent"
                        => nodes[m].ssh # nodes[n].ssh

\* No new document, and those that stay have the same definition.
Persist(new, old) ==
  \A n \in Names : new[n].phase # "absent" =>
     old[n].phase # "absent" /\ new[n].def = old[n].def /\ new[n].env = old[n].env

SamePorts(new, old) == \A n \in Names : new[n].phase # "absent" => new[n].ssh = old[n].ssh

LEMMA Updated ==
    ASSUME NEW d, Document(d), d.phase # "absent", NEW ssh, NEW phase
    PROVE  LET e == [d EXCEPT !.ssh = ssh, !.phase = phase]
               f == [d EXCEPT !.phase = phase]
           IN /\ e.ssh = ssh /\ e.phase = phase /\ e.def = d.def /\ e.env = d.env
              /\ f.ssh = d.ssh /\ f.phase = phase /\ f.def = d.def /\ f.env = d.env
  <1>1. d = [phase |-> d.phase, def |-> d.def, env |-> d.env, runtime |-> d.runtime, ssh |-> d.ssh]
    BY DEF Document, NoNode
  <1>2. DOMAIN d = {"phase", "def", "env", "runtime", "ssh"}
    BY <1>1
  <1> DEFINE f == [d EXCEPT !.phase = phase]
             g == [d EXCEPT !.ssh = ssh]
             h == [g EXCEPT !.phase = phase]
  <1>3. f.ssh = d.ssh /\ f.phase = phase /\ f.def = d.def /\ f.env = d.env
    BY <1>2
  <1>4. g.ssh = ssh /\ g.def = d.def /\ g.env = d.env /\ DOMAIN g = DOMAIN d
    BY <1>2
  <1>5. [d EXCEPT !.ssh = ssh, !.phase = phase] = h
    BY <1>2
  <1> HIDE DEF g
  <1>6. h.ssh = g.ssh /\ h.phase = phase /\ h.def = g.def /\ h.env = g.env
    BY <1>2, <1>4
  <1> QED
    BY <1>3, <1>4, <1>5, <1>6

LEMMA StoppedKept ==
    ASSUME NEW nodes, NEW S, Documents(nodes)
    PROVE  Persist(Stopped(nodes, S), nodes) /\ SamePorts(Stopped(nodes, S), nodes)
  <1> DEFINE new == Stopped(nodes, S)
  <1>1. ASSUME NEW n \in Names, new[n].phase # "absent"
        PROVE  /\ nodes[n].phase # "absent" /\ new[n].def = nodes[n].def /\ new[n].env = nodes[n].env
               /\ new[n].ssh = nodes[n].ssh
    <2>1. CASE n \in S /\ nodes[n].phase = "running"
      <3>1. new[n] = [nodes[n] EXCEPT !.phase = "stopped"]
        BY <2>1 DEF Stopped
      <3>2. Document(nodes[n]) /\ nodes[n].phase # "absent"
        BY <2>1 DEF Documents
      <3> QED
        BY <3>1, <3>2, Updated
    <2>2. CASE ~(n \in S /\ nodes[n].phase = "running")
      <3>1. new[n] = nodes[n]
        BY <2>2 DEF Stopped
      <3> QED
        BY <1>1, <3>1
    <2> QED
      BY <2>1, <2>2
  <1> QED
    BY <1>1 DEF Persist, SamePorts

LEMMA DestroyedKept ==
    ASSUME NEW nodes, NEW S
    PROVE  /\ Persist(Destroyed(nodes, S), nodes) /\ SamePorts(Destroyed(nodes, S), nodes)
           /\ \A n \in Names : Destroyed(nodes, S)[n].phase # "absent" => n \notin S
  BY DEF Destroyed, NoNode, Persist, SamePorts

LEMMA StartedNode ==
    ASSUME NEW nodes, NEW spec, NEW S, NEW failing, Documents(nodes), NEW n \in Names
    PROVE  LET starting == {m \in S : nodes[m].phase = "stopped"}
               port == Repair(nodes, spec, starting)
               new == Started(nodes, spec, S, failing)
           IN \/ new[n] = nodes[n]
              \/ /\ nodes[n].phase # "absent" /\ n \in starting /\ port[n] # 0 /\ new[n].ssh = port[n]
                 /\ new[n].def = nodes[n].def /\ new[n].env = nodes[n].env
  <1> DEFINE starting == {m \in S : nodes[m].phase = "stopped"}
             port == Repair(nodes, spec, starting)
             new == Started(nodes, spec, S, failing)
             phase == IF n \in failing THEN "stopped" ELSE "running"
  <1>1. CASE n \notin starting \/ port[n] = 0
    <2>1. new[n] = nodes[n]
      BY <1>1 DEF Started
    <2> QED
      BY <2>1
  <1>2. CASE ~(n \notin starting \/ port[n] = 0)
    <2>1. new[n] = [nodes[n] EXCEPT !.ssh = port[n], !.phase = phase]
      BY <1>2 DEF Started
    <2>2. Document(nodes[n]) /\ nodes[n].phase # "absent"
      BY <1>2 DEF Documents
    <2> HIDE DEF port, new, phase
    <2>3. new[n].ssh = port[n] /\ new[n].def = nodes[n].def /\ new[n].env = nodes[n].env
      BY <2>1, <2>2, Updated
    <2> QED
      BY <1>2, <2>2, <2>3 DEF port, new
  <1> QED
    BY <1>1, <1>2

LEMMA StartedKept ==
    ASSUME NEW nodes, NEW spec, NEW S, NEW failing, Documents(nodes)
    PROVE  Persist(Started(nodes, spec, S, failing), nodes)
  <1> DEFINE starting == {m \in S : nodes[m].phase = "stopped"}
             port == Repair(nodes, spec, starting)
             new == Started(nodes, spec, S, failing)
  <1>1. ASSUME NEW n \in Names
        PROVE  \/ new[n] = nodes[n]
               \/ nodes[n].phase # "absent" /\ new[n].def = nodes[n].def /\ new[n].env = nodes[n].env
    <2>1. \/ new[n] = nodes[n]
          \/ /\ nodes[n].phase # "absent" /\ n \in starting /\ port[n] # 0 /\ new[n].ssh = port[n]
             /\ new[n].def = nodes[n].def /\ new[n].env = nodes[n].env
      BY StartedNode
    <2> HIDE DEF port, starting, new
    <2> QED
      BY <2>1
  <1> HIDE DEF new
  <1>2. Persist(new, nodes)
    BY <1>1 DEF Persist
  <1> QED
    BY <1>2 DEF new

LEMMA KeptBelong ==
    ASSUME NEW old, NEW new, NEW spec, Belong(old, spec), Persist(new, old)
    PROVE  Belong(new, spec)
  BY DEF Belong, Persist

LEMMA KeptDistinct ==
    ASSUME NEW old, NEW new, Distinct(old), Persist(new, old), SamePorts(new, old)
    PROVE  Distinct(new)
  BY DEF Distinct, Persist, SamePorts

LEMMA StartedDistinct ==
    ASSUME NEW nodes, NEW spec, NEW S, NEW failing, Wellformed(spec), Documents(nodes), Distinct(nodes),
           \A n \in Names : nodes[n].phase # "absent" => n \in NamesIn(spec)
    PROVE  Distinct(Started(nodes, spec, S, failing))
  <1> DEFINE starting == {m \in S : nodes[m].phase = "stopped"}
             port == Repair(nodes, spec, starting)
             new == Started(nodes, spec, S, failing)
             taken == Reserved(nodes, NamesIn(spec)) \cup Bound(nodes)
             own == Owned(nodes, spec)
  <1>1. Apart(port, taken, own)
    BY RepairApart DEF Distinct
  <1>2. \A n \in Names : nodes[n].phase # "absent" => nodes[n].ssh \in taken /\ own[n] = nodes[n].ssh
    BY DEF Reserved, Owned
  <1>3. \A n \in Names : \/ new[n] = nodes[n]
                         \/ nodes[n].phase # "absent" /\ port[n] # 0 /\ new[n].ssh = port[n]
    BY StartedNode
  <1> HIDE DEF port, new, taken, own
  <1>4. ASSUME NEW m \in Names, NEW n \in Names, m # n, nodes[m].phase # "absent", nodes[n].phase # "absent", port[m] # 0
        PROVE  port[m] # nodes[n].ssh
    <2>1. port[m] = nodes[m].ssh \/ port[m] \notin taken
      BY <1>1, <1>2, <1>4 DEF Apart
    <2> QED
      BY <1>2, <1>4, <2>1 DEF Distinct
  <1>5. ASSUME NEW m \in Names, NEW n \in Names, m # n, new[m].phase # "absent", new[n].phase # "absent"
        PROVE  new[m].ssh # new[n].ssh
    <2>1. nodes[m].phase # "absent" /\ nodes[n].phase # "absent"
      BY <1>3, <1>5
    <2>2. CASE new[m] = nodes[m] /\ new[n] = nodes[n]
      BY <1>5, <2>1, <2>2 DEF Distinct
    <2>3. CASE new[m] = nodes[m] /\ port[n] # 0 /\ new[n].ssh = port[n]
      BY <1>4, <1>5, <2>1, <2>3
    <2>4. CASE port[m] # 0 /\ new[m].ssh = port[m] /\ new[n] = nodes[n]
      BY <1>4, <1>5, <2>1, <2>4
    <2>5. CASE port[m] # 0 /\ new[m].ssh = port[m] /\ port[n] # 0 /\ new[n].ssh = port[n]
      BY <1>1, <1>5, <2>5 DEF Apart
    <2> QED
      BY <1>3, <2>2, <2>3, <2>4, <2>5
  <1> QED
    BY <1>5 DEF Distinct, new

-----------------------------------------------------------------------------
(* The invariant of what is applied.                                       *)

Accepted == desired \in DOMAIN Inventories /\ wanted = Resolved[desired]

\* A command works with a specification that was resolved.
Planned ==
  job # NoJob =>
    /\ {"step", "spec", "sel"} \subseteq DOMAIN job
    /\ Wellformed(job.spec) /\ job.sel \subseteq NamesIn(job.spec)

Applied == Wellformed(persisted) /\ Accepted /\ Planned /\ Belong(node, persisted) /\ Distinct(node)

LEMMA AcceptedResolved ==
    ASSUME Accepted
    PROVE  Wellformed(wanted) /\ AcceptedIsUsable
  <1> DEFINE inv == Inventories[desired]
  <1>1. inv \in Range(Inventories) /\ wanted = Resolve(inv)
    BY DEF Accepted, Resolved, resolve, Range
  <1>2. IsFiniteSet(Addresses(inv))
    BY <1>1, InventoriesAssumption DEF IsDocument
  <1> HIDE DEF inv
  <1>3. Wellformed(wanted)
    BY <1>1, ResolvedWellformed
  <1>4. wanted # Rejected =>
          /\ Plannable(wanted)
          /\ Publishable(wanted) <=> \A d \in Range(wanted.nodes) : d.aliases \subseteq HostSyntax
    BY <1>1, <1>2, ResolvedUsable
  <1> QED
    BY <1>3, <1>4 DEF AcceptedIsUsable

LEMMA NothingApplied == NamesIn(NoSpec) = {} /\ Wellformed(NoSpec)
  <1>1. NoSpec.nodes = <<>> /\ {"net", "arch", "user", "nodes"} \subseteq DOMAIN NoSpec
    BY DEF NoSpec, Rejected
  <1>2. NamesIn(NoSpec) = {}
    BY <1>1 DEF NamesIn
  <1> QED
    BY <1>1, <1>2 DEF Wellformed

LEMMA AppliedState ==
    ASSUME Planned', Accepted, UNCHANGED <<desired, wanted>>,
           NEW nodes, node' = nodes, NEW spec, persisted' = spec,
           Wellformed(spec), Belong(nodes, spec), Distinct(nodes)
    PROVE  Applied'
  <1>1. Accepted'
    BY DEF Accepted
  <1>2. Wellformed(persisted)'
    BY DEF Wellformed, NamesIn
  <1>3. Belong(node, persisted)'
    BY DEF Belong, NamesIn, NodeIn, Envelope
  <1>4. Distinct(node)'
    BY DEF Distinct
  <1> QED
    BY <1>1, <1>2, <1>3, <1>4 DEF Applied

\* Commands that leave the applied specification as it is.
LEMMA AppliedNodes ==
    ASSUME Applied, Documents(node), Planned', UNCHANGED <<desired, wanted>>, persisted' = persisted,
           \/ node' = node
           \/ \E S : node' = Stopped(node, S)
           \/ \E S : node' = Destroyed(node, S)
           \/ \E S, R : node' = Destroyed(Stopped(node, S), R)
           \/ \E S, failing : node' = Started(node, persisted, S, failing)
           \/ \E S, failing : node' = Started(Stopped(node, S), persisted, S, failing)
    PROVE  Applied'
  <1>0. /\ Wellformed(persisted) /\ Accepted /\ Belong(node, persisted) /\ Distinct(node)
        /\ \A n \in Names : node[n].phase # "absent" => n \in NamesIn(persisted)
    BY DEF Applied, Belong
  <1>1. ASSUME NEW nodes, node' = nodes, Belong(nodes, persisted), Distinct(nodes) PROVE Applied'
    BY <1>0, <1>1, AppliedState
  <1>2. CASE node' = node
    BY <1>0, <1>1, <1>2
  <1>3. ASSUME NEW S, node' = Stopped(node, S) PROVE Applied'
    BY <1>0, <1>1, <1>3, StoppedKept, KeptBelong, KeptDistinct
  <1>4. ASSUME NEW S, node' = Destroyed(node, S) PROVE Applied'
    BY <1>0, <1>1, <1>4, DestroyedKept, KeptBelong, KeptDistinct
  <1>5. ASSUME NEW S, NEW R, node' = Destroyed(Stopped(node, S), R) PROVE Applied'
    <2> DEFINE old == Stopped(node, S)
    <2>1. Belong(old, persisted) /\ Distinct(old)
      BY <1>0, StoppedKept, KeptBelong, KeptDistinct
    <2> HIDE DEF old
    <2>2. Belong(Destroyed(old, R), persisted) /\ Distinct(Destroyed(old, R))
      BY <2>1, DestroyedKept, KeptBelong, KeptDistinct
    <2> QED
      BY <1>1, <1>5, <2>2 DEF old
  <1>6. ASSUME NEW S, NEW failing, NEW old, Documents(old), Belong(old, persisted), Distinct(old),
               node' = Started(old, persisted, S, failing)
        PROVE  Applied'
    <2> DEFINE new == Started(old, persisted, S, failing)
    <2>1. \A n \in Names : old[n].phase # "absent" => n \in NamesIn(persisted)
      BY <1>6 DEF Belong
    <2>2. Persist(new, old)
      BY <1>6, StartedKept
    <2>3. Distinct(new)
      BY <1>0, <1>6, <2>1, StartedDistinct
    <2> HIDE DEF new
    <2>4. Belong(new, persisted)
      BY <1>6, <2>2, KeptBelong
    <2> QED
      BY <1>1, <1>6, <2>3, <2>4 DEF new
  <1>7. ASSUME NEW S, NEW failing, node' = Started(node, persisted, S, failing) PROVE Applied'
    BY <1>0, <1>6, <1>7
  <1>8. ASSUME NEW S, NEW failing, node' = Started(Stopped(node, S), persisted, S, failing) PROVE Applied'
    <2>1. Documents(Stopped(node, S))
      BY StoppedDocuments
    <2>2. Belong(Stopped(node, S), persisted) /\ Distinct(Stopped(node, S))
      BY <1>0, StoppedKept, KeptBelong, KeptDistinct
    <2> QED
      BY <1>6, <1>8, <2>1, <2>2
  <1> QED
    BY <1>2, <1>3, <1>4, <1>5, <1>7, <1>8

\* The last of the nodes takes the specification with it, others their share.
LEMMA DestroyApplied ==
    ASSUME Applied, Documents(node), Planned', UNCHANGED <<desired, wanted>>, NEW S,
           node' = Destroyed(node, S) \/ node' = Destroyed(Stopped(node, S), S),
           persisted' = IF S = NamesIn(persisted) THEN NoSpec ELSE Without(persisted, S)
    PROVE  Applied'
  <1>0. Wellformed(persisted) /\ Accepted /\ Belong(node, persisted) /\ Distinct(node)
    BY DEF Applied
  <1>1. ASSUME NEW old, Belong(old, persisted), Distinct(old), node' = Destroyed(old, S) PROVE Applied'
    <2> DEFINE new == Destroyed(old, S)
               w == IF S = NamesIn(persisted) THEN NoSpec ELSE Without(persisted, S)
    <2>1. Belong(new, persisted) /\ Distinct(new) /\ \A n \in Names : new[n].phase # "absent" => n \notin S
      BY <1>1, DestroyedKept, KeptBelong, KeptDistinct
    <2> HIDE DEF new
    <2>2. Wellformed(w) /\ Belong(new, w)
      <3>1. CASE S = NamesIn(persisted)
        <4>1. Belong(new, NoSpec)
          BY <2>1, <3>1 DEF Belong
        <4> QED
          BY <3>1, <4>1, NothingApplied
      <3>2. CASE S # NamesIn(persisted)
        <4> DEFINE u == Without(persisted, S)
        <4>1. /\ Wellformed(u) /\ NamesIn(u) = NamesIn(persisted) \ S /\ Envelope(u) = Envelope(persisted)
              /\ \A n \in NamesIn(u) : NodeIn(u, n) = NodeIn(persisted, n)
          BY <1>0, WithoutRest
        <4>2. w = u
          BY <3>2
        <4> HIDE DEF u, w
        <4>3. Belong(new, u)
          BY <2>1, <4>1 DEF Belong
        <4> QED
          BY <4>1, <4>2, <4>3
      <3> QED
        BY <3>1, <3>2
    <2>3. node' = new /\ persisted' = w
      BY <1>1 DEF new
    <2> HIDE DEF w
    <2> QED
      BY <1>0, <2>1, <2>2, <2>3, AppliedState
  <1>2. CASE node' = Destroyed(node, S)
    BY <1>0, <1>1, <1>2
  <1>3. CASE node' = Destroyed(Stopped(node, S), S)
    <2>1. Belong(Stopped(node, S), persisted) /\ Distinct(Stopped(node, S))
      BY <1>0, StoppedKept, KeptBelong, KeptDistinct
    <2> QED
      BY <1>1, <1>3, <2>1
  <1> QED
    BY <1>2, <1>3

\* What a commit does not create it has not redefined.
LEMMA CommitBelongs ==
    ASSUME Belong(node, persisted), NEW spec, Committable(spec)
    PROVE  Belong(node, spec)
  <1> SUFFICES ASSUME NEW n \in Names, node[n].phase # "absent"
               PROVE  n \in NamesIn(spec) /\ node[n].def = NodeIn(spec, n) /\ node[n].env = Envelope(spec)
    BY DEF Belong
  <1>1. n \in NamesIn(persisted) /\ node[n].def = NodeIn(persisted, n) /\ node[n].env = Envelope(persisted)
    BY DEF Belong
  <1>2. persisted # NoSpec
    BY <1>1, NothingApplied
  <1> QED
    BY <1>1, <1>2 DEF Committable, EnvelopeChanged, Stateful

LEMMA UpCreateApplied ==
    ASSUME Applied, Documents(node), job # NoJob, NEW prepared, NEW failing, UpCreate(prepared, failing)
    PROVE  Applied'
  <1> DEFINE spec == job.spec
             create == Creating(spec, job.sel)
             port == Allocate(spec, create)
             new(n) == [phase |-> "stopped", def |-> NodeIn(spec, n), env |-> Envelope(spec),
                        runtime |-> Runtime(spec), ssh |-> port[n]]
             made == [n \in Names |-> IF n \in prepared THEN new(n) ELSE node[n]]
             taken == Reserved(node, NamesIn(spec) \ create) \cup Bound(node)
             peers == Chosen(spec, job.sel) \ create
             final == Started(made, spec, prepared, failing)
  <1>0. Committable(spec)
    BY DEF UpCreate, UpRefuses
  <1>1. /\ prepared \subseteq create /\ \A n \in create : port[n] # 0
        /\ persisted' = spec /\ UNCHANGED <<desired, wanted>>
        /\ node' = final /\ job' = [job EXCEPT !.step = "peers", !.peers = peers]
    BY DEF UpCreate
  <1>2. /\ Wellformed(spec) /\ job.sel \subseteq NamesIn(spec) /\ {"step", "spec", "sel"} \subseteq DOMAIN job
        /\ Accepted /\ Belong(node, persisted) /\ Distinct(node)
    BY DEF Applied, Planned
  <1>3. /\ create \subseteq NamesIn(spec) /\ NamesIn(spec) \subseteq Names
        /\ \A n \in create : ~Stateful(n)
    BY <1>2 DEF Creating, Chosen, Wellformed
  <1>4. Apart(port, taken, NoPorts)
    BY <1>2, AllocateApart
  <1>5. Belong(node, spec)
    BY <1>0, <1>2, CommitBelongs
  <1>6. Planned'
    <2> HIDE DEF peers
    <2>1. job'.spec = spec /\ job'.sel = job.sel /\ DOMAIN job' = DOMAIN job
      BY <1>1, <1>2
    <2>2. Wellformed(job.spec)' /\ (job.sel \subseteq NamesIn(job.spec))'
      BY <1>2, <2>1 DEF Wellformed, NamesIn
    <2> QED
      BY <1>2, <2>1, <2>2 DEF Planned
  <1> HIDE DEF spec, create, port, taken, final, peers
  <1>7. \A n \in prepared : /\ new(n).phase = "stopped" /\ new(n).def = NodeIn(spec, n)
                            /\ new(n).env = Envelope(spec) /\ new(n).ssh = port[n] /\ Document(new(n))
    BY DEF Document
  <1> HIDE DEF new
  <1>8. \A n \in Names : IF n \in prepared THEN made[n] = new(n) ELSE made[n] = node[n]
    OBVIOUS
  <1> HIDE DEF made
  <1>9. Documents(made)
    BY <1>7, <1>8 DEF Documents
  <1>10. Belong(made, spec)
    BY <1>1, <1>3, <1>5, <1>7, <1>8 DEF Belong
  <1>11. \A n \in Names : node[n].phase # "absent" => node[n].ssh \in taken
    BY <1>3, <1>5 DEF Belong, taken, Reserved, Stateful
  <1>12. ASSUME NEW m \in Names, NEW n \in Names, m # n, made[m].phase # "absent", made[n].phase # "absent"
         PROVE  made[m].ssh # made[n].ssh
    <2>1. \A k \in prepared : k \in Names /\ port[k] # 0 /\ port[k] \notin taken
      BY <1>1, <1>3, <1>4 DEF Apart, NoPorts
    <2>2. CASE m \in prepared /\ n \in prepared
      BY <1>4, <1>7, <1>8, <1>12, <2>1, <2>2 DEF Apart
    <2>3. CASE m \in prepared /\ n \notin prepared
      BY <1>7, <1>8, <1>11, <1>12, <2>1, <2>3
    <2>4. CASE m \notin prepared /\ n \in prepared
      BY <1>7, <1>8, <1>11, <1>12, <2>1, <2>4
    <2>5. CASE m \notin prepared /\ n \notin prepared
      BY <1>2, <1>8, <1>12, <2>5 DEF Distinct
    <2> QED
      BY <2>2, <2>3, <2>4, <2>5
  <1>13. Distinct(made)
    BY <1>12 DEF Distinct
  <1>14. Persist(final, made)
    BY <1>9, StartedKept DEF final
  <1>15. Belong(final, spec)
    BY <1>10, <1>14, KeptBelong
  <1>16. Distinct(final)
    <2>1. \A n \in Names : made[n].phase # "absent" => n \in NamesIn(spec)
      BY <1>10 DEF Belong
    <2> QED
      BY <1>2, <1>9, <1>13, <2>1, StartedDistinct DEF final
  <1> QED
    BY <1>1, <1>2, <1>6, <1>15, <1>16, AppliedState

LEMMA NextApplied == ASSUME Applied, Documents(node), [Next]_vars PROVE Applied'
  <1>0. Wellformed(persisted) /\ Accepted /\ Planned /\ Belong(node, persisted) /\ Distinct(node)
        /\ Wellformed(wanted)
    BY AcceptedResolved DEF Applied
  <1>1. ASSUME UNCHANGED job \/ job' = NoJob PROVE Planned'
    BY <1>0, <1>1 DEF Planned, Wellformed, NamesIn
  <1>2. ASSUME NEW sel, sel \subseteq NamesIn(wanted), wanted' = wanted, NEW by,
               job' = [step |-> "up", by |-> by, spec |-> wanted, sel |-> sel, peers |-> {}]
        PROVE  Planned'
    <2>1. job'.spec = wanted /\ job'.sel = sel /\ {"step", "spec", "sel"} \subseteq DOMAIN job'
      BY <1>2
    <2> QED
      BY <1>0, <1>2, <2>1 DEF Planned, Wellformed, NamesIn
  <1>3. ASSUME NEW sel, Up(sel) PROVE Applied'
    <2>1. Planned'
      BY <1>2, <1>3 DEF Up
    <2> QED
      BY <1>3, <2>1, AppliedNodes DEF Up
  <1>4. ASSUME NEW sel, Stop(sel) PROVE Applied'
    <2>1. Planned'
      BY <1>1, <1>4 DEF Stop
    <2> QED
      BY <1>4, <2>1, AppliedNodes DEF Stop
  <1>5. ASSUME NEW sel, Reload(sel) PROVE Applied'
    <2>1. Planned'
      BY <1>2, <1>5 DEF Reload
    <2> QED
      BY <1>5, <2>1, AppliedNodes DEF Reload
  <1>6. ASSUME NEW sel, Recreate(sel) PROVE Applied'
    <2> DEFINE S == Chosen(persisted, sel)
    <2>1. Planned'
      BY <1>2, <1>6 DEF Recreate
    <2>2. /\ node' = Destroyed(node, S) /\ UNCHANGED <<desired, wanted>>
          /\ persisted' = IF S = NamesIn(persisted) THEN NoSpec ELSE persisted
      BY <1>6 DEF Recreate
    <2> HIDE DEF S
    <2>3. CASE S = NamesIn(persisted)
      BY <2>1, <2>2, <2>3, DestroyApplied
    <2>4. CASE S # NamesIn(persisted)
      BY <2>1, <2>2, <2>4, AppliedNodes
    <2> QED
      BY <2>3, <2>4
  <1>7. ASSUME NEW sel, NEW failing, Start(sel, failing) \/ Restart(sel, failing) PROVE Applied'
    <2> DEFINE S == Committed(Chosen(persisted, sel))
    <2>1. Planned'
      BY <1>1, <1>7 DEF Start, Restart
    <2>2. /\ persisted' = persisted /\ UNCHANGED <<desired, wanted>>
          /\ \/ node' = Started(node, persisted, S, failing)
             \/ node' = Started(Stopped(node, S), persisted, S, failing)
      BY <1>7 DEF Start, Restart
    <2> QED
      BY <2>1, <2>2, AppliedNodes
  <1>8. ASSUME NEW sel, NEW removed, Destroy(sel, removed) PROVE Applied'
    <2> DEFINE S == Chosen(persisted, sel)
    <2>1. Planned'
      BY <1>1, <1>8 DEF Destroy
    <2>2. /\ node' = Destroyed(Stopped(node, S), removed) /\ UNCHANGED <<desired, wanted>>
          /\ \/ persisted' = persisted
             \/ removed = S /\ persisted' = IF S = NamesIn(persisted) THEN NoSpec ELSE Without(persisted, S)
      BY <1>8 DEF Destroy
    <2> HIDE DEF S
    <2>3. CASE persisted' = persisted
      BY <2>1, <2>2, <2>3, AppliedNodes
    <2>4. CASE removed = S /\ persisted' = IF S = NamesIn(persisted) THEN NoSpec ELSE Without(persisted, S)
      BY <2>1, <2>2, <2>4, DestroyApplied
    <2> QED
      BY <2>2, <2>3, <2>4
  <1>9. CASE UpEnds
    <2>1. Planned'
      BY <1>1, <1>9 DEF UpEnds
    <2> QED
      BY <1>9, <2>1, AppliedNodes DEF UpEnds
  <1>10. ASSUME NEW failing, UpExisting(failing) \/ UpPeers(failing) PROVE Applied'
    <2>1. Planned'
      BY <1>1, <1>10 DEF UpExisting, UpPeers
    <2>2. /\ persisted' = persisted /\ UNCHANGED <<desired, wanted>>
          /\ \E S : node' = Started(node, persisted, S, failing)
      BY <1>10 DEF UpExisting, UpPeers
    <2> QED
      BY <2>1, <2>2, AppliedNodes
  <1>11. ASSUME NEW prepared, NEW failing, job # NoJob, UpCreate(prepared, failing) PROVE Applied'
    BY <1>11, UpCreateApplied
  <1>12. ASSUME NEW i \in DOMAIN Inventories, Edit(i) PROVE Applied'
    <2>1. Planned'
      BY <1>1, <1>12 DEF Edit
    <2>2. Accepted'
      BY <1>12 DEF Edit, Accepted
    <2>3. persisted' = persisted /\ node' = node
      BY <1>12 DEF Edit
    <2>4. Wellformed(persisted)'
      BY <1>0, <2>3 DEF Wellformed, NamesIn
    <2>5. Belong(node, persisted)' /\ Distinct(node)'
      BY <1>0, <2>3 DEF Belong, Distinct, NamesIn, NodeIn, Envelope
    <2> QED
      BY <2>1, <2>2, <2>4, <2>5 DEF Applied
  <1>13. ASSUME NEW ports, PortChange(ports) PROVE Applied'
    <2>1. Planned'
      BY <1>1, <1>13 DEF PortChange
    <2> QED
      BY <1>13, <2>1, AppliedNodes DEF PortChange
  <1>14. CASE UNCHANGED vars
    <2>1. Planned'
      BY <1>1, <1>14 DEF vars
    <2> QED
      BY <1>14, <2>1, AppliedNodes DEF vars
  <1> QED
    BY <1>3, <1>4, <1>5, <1>6, <1>7, <1>8, <1>9, <1>10, <1>11, <1>12, <1>13, <1>14 DEF Next

\* What is applied agrees with the documents of the nodes at every step of
\* every command: the specification in state.json, the definitions in node.json
\* and the management ports (manager.go, commit.go, destroy.go).
THEOREM AppliedInvariance == Spec => []Applied
  <1>1. Init => Applied
    <2> SUFFICES ASSUME Init PROVE Applied
      OBVIOUS
    <2>1. persisted = NoSpec /\ job = NoJob /\ \A n \in Names : node[n].phase = "absent"
      BY DEF Init, NoNode
    <2>2. Accepted
      BY DEF Init, Accepted
    <2> QED
      BY <2>1, <2>2, NothingApplied DEF Applied, Planned, Belong, Distinct
  <1>2. Inv => Documents(node)
    BY DEF Inv
  <1> QED
    BY <1>1, <1>2, NextApplied, Invariance, PTL DEF Spec

\* Every node with files is in the applied specification, with the definition
\* it was made from (integrationSnapshotLocked, integrations.go): whatever was
\* edited, selected, interrupted or half prepared before.
THEOREM FilesAreKnown == Spec => []AppliedIsPersisted
  <1>1. Applied => AppliedIsPersisted
    BY DEF Applied, Belong, AppliedIsPersisted, Stateful
  <1> QED
    BY <1>1, AppliedInvariance, PTL

\* No two nodes have one management port, whichever ports other programs bind
\* and in whatever order nodes are made, moved and destroyed
\* (materializeMissingNodePorts, repairManagementPort).
THEOREM PortsApart == Spec => []PortsDistinct
  <1>1. Applied => PortsDistinct
    BY DEF Applied, Distinct, PortsDistinct, Stateful
  <1> QED
    BY <1>1, AppliedInvariance, PTL

\* No inventory that Validate (file.go) accepts is refused by validateResolved
\* (plan.go) later, and validateEntries (hostconfig.go) refuses it only for an
\* alias that its own pattern does not match.
THEOREM AcceptanceSuffices == Spec => []AcceptedIsUsable
  <1>1. Applied => AcceptedIsUsable
    BY AcceptedResolved DEF Applied
  <1> QED
    BY <1>1, AppliedInvariance, PTL

-----------------------------------------------------------------------------
(* The tree of groups.                                                     *)

Grows(f, N, up, D, base, step) ==
  f \in [1 .. N -> D] /\ \A g \in 1 .. N : f[g] = IF up[g] = 0 THEN base[g] ELSE step[<<g, f[up[g]]>>]

\* There is a function that does at each group what `step` says of the parent.
LEMMA TreeRecursion ==
    ASSUME NEW N \in Nat, NEW up, \A g \in 1 .. N : up[g] \in 0 .. g - 1,
           NEW D, NEW base \in [1 .. N -> D], NEW step \in [(1 .. N) \X D -> D]
    PROVE  \E f : Grows(f, N, up, D, base, step)
  <1> DEFINE T == {n \in 0 .. N : \E f : Grows(f, n, up, D, base, step)}
  <1>1. 0 \in T
    <2>1. Grows(<<>>, 0, up, D, base, step)
      BY DEF Grows
    <2> QED
      BY <2>1
  <1>2. ASSUME NEW n \in 1 .. N, n - 1 \in T PROVE n \in T
    <2>1. PICK f : Grows(f, n - 1, up, D, base, step)
      BY <1>2
    <2> DEFINE v == IF up[n] = 0 THEN base[n] ELSE step[<<n, f[up[n]]>>]
               h == [g \in 1 .. n |-> IF g = n THEN v ELSE f[g]]
    <2>2. v \in D
      <3>1. CASE up[n] = 0
        BY <3>1
      <3>2. CASE up[n] # 0
        <4>1. up[n] \in 1 .. n - 1
          BY <3>2
        <4>2. f[up[n]] \in D
          BY <2>1, <4>1 DEF Grows
        <4> QED
          BY <3>2, <4>2
      <3> QED
        BY <3>1, <3>2
    <2>3. \A g \in 1 .. n - 1 : h[g] = f[g] /\ f[g] \in D
                                /\ f[g] = IF up[g] = 0 THEN base[g] ELSE step[<<g, f[up[g]]>>]
      BY <2>1 DEF Grows
    <2>4. h[n] = v
      OBVIOUS
    <2>5. h \in [1 .. n -> D]
      <3>1. ASSUME NEW g \in 1 .. n PROVE h[g] \in D
        <4>1. g = n \/ g \in 1 .. n - 1
          OBVIOUS
        <4> HIDE DEF h, v
        <4> QED
          BY <2>2, <2>3, <2>4, <4>1
      <3> QED
        BY <3>1
    <2> HIDE DEF h
    <2>6. ASSUME NEW g \in 1 .. n PROVE h[g] = IF up[g] = 0 THEN base[g] ELSE step[<<g, h[up[g]]>>]
      <3>1. up[g] # 0 => up[g] \in 1 .. n - 1
        OBVIOUS
      <3>2. up[g] # 0 => h[up[g]] = f[up[g]]
        BY <2>3, <3>1
      <3>3. CASE g = n
        BY <2>4, <3>2, <3>3
      <3>4. CASE g # n
        <4>1. g \in 1 .. n - 1
          BY <3>4
        <4>2. h[g] = f[g] /\ f[g] = IF up[g] = 0 THEN base[g] ELSE step[<<g, f[up[g]]>>]
          BY <2>3, <4>1
        <4> QED
          BY <3>2, <4>2
      <3> QED
        BY <3>3, <3>4
    <2>7. Grows(h, n, up, D, base, step)
      BY <2>5, <2>6 DEF Grows
    <2> QED
      BY <2>7
  <1> HIDE DEF T
  <1>3. \A n \in 0 .. N : n \in T
    BY <1>1, <1>2, Induct
  <1> QED
    BY <1>3 DEF T

LEMMA Parents ==
    ASSUME NEW inv, IsDocument(inv)
    PROVE  Len(inv) \in Nat /\ Groups(inv) = 1 .. Len(inv) /\ \A g \in Groups(inv) : inv[g].parent \in 0 .. g - 1
  BY DEF IsDocument, Groups

LEMMA DepthIs ==
    ASSUME NEW inv, IsDocument(inv)
    PROVE  \A g \in Groups(inv) :
             Depth(inv)[g] = IF inv[g].parent = 0 THEN 0 ELSE Depth(inv)[inv[g].parent] + 1
  <1> DEFINE N == Len(inv)
             up == [g \in 1 .. N |-> inv[g].parent]
             Equation(h) == h = [g \in Groups(inv) |-> IF inv[g].parent = 0 THEN 0 ELSE h[inv[g].parent] + 1]
             base == [g \in 1 .. N |-> 0]
             step == [x \in (1 .. N) \X Nat |-> x[2] + 1]
  <1>1. Depth(inv) = CHOOSE h : Equation(h)
    BY DEF Depth
  <1>2. N \in Nat /\ Groups(inv) = 1 .. N /\ \A g \in 1 .. N : inv[g].parent \in 0 .. g - 1 /\ up[g] = inv[g].parent
    BY Parents
  <1>3. base \in [1 .. N -> Nat] /\ step \in [(1 .. N) \X Nat -> Nat]
    OBVIOUS
  <1>4. \A g \in 1 .. N : base[g] = 0 /\ \A d \in Nat : step[<<g, d>>] = d + 1
    OBVIOUS
  <1> HIDE DEF up, base, step, N, Equation
  <1>5. PICK f : Grows(f, N, up, Nat, base, step)
    BY <1>2, <1>3, TreeRecursion
  <1>6. ASSUME NEW g \in 1 .. N PROVE f[g] = IF inv[g].parent = 0 THEN 0 ELSE f[inv[g].parent] + 1
    <2>1. inv[g].parent # 0 => f[inv[g].parent] \in Nat
      BY <1>2, <1>5 DEF Grows
    <2>2. f[g] = IF up[g] = 0 THEN base[g] ELSE step[<<g, f[up[g]]>>]
      BY <1>5 DEF Grows
    <2> QED
      BY <1>2, <1>4, <2>1, <2>2
  <1>7. Equation(f)
    BY <1>2, <1>5, <1>6 DEF Grows, Equation
  <1>8. Equation(Depth(inv))
    BY <1>1, <1>7
  <1> QED
    BY <1>8 DEF Equation

LEMMA ChainIs ==
    ASSUME NEW inv, IsDocument(inv)
    PROVE  \A g \in Groups(inv) :
             /\ Chain(inv)[g] = {g} \cup (IF inv[g].parent = 0 THEN {} ELSE Chain(inv)[inv[g].parent])
             /\ Chain(inv)[g] \subseteq Groups(inv)
  <1> DEFINE N == Len(inv)
             D == SUBSET (1 .. N)
             up == [g \in 1 .. N |-> inv[g].parent]
             Equation(h) == h = [g \in Groups(inv) |-> {g} \cup (IF inv[g].parent = 0 THEN {} ELSE h[inv[g].parent])]
             base == [g \in 1 .. N |-> {g}]
             step == [x \in (1 .. N) \X D |-> {x[1]} \cup x[2]]
  <1>1. Chain(inv) = CHOOSE h : Equation(h)
    BY DEF Chain
  <1>2. N \in Nat /\ Groups(inv) = 1 .. N /\ \A g \in 1 .. N : inv[g].parent \in 0 .. g - 1 /\ up[g] = inv[g].parent
    BY Parents
  <1>3. base \in [1 .. N -> D] /\ step \in [(1 .. N) \X D -> D]
    OBVIOUS
  <1>4. \A g \in 1 .. N : base[g] = {g} /\ \A d \in D : step[<<g, d>>] = {g} \cup d
    OBVIOUS
  <1> HIDE DEF up, base, step, N, D, Equation
  <1>5. PICK f : Grows(f, N, up, D, base, step)
    BY <1>2, <1>3, TreeRecursion
  <1>6. ASSUME NEW g \in 1 .. N PROVE f[g] = {g} \cup (IF inv[g].parent = 0 THEN {} ELSE f[inv[g].parent])
    <2>1. inv[g].parent # 0 => f[inv[g].parent] \in D
      BY <1>2, <1>5 DEF Grows
    <2>2. f[g] = IF up[g] = 0 THEN base[g] ELSE step[<<g, f[up[g]]>>]
      BY <1>5 DEF Grows
    <2> QED
      BY <1>2, <1>4, <2>1, <2>2
  <1>7. Equation(f)
    BY <1>2, <1>5, <1>6 DEF Grows, Equation
  <1>8. Equation(Chain(inv))
    BY <1>1, <1>7
  <1> DEFINE c == Chain(inv)
  <1>9. \A g \in 1 .. N : c[g] = {g} \cup (IF inv[g].parent = 0 THEN {} ELSE c[inv[g].parent])
    BY <1>2, <1>8 DEF Equation
  <1> HIDE DEF c
  <1>10. ASSUME NEW g \in 1 .. N PROVE c[g] \subseteq 1 .. N
    <2> DEFINE T == {n \in 0 .. N : \A e \in 1 .. n : c[e] \subseteq 1 .. N}
    <2>1. 0 \in T
      BY <1>2
    <2>2. ASSUME NEW n \in 1 .. N, n - 1 \in T PROVE n \in T
      <3>1. inv[n].parent # 0 => c[inv[n].parent] \subseteq 1 .. N
        BY <1>2, <2>2
      <3>2. c[n] \subseteq 1 .. N
        BY <1>9, <3>1
      <3>3. \A e \in 1 .. n : e = n \/ e \in 1 .. n - 1
        BY <1>2
      <3> QED
        BY <1>2, <2>2, <3>2, <3>3
    <2> HIDE DEF T
    <2>3. \A n \in 0 .. N : n \in T
      BY <1>2, <2>1, <2>2, Induct
    <2> QED
      BY <1>2, <2>3, SMTT(30) DEF T
  <1> QED
    BY <1>2, <1>9, <1>10 DEF c

-----------------------------------------------------------------------------
(* The order of the groups.                                                *)

\* at: the place in y of each group of x.
Moved(x, y, at) ==
  /\ at \in [Groups(x) -> Groups(y)]
  /\ Groups(y) = Range(at)
  /\ \A g \in Groups(x) :
       /\ y[at[g]].name = x[g].name /\ y[at[g]].vars = x[g].vars /\ y[at[g]].hosts = x[g].hosts
       /\ y[at[g]].parent = IF x[g].parent = 0 THEN 0 ELSE at[x[g].parent]

LEMMA MovedTree ==
    ASSUME NEW x, IsDocument(x), NEW y, IsDocument(y), NEW at, Moved(x, y, at)
    PROVE  \A g \in Groups(x) :
             Depth(y)[at[g]] = Depth(x)[g] /\ Chain(y)[at[g]] = {at[e] : e \in Chain(x)[g]}
  <1> DEFINE N == Len(x)
             dx == Depth(x)
             dy == Depth(y)
             cx == Chain(x)
             cy == Chain(y)
             Same(g) == dy[at[g]] = dx[g] /\ cy[at[g]] = {at[e] : e \in cx[g]}
             T == {n \in 0 .. N : \A g \in 1 .. n : Same(g)}
  <1>1. N \in Nat /\ Groups(x) = 1 .. N /\ \A g \in 1 .. N : x[g].parent \in 0 .. g - 1
    BY Parents
  <1>2. \A g \in 1 .. N : /\ dx[g] = IF x[g].parent = 0 THEN 0 ELSE dx[x[g].parent] + 1
                          /\ cx[g] = {g} \cup (IF x[g].parent = 0 THEN {} ELSE cx[x[g].parent])
    BY <1>1, DepthIs, ChainIs
  <1>3. ASSUME NEW g \in 1 .. N
        PROVE  /\ y[at[g]].parent = IF x[g].parent = 0 THEN 0 ELSE at[x[g].parent]
               /\ x[g].parent # 0 => at[x[g].parent] # 0
               /\ dy[at[g]] = IF y[at[g]].parent = 0 THEN 0 ELSE dy[y[at[g]].parent] + 1
               /\ cy[at[g]] = {at[g]} \cup (IF y[at[g]].parent = 0 THEN {} ELSE cy[y[at[g]].parent])
    <2>1. at[g] \in Groups(y) /\ y[at[g]].parent = IF x[g].parent = 0 THEN 0 ELSE at[x[g].parent]
      BY <1>1 DEF Moved
    <2>2. x[g].parent # 0 => at[x[g].parent] # 0
      <3>1. x[g].parent # 0 => x[g].parent \in Groups(x)
        BY <1>1
      <3>2. x[g].parent # 0 => at[x[g].parent] \in Groups(y)
        BY <3>1 DEF Moved
      <3> QED
        BY <3>2 DEF Groups
    <2> QED
      BY <2>1, <2>2, DepthIs, ChainIs
  <1> HIDE DEF N, dx, dy, cx, cy
  <1>4. 0 \in T
    BY <1>1
  <1>5. ASSUME NEW n \in 1 .. N, n - 1 \in T PROVE n \in T
    <2> HIDE DEF Same
    <2>0. \A g \in 1 .. n - 1 : Same(g)
      BY <1>5
    <2>1. x[n].parent # 0 => Same(x[n].parent)
      <3>1. x[n].parent # 0 => x[n].parent \in 1 .. n - 1
        BY <1>1
      <3> QED
        BY <2>0, <3>1
    <2>2. ASSUME x[n].parent = 0 PROVE Same(n)
      <3>1. cx[n] = {n} /\ dx[n] = 0
        BY <1>2, <2>2
      <3>2. cy[at[n]] = {at[n]} /\ dy[at[n]] = 0
        BY <1>3, <2>2
      <3>3. {at[e] : e \in {n}} = {at[n]}
        OBVIOUS
      <3> QED
        BY <3>1, <3>2, <3>3 DEF Same
    <2>3. ASSUME x[n].parent # 0 PROVE Same(n)
      <3> DEFINE p == x[n].parent
      <3>1. cx[n] = {n} \cup cx[p] /\ dx[n] = dx[p] + 1
        BY <1>2, <2>3
      <3>2. cy[at[n]] = {at[n]} \cup cy[at[p]] /\ dy[at[n]] = dy[at[p]] + 1
        BY <1>3, <2>3
      <3>3. Same(p)
        BY <2>1, <2>3
      <3> HIDE DEF p
      <3>4. \A C : {at[e] : e \in {n} \cup C} = {at[n]} \cup {at[e] : e \in C}
        OBVIOUS
      <3>5. dy[at[p]] = dx[p] /\ cy[at[p]] = {at[e] : e \in cx[p]}
        BY <3>3 DEF Same
      <3>6. cy[at[n]] = {at[e] : e \in {n} \cup cx[p]}
        BY <3>2, <3>4, <3>5
      <3>7. cy[at[n]] = {at[e] : e \in cx[n]}
        BY <3>1, <3>6
      <3> QED
        BY <3>1, <3>2, <3>5, <3>7 DEF Same
    <2>4. Same(n)
      BY <2>2, <2>3
    <2>5. \A g \in 1 .. n : g = n \/ g \in 1 .. n - 1
      BY <1>1
    <2>6. \A g \in 1 .. n : Same(g)
      BY <2>0, <2>4, <2>5
    <2> QED
      BY <1>1, <2>6
  <1> HIDE DEF T, Same
  <1>6. \A n \in 0 .. N : n \in T
    BY <1>1, <1>4, <1>5, Induct
  <1>7. ASSUME NEW g \in 1 .. N PROVE Same(g)
    BY <1>1, <1>6 DEF T
  <1> QED
    BY <1>1, <1>7 DEF Same, dx, dy, cx, cy

LEMMA ListingIs ==
    ASSUME NEW inv, NEW a, NEW p
    PROVE  p \in Listing(inv, a) <=>
             \E g \in Groups(inv) : \E i \in DOMAIN inv[g].hosts : p = <<g, i>> /\ inv[g].hosts[i].address = a
  <1>1. ASSUME p \in Listing(inv, a)
        PROVE  \E g \in Groups(inv) : \E i \in DOMAIN inv[g].hosts : p = <<g, i>> /\ inv[g].hosts[i].address = a
    <2>1. /\ \E g \in Groups(inv) : \E i \in DOMAIN inv[g].hosts : p = <<g, i>>
          /\ inv[p[1]].hosts[p[2]].address = a
      BY <1>1 DEF Listing
    <2>2. PICK g \in Groups(inv) : \E i \in DOMAIN inv[g].hosts : p = <<g, i>>
      BY <2>1
    <2>3. PICK i \in DOMAIN inv[g].hosts : p = <<g, i>>
      BY <2>2
    <2>4. p[1] = g /\ p[2] = i
      BY <2>3
    <2> QED
      BY <2>1, <2>3, <2>4
  <1>2. ASSUME NEW g \in Groups(inv), NEW i \in DOMAIN inv[g].hosts, p = <<g, i>>, inv[g].hosts[i].address = a
        PROVE  p \in Listing(inv, a)
    BY <1>2 DEF Listing
  <1> QED
    BY <1>1, <1>2

LEMMA MovedListing ==
    ASSUME NEW x, IsDocument(x), NEW y, IsDocument(y), NEW at, Moved(x, y, at)
    PROVE  /\ Addresses(y) = Addresses(x)
           /\ \A a : /\ \A p \in Listing(x, a) : <<at[p[1]], p[2]>> \in Listing(y, a)
                     /\ \A q \in Listing(y, a) : \E p \in Listing(x, a) : q = <<at[p[1]], p[2]>>
  <1>0. \A e \in Groups(y) : \E g \in Groups(x) : e = at[g]
    BY DEF Moved, Range
  <1>1. \A g \in Groups(x) : at[g] \in Groups(y) /\ y[at[g]].hosts = x[g].hosts
    BY DEF Moved
  <1>2. Addresses(y) = Addresses(x)
    BY <1>0, <1>1 DEF Addresses
  <1>3. ASSUME NEW a, NEW p \in Listing(x, a) PROVE <<at[p[1]], p[2]>> \in Listing(y, a)
    <2>1. PICK g \in Groups(x) : \E i \in DOMAIN x[g].hosts : p = <<g, i>> /\ x[g].hosts[i].address = a
      BY ListingIs
    <2>2. PICK i \in DOMAIN x[g].hosts : p = <<g, i>> /\ x[g].hosts[i].address = a
      BY <2>1
    <2>3. p[1] = g /\ p[2] = i
      BY <2>2
    <2> QED
      BY <1>1, <2>2, <2>3, ListingIs
  <1>4. ASSUME NEW a, NEW q \in Listing(y, a) PROVE \E p \in Listing(x, a) : q = <<at[p[1]], p[2]>>
    <2>1. PICK e \in Groups(y) : \E i \in DOMAIN y[e].hosts : q = <<e, i>> /\ y[e].hosts[i].address = a
      BY ListingIs
    <2>2. PICK i \in DOMAIN y[e].hosts : q = <<e, i>> /\ y[e].hosts[i].address = a
      BY <2>1
    <2>3. PICK g \in Groups(x) : e = at[g]
      BY <1>0
    <2>4. <<g, i>> \in Listing(x, a)
      BY <1>1, <2>2, <2>3, ListingIs
    <2>5. <<g, i>>[1] = g /\ <<g, i>>[2] = i
      OBVIOUS
    <2> QED
      BY <2>2, <2>3, <2>4, <2>5
  <1> QED
    BY <1>2, <1>3, <1>4

LEMMA MovedAncestors ==
    ASSUME NEW x, IsDocument(x), NEW y, IsDocument(y), NEW at, Moved(x, y, at), NEW a
    PROVE  Ancestors(x, a) \subseteq Groups(x) /\ Ancestors(y, a) = {at[g] : g \in Ancestors(x, a)}
  <1>1. \A p \in Listing(x, a) : p[1] \in Groups(x)
    BY DEF Listing
  <1>2. \A p \in Listing(x, a) : Chain(y)[at[p[1]]] = {at[e] : e \in Chain(x)[p[1]]} /\ Chain(x)[p[1]] \subseteq Groups(x)
    BY <1>1, MovedTree, ChainIs
  <1>3. Ancestors(x, a) \subseteq Groups(x)
    BY <1>2 DEF Ancestors
  <1>4. ASSUME NEW e \in Ancestors(y, a) PROVE \E g \in Ancestors(x, a) : e = at[g]
    <2>1. PICK q \in Listing(y, a) : e \in Chain(y)[q[1]]
      BY DEF Ancestors
    <2>2. PICK p \in Listing(x, a) : q = <<at[p[1]], p[2]>>
      BY MovedListing
    <2> QED
      BY <1>2, <2>1, <2>2 DEF Ancestors
  <1>5. ASSUME NEW g \in Ancestors(x, a) PROVE at[g] \in Ancestors(y, a)
    <2>1. PICK p \in Listing(x, a) : g \in Chain(x)[p[1]]
      BY DEF Ancestors
    <2>2. <<at[p[1]], p[2]>> \in Listing(y, a)
      BY MovedListing
    <2>3. at[g] \in Chain(y)[<<at[p[1]], p[2]>>[1]]
      BY <1>2, <2>1
    <2> QED
      BY <2>2, <2>3 DEF Ancestors
  <1> QED
    BY <1>3, <1>4, <1>5

-----------------------------------------------------------------------------
(* The variables of a host.                                                *)

\* A group the host inherits from at depth d, or its own entry in one, sets f.
GroupLayer(inv, a, d, f) ==
  \E g \in Ancestors(inv, a) : inv[g].vars = f /\ DOMAIN f # {} /\ d = Depth(inv)[g]
HostLayer(inv, a, d, f) ==
  \E p \in Listing(inv, a) : inv[p[1]].hosts[p[2]].vars = f /\ DOMAIN f # {} /\ d = HostLevel
Layer(inv, a, d, f) == GroupLayer(inv, a, d, f) \/ HostLayer(inv, a, d, f)

LEMMA AncestorsAreGroups ==
    ASSUME NEW inv, IsDocument(inv), NEW a
    PROVE  Ancestors(inv, a) \subseteq Groups(inv)
  <1>1. \A p \in Listing(inv, a) : p[1] \in Groups(inv)
    BY DEF Listing
  <1> QED
    BY <1>1, ChainIs DEF Ancestors

\* What is left out as a duplicate says nothing that is not said.
LEMMA SourcesAre ==
    ASSUME NEW inv, IsDocument(inv), OneGroup(inv), NEW a
    PROVE  /\ \A l \in Sources(inv, a) : Layer(inv, a, l.depth, l.vars)
           /\ \A d, f : Layer(inv, a, d, f) => \E l \in Sources(inv, a) : l.depth = d /\ l.vars = f
  <1> DEFINE groups == {g \in Ancestors(inv, a) : DOMAIN inv[g].vars # {}}
             places == {p \in Listing(inv, a) : DOMAIN inv[p[1]].hosts[p[2]].vars # {}}
             first(p) == \A q \in places : inv[q[1]].name = inv[p[1]].name => p[1] <= q[1]
             ofGroup(g) == [depth |-> Depth(inv)[g], at |-> g, vars |-> inv[g].vars]
             ofHost(p) == [depth |-> HostLevel, at |-> p[1], vars |-> inv[p[1]].hosts[p[2]].vars]
             G == {ofGroup(g) : g \in {g \in groups : First(inv, groups, g)}}
             H == {ofHost(p) : p \in {p \in places : first(p)}}
  <1>1. Sources(inv, a) = G \cup H
    BY DEF Sources
  <1>2. Len(inv) \in Nat /\ Groups(inv) = 1 .. Len(inv) /\ groups \subseteq Groups(inv)
    BY Parents, AncestorsAreGroups
  <1>3. ASSUME NEW l \in G PROVE Layer(inv, a, l.depth, l.vars)
    <2>1. PICK g \in groups : l = ofGroup(g)
      OBVIOUS
    <2>2. l.depth = Depth(inv)[g] /\ l.vars = inv[g].vars
      BY <2>1
    <2>3. g \in Ancestors(inv, a) /\ DOMAIN inv[g].vars # {}
      OBVIOUS
    <2> QED
      BY <2>2, <2>3 DEF Layer, GroupLayer
  <1>4. ASSUME NEW l \in H PROVE Layer(inv, a, l.depth, l.vars)
    <2>1. PICK p \in places : l = ofHost(p)
      OBVIOUS
    <2>2. l.depth = HostLevel /\ l.vars = inv[p[1]].hosts[p[2]].vars
      BY <2>1
    <2>3. p \in Listing(inv, a) /\ DOMAIN inv[p[1]].hosts[p[2]].vars # {}
      OBVIOUS
    <2> QED
      BY <2>2, <2>3 DEF Layer, HostLayer
  <1>5. ASSUME NEW d, NEW f, GroupLayer(inv, a, d, f) PROVE \E l \in G : l.depth = d /\ l.vars = f
    <2>1. PICK g \in Ancestors(inv, a) : inv[g].vars = f /\ DOMAIN f # {} /\ d = Depth(inv)[g]
      BY <1>5 DEF GroupLayer
    <2> DEFINE T == {e \in groups : inv[e].name = inv[g].name /\ Depth(inv)[e] = Depth(inv)[g]}
    <2>2. g \in T
      BY <2>1
    <2>3. T \in SUBSET Nat
      BY <1>2
    <2>4. PICK e \in T : \A x \in T : e <= x
      BY <2>2, <2>3, Least
    <2>5. e \in groups /\ inv[e].name = inv[g].name /\ Depth(inv)[e] = Depth(inv)[g]
      BY <2>4
    <2>6. First(inv, groups, e)
      BY <2>4, <2>5 DEF First
    <2>7. ofGroup(e) \in G
      BY <2>5, <2>6
    <2>8. g \in Groups(inv) /\ e \in Groups(inv)
      BY <1>2, <2>2, <2>4
    <2>9. inv[e].vars = inv[g].vars
      BY <2>5, <2>8 DEF OneGroup
    <2>10. ofGroup(e).depth = d /\ ofGroup(e).vars = f
      BY <2>1, <2>5, <2>9
    <2> QED
      BY <2>7, <2>10
  <1>6. ASSUME NEW d, NEW f, HostLayer(inv, a, d, f) PROVE \E l \in H : l.depth = d /\ l.vars = f
    <2>1. PICK p \in Listing(inv, a) : inv[p[1]].hosts[p[2]].vars = f /\ DOMAIN f # {} /\ d = HostLevel
      BY <1>6 DEF HostLayer
    <2> DEFINE T == {g \in Groups(inv) : \E q \in places : q[1] = g /\ inv[g].name = inv[p[1]].name}
    <2>2. \A q \in Listing(inv, a) : q[1] \in Groups(inv)
      BY DEF Listing
    <2>3. p[1] \in T
      BY <2>1, <2>2
    <2>4. T \in SUBSET Nat
      BY <1>2
    <2>5. PICK g \in T : \A x \in T : g <= x
      BY <2>3, <2>4, Least
    <2>6. PICK q \in places : q[1] = g /\ inv[g].name = inv[p[1]].name
      BY <2>5
    <2>7. first(q)
      BY <2>2, <2>5, <2>6
    <2>8. ofHost(q) \in H
      BY <2>6, <2>7
    <2>9. inv[q[1]].hosts = inv[p[1]].hosts
      BY <2>2, <2>6 DEF OneGroup
    <2>10. q[2] = p[2]
      <3>1. /\ inv[q[1]].hosts[q[2]].address = a /\ q[2] \in DOMAIN inv[q[1]].hosts
        <4>1. PICK e \in Groups(inv) : \E i \in DOMAIN inv[e].hosts : q = <<e, i>> /\ inv[e].hosts[i].address = a
          BY <2>6, ListingIs
        <4>2. PICK i \in DOMAIN inv[e].hosts : q = <<e, i>> /\ inv[e].hosts[i].address = a
          BY <4>1
        <4>3. q[1] = e /\ q[2] = i
          BY <4>2
        <4> QED
          BY <4>2, <4>3
      <3>2. /\ inv[p[1]].hosts[p[2]].address = a /\ p[2] \in DOMAIN inv[p[1]].hosts
        <4>1. PICK e \in Groups(inv) : \E i \in DOMAIN inv[e].hosts : p = <<e, i>> /\ inv[e].hosts[i].address = a
          BY <2>1, ListingIs
        <4>2. PICK i \in DOMAIN inv[e].hosts : p = <<e, i>> /\ inv[e].hosts[i].address = a
          BY <4>1
        <4>3. p[1] = e /\ p[2] = i
          BY <4>2
        <4> QED
          BY <4>2, <4>3
      <3>3. p[1] \in Groups(inv)
        BY <2>2
      <3> QED
        BY <2>9, <3>1, <3>2, <3>3 DEF IsDocument
    <2>11. ofHost(q).depth = d /\ ofHost(q).vars = f
      BY <2>1, <2>9, <2>10
    <2> QED
      BY <2>8, <2>11
  <1> HIDE DEF G, H
  <1> QED
    BY <1>1, <1>3, <1>4, <1>5, <1>6 DEF Layer

LEMMA WinningIs ==
    ASSUME NEW inv, IsDocument(inv), OneGroup(inv), NEW a, NEW key, NEW v
    PROVE  v \in Winning(inv, a, key) <=>
             \E d, f : /\ Layer(inv, a, d, f) /\ key \in DOMAIN f /\ v = f[key]
                       /\ \A e, h : Layer(inv, a, e, h) /\ key \in DOMAIN h => e <= d
  <1> DEFINE S == Sources(inv, a)
             layers == {l \in S : key \in DOMAIN l.vars}
             top == {l \in layers : \A e \in layers : e.depth <= l.depth}
  <1>1. Winning(inv, a, key) = {l.vars[key] : l \in top}
    BY DEF Winning
  <1>2. /\ \A l \in S : Layer(inv, a, l.depth, l.vars)
        /\ \A d, f : Layer(inv, a, d, f) => \E l \in S : l.depth = d /\ l.vars = f
    BY SourcesAre
  <1> HIDE DEF S
  <1>3. ASSUME v \in Winning(inv, a, key)
        PROVE  \E d, f : /\ Layer(inv, a, d, f) /\ key \in DOMAIN f /\ v = f[key]
                         /\ \A e, h : Layer(inv, a, e, h) /\ key \in DOMAIN h => e <= d
    <2>1. PICK l \in top : v = l.vars[key]
      BY <1>1, <1>3
    <2>2. l \in S /\ key \in DOMAIN l.vars /\ \A e \in S : key \in DOMAIN e.vars => e.depth <= l.depth
      OBVIOUS
    <2>3. Layer(inv, a, l.depth, l.vars)
      BY <1>2, <2>2
    <2>4. \A e, h : Layer(inv, a, e, h) /\ key \in DOMAIN h => e <= l.depth
      BY <1>2, <2>2
    <2> QED
      BY <2>1, <2>2, <2>3, <2>4
  <1>4. ASSUME NEW d, NEW f, Layer(inv, a, d, f), key \in DOMAIN f, v = f[key],
               \A e, h : Layer(inv, a, e, h) /\ key \in DOMAIN h => e <= d
        PROVE  v \in Winning(inv, a, key)
    <2>1. PICK l \in S : l.depth = d /\ l.vars = f
      BY <1>2, <1>4
    <2>2. \A e \in layers : e.depth <= l.depth
      BY <1>2, <1>4, <2>1
    <2>3. l \in top
      BY <1>4, <2>1, <2>2
    <2> QED
      BY <1>1, <1>4, <2>1, <2>3
  <1> QED
    BY <1>3, <1>4

LEMMA LayersMoved ==
    ASSUME NEW x, IsDocument(x), NEW y, IsDocument(y), NEW at, Moved(x, y, at), NEW a, NEW d, NEW f
    PROVE  Layer(x, a, d, f) <=> Layer(y, a, d, f)
  <1>1. /\ Ancestors(x, a) \subseteq Groups(x) /\ \A p \in Listing(x, a) : p[1] \in Groups(x)
        /\ \A g \in Ancestors(x, a) : at[g] \in Ancestors(y, a)
        /\ \A e \in Ancestors(y, a) : \E g \in Ancestors(x, a) : e = at[g]
    BY MovedAncestors DEF Listing
  <1>2. \A g \in Groups(x) : y[at[g]].vars = x[g].vars /\ y[at[g]].hosts = x[g].hosts /\ Depth(y)[at[g]] = Depth(x)[g]
    BY MovedTree DEF Moved
  <1>3. GroupLayer(x, a, d, f) <=> GroupLayer(y, a, d, f)
    BY <1>1, <1>2 DEF GroupLayer
  <1>4. ASSUME HostLayer(x, a, d, f) PROVE HostLayer(y, a, d, f)
    <2>1. PICK p \in Listing(x, a) : x[p[1]].hosts[p[2]].vars = f /\ DOMAIN f # {} /\ d = HostLevel
      BY <1>4 DEF HostLayer
    <2> DEFINE q == <<at[p[1]], p[2]>>
    <2>2. q \in Listing(y, a)
      BY MovedListing
    <2>3. q[1] = at[p[1]] /\ q[2] = p[2]
      OBVIOUS
    <2> HIDE DEF q
    <2>4. y[q[1]].hosts[q[2]].vars = f
      BY <1>1, <1>2, <2>1, <2>3
    <2> QED
      BY <2>1, <2>2, <2>4 DEF HostLayer
  <1>5. ASSUME HostLayer(y, a, d, f) PROVE HostLayer(x, a, d, f)
    <2>1. PICK q \in Listing(y, a) : y[q[1]].hosts[q[2]].vars = f /\ DOMAIN f # {} /\ d = HostLevel
      BY <1>5 DEF HostLayer
    <2>2. PICK p \in Listing(x, a) : q = <<at[p[1]], p[2]>>
      BY MovedListing
    <2>3. q[1] = at[p[1]] /\ q[2] = p[2]
      BY <2>2
    <2>4. x[p[1]].hosts[p[2]].vars = f
      BY <1>1, <1>2, <2>1, <2>3
    <2> QED
      BY <2>1, <2>2, <2>4 DEF HostLayer
  <1> QED
    BY <1>3, <1>4, <1>5 DEF Layer

LEMMA WinningMoved ==
    ASSUME NEW x, IsDocument(x), OneGroup(x), NEW y, IsDocument(y), NEW at, Moved(x, y, at)
    PROVE  \A a, key : Winning(x, a, key) = Winning(y, a, key)
  <1>1. OneGroup(y)
    <2> SUFFICES ASSUME NEW g \in Groups(y), NEW e \in Groups(y), y[g].name = y[e].name
                 PROVE  y[g].vars = y[e].vars /\ y[g].hosts = y[e].hosts
      BY DEF OneGroup
    <2>1. PICK i \in Groups(x), j \in Groups(x) : g = at[i] /\ e = at[j]
      BY DEF Moved, Range
    <2> QED
      BY <2>1 DEF Moved, OneGroup
  <1>2. ASSUME NEW a, NEW key, NEW v PROVE v \in Winning(x, a, key) <=> v \in Winning(y, a, key)
    <2>1. \A d, f : Layer(x, a, d, f) <=> Layer(y, a, d, f)
      BY LayersMoved
    <2> QED
      BY <1>1, <2>1, WinningIs
  <1>3. ASSUME NEW a, NEW key PROVE Winning(x, a, key) = Winning(y, a, key)
    BY <1>2
  <1> QED
    BY <1>3

-----------------------------------------------------------------------------
(* The managed hosts are listed once each.                                 *)

LEMMA ListingPairs ==
    ASSUME NEW inv, IsDocument(inv), NEW a
    PROVE  \A p \in Listing(inv, a) :
             /\ p[1] \in Groups(inv) /\ p[1] \in Nat /\ p[2] \in Nat /\ p[2] \in DOMAIN inv[p[1]].hosts
             /\ p = <<p[1], p[2]>> /\ inv[p[1]].hosts[p[2]].address = a
  <1> SUFFICES ASSUME NEW p \in Listing(inv, a)
               PROVE  /\ p[1] \in Groups(inv) /\ p[1] \in Nat /\ p[2] \in Nat /\ p[2] \in DOMAIN inv[p[1]].hosts
                      /\ p = <<p[1], p[2]>> /\ inv[p[1]].hosts[p[2]].address = a
    OBVIOUS
  <1>1. PICK g \in Groups(inv) : \E i \in DOMAIN inv[g].hosts : p = <<g, i>> /\ inv[g].hosts[i].address = a
    BY ListingIs
  <1>2. PICK i \in DOMAIN inv[g].hosts : p = <<g, i>> /\ inv[g].hosts[i].address = a
    BY <1>1
  <1>3. p[1] = g /\ p[2] = i
    BY <1>2
  <1>4. g \in Nat
    BY Parents
  <1>5. i \in Nat
    BY <1>1, <1>2 DEF IsDocument
  <1> QED
    BY <1>2, <1>3, <1>4, <1>5

\* The place where a host is first named.
IsFirst(inv, a, p) == p \in Listing(inv, a) /\ \A q \in Listing(inv, a) : p = q \/ Earlier(p, q)
Place(inv, a) == CHOOSE p : IsFirst(inv, a, p)

LEMMA PlaceIs ==
    ASSUME NEW inv, IsDocument(inv), NEW a \in Addresses(inv)
    PROVE  IsFirst(inv, a, Place(inv, a))
  <1> DEFINE T == {g \in Groups(inv) : \E p \in Listing(inv, a) : p[1] = g}
  <1>1. T # {}
    <2>1. PICK g \in Groups(inv) : \E i \in DOMAIN inv[g].hosts : inv[g].hosts[i].address = a
      BY DEF Addresses
    <2>2. PICK i \in DOMAIN inv[g].hosts : inv[g].hosts[i].address = a
      BY <2>1
    <2>3. <<g, i>> \in Listing(inv, a) /\ <<g, i>>[1] = g
      BY <2>2, ListingIs
    <2> QED
      BY <2>3
  <1>2. T \in SUBSET Nat
    BY Parents
  <1>3. PICK g \in T : \A e \in T : g <= e
    BY <1>1, <1>2, Least
  <1>4. PICK p \in Listing(inv, a) : p[1] = g
    OBVIOUS
  <1>5. ASSUME NEW q \in Listing(inv, a) PROVE p = q \/ Earlier(p, q)
    <2>1. /\ p[1] \in Groups(inv) /\ p[1] \in Nat /\ p = <<p[1], p[2]>> /\ p[2] \in DOMAIN inv[p[1]].hosts
          /\ inv[p[1]].hosts[p[2]].address = a
      BY ListingPairs
    <2>2. /\ q[1] \in Groups(inv) /\ q[1] \in Nat /\ q = <<q[1], q[2]>> /\ q[2] \in DOMAIN inv[q[1]].hosts
          /\ inv[q[1]].hosts[q[2]].address = a
      BY ListingPairs
    <2>3. p[1] <= q[1]
      BY <1>3, <1>4, <2>2
    <2>4. CASE p[1] < q[1]
      BY <2>4 DEF Earlier
    <2>5. CASE p[1] = q[1]
      <3>1. p[2] = q[2]
        BY <2>1, <2>2, <2>5 DEF IsDocument
      <3> QED
        BY <2>1, <2>2, <2>5, <3>1
    <2> QED
      BY <2>1, <2>2, <2>3, <2>4, <2>5
  <1>6. IsFirst(inv, a, p)
    BY <1>5 DEF IsFirst
  <1> QED
    BY <1>6 DEF Place

LEMMA EarlierIsOrder ==
    ASSUME NEW p, p[1] \in Nat, p[2] \in Nat, NEW q, q[1] \in Nat, q[2] \in Nat
    PROVE  /\ ~Earlier(p, p)
           /\ Earlier(p, q) => ~Earlier(q, p)
           /\ Earlier(p, q) \/ Earlier(q, p) \/ (p[1] = q[1] /\ p[2] = q[2])
           /\ \A r : r[1] \in Nat /\ r[2] \in Nat /\ Earlier(p, q) /\ Earlier(q, r) => Earlier(p, r)
  BY DEF Earlier

LEMMA BeforeIs ==
    ASSUME NEW inv, IsDocument(inv), NEW a \in Addresses(inv), NEW b \in Addresses(inv)
    PROVE  Before(inv, a, b) <=> Earlier(Place(inv, a), Place(inv, b))
  <1> DEFINE p == Place(inv, a)
             q == Place(inv, b)
  <1>1. IsFirst(inv, a, p) /\ IsFirst(inv, b, q)
    BY PlaceIs
  <1> HIDE DEF p, q
  <1>2. \A r : r \in Listing(inv, a) \/ r \in Listing(inv, b) => r[1] \in Nat /\ r[2] \in Nat
    BY ListingPairs
  <1>3. p[1] \in Nat /\ p[2] \in Nat /\ q[1] \in Nat /\ q[2] \in Nat
    BY <1>1, <1>2 DEF IsFirst
  <1>4. ASSUME Before(inv, a, b) PROVE Earlier(p, q)
    <2>1. PICK r \in Listing(inv, a) : \A s \in Listing(inv, b) : Earlier(r, s)
      BY <1>4 DEF Before
    <2>2. Earlier(r, q) /\ (p = r \/ Earlier(p, r)) /\ r[1] \in Nat /\ r[2] \in Nat
      BY <1>1, <1>2, <2>1 DEF IsFirst
    <2> QED
      BY <1>3, <2>2, EarlierIsOrder
  <1>5. ASSUME Earlier(p, q) PROVE Before(inv, a, b)
    <2>1. ASSUME NEW s \in Listing(inv, b) PROVE Earlier(p, s)
      <3>1. (q = s \/ Earlier(q, s)) /\ s[1] \in Nat /\ s[2] \in Nat
        BY <1>1, <1>2 DEF IsFirst
      <3> QED
        BY <1>3, <1>5, <3>1, EarlierIsOrder
    <2> QED
      BY <1>1, <2>1 DEF Before, IsFirst
  <1> QED
    BY <1>4, <1>5 DEF p, q

LEMMA BeforeIsOrder ==
    ASSUME NEW inv, IsDocument(inv), NEW a \in Addresses(inv), NEW b \in Addresses(inv), a # b
    PROVE  /\ Before(inv, a, b) \/ Before(inv, b, a)
           /\ ~ (Before(inv, a, b) /\ Before(inv, b, a))
           /\ \A c \in Addresses(inv) : Before(inv, c, a) /\ Before(inv, a, b) => Before(inv, c, b)
  <1> DEFINE p(x) == Place(inv, x)
  <1>1. \A x \in Addresses(inv) : p(x) \in Listing(inv, x)
    BY PlaceIs DEF IsFirst
  <1>2. \A x \in Addresses(inv) : /\ p(x)[1] \in Nat /\ p(x)[2] \in Nat
                                  /\ inv[p(x)[1]].hosts[p(x)[2]].address = x
    BY <1>1, ListingPairs
  <1>3. \A x, y \in Addresses(inv) : Before(inv, x, y) <=> Earlier(p(x), p(y))
    BY BeforeIs
  <1> HIDE DEF p
  <1>4. ~ (p(a)[1] = p(b)[1] /\ p(a)[2] = p(b)[2])
    BY <1>2
  <1>5. ASSUME NEW c \in Addresses(inv), Before(inv, c, a), Before(inv, a, b) PROVE Before(inv, c, b)
    BY <1>2, <1>3, <1>5, EarlierIsOrder
  <1> QED
    BY <1>2, <1>3, <1>4, <1>5, EarlierIsOrder

ManagedHosts(inv) == {a \in Addresses(inv) : ~Skipped(inv, a)}

LEMMA ManagedAre ==
    ASSUME NEW inv, IsDocument(inv)
    PROVE  /\ IsFiniteSet(ManagedHosts(inv)) /\ DOMAIN Managed(inv) = 1 .. Cardinality(ManagedHosts(inv))
           /\ Range(Managed(inv)) = ManagedHosts(inv)
           /\ \A i, j \in DOMAIN Managed(inv) : Managed(inv)[i] = Managed(inv)[j] => i = j
  <1> DEFINE H == ManagedHosts(inv)
             n == Cardinality(H)
             before(a) == {b \in H : b = a \/ Before(inv, b, a)}
             rank(a) == Cardinality(before(a))
             r == [a \in H |-> rank(a)]
             m == Managed(inv)
  <1>1. m = [i \in 1 .. n |-> CHOOSE a \in H : rank(a) = i]
    BY DEF Managed, ManagedHosts
  <1>2. IsFiniteSet(H) /\ H \subseteq Addresses(inv)
    BY FS_Subset DEF ManagedHosts, IsDocument
  <1>3. n \in Nat
    BY <1>2, FS_CardinalityType
  <1> HIDE DEF H, n, m
  <1>4. ASSUME NEW a \in H PROVE IsFiniteSet(before(a)) /\ rank(a) \in 1 .. n
    <2>1. before(a) \in SUBSET H /\ a \in before(a)
      OBVIOUS
    <2> HIDE DEF before
    <2>2. IsFiniteSet(before(a)) /\ Cardinality(before(a)) <= n
      BY <1>2, <2>1, FS_Subset DEF n
    <2>3. Cardinality(before(a)) \in Nat /\ Cardinality(before(a)) # 0
      BY <2>1, <2>2, FS_CardinalityType, FS_EmptySet
    <2> QED
      BY <1>3, <2>2, <2>3
  <1>5. ASSUME NEW a \in H, NEW b \in H, a # b, Before(inv, a, b) PROVE rank(a) < rank(b)
    <2>1. before(a) \in SUBSET before(b)
      BY <1>2, <1>5, BeforeIsOrder
    <2>2. b \in before(b) /\ b \notin before(a)
      BY <1>2, <1>5, BeforeIsOrder
    <2>3. IsFiniteSet(before(b)) /\ rank(a) \in Nat /\ rank(b) \in Nat
      BY <1>3, <1>4
    <2> HIDE DEF before
    <2>4. rank(a) <= rank(b) /\ rank(a) # rank(b)
      BY <2>1, <2>2, <2>3, FS_Subset
    <2> QED
      BY <2>3, <2>4
  <1>6. ASSUME NEW a \in H, NEW b \in H, rank(a) = rank(b) PROVE a = b
    <2> SUFFICES ASSUME a # b PROVE FALSE
      OBVIOUS
    <2>1. Before(inv, a, b) \/ Before(inv, b, a)
      BY <1>2, BeforeIsOrder
    <2>2. rank(a) \in Nat
      BY <1>3, <1>4
    <2>3. rank(a) < rank(b) \/ rank(b) < rank(a)
      BY <1>5, <2>1
    <2> HIDE DEF rank
    <2> QED
      BY <1>6, <2>2, <2>3
  <1> HIDE DEF rank, before
  <1>7. r \in Injection(H, 1 .. n)
    BY <1>4, <1>6 DEF Injection, IsInjective
  <1>8. IsFiniteSet(1 .. n) /\ Cardinality(1 .. n) = n
    BY <1>3, FS_Interval
  <1>9. r \in Surjection(H, 1 .. n)
    BY <1>7, <1>8, FS_Injection DEF n
  <1>10. \A i \in 1 .. n : \E a \in H : rank(a) = i
    BY <1>9 DEF Surjection
  <1> HIDE DEF r
  <1>11. DOMAIN m = 1 .. n /\ \A i \in 1 .. n : m[i] \in H /\ rank(m[i]) = i
    BY <1>1, <1>10
  <1>12. \A a \in H : rank(a) \in DOMAIN m /\ m[rank(a)] = a
    BY <1>4, <1>6, <1>11
  <1>13. Range(m) = H
    BY <1>11, <1>12 DEF Range
  <1>14. \A i, j \in DOMAIN m : m[i] = m[j] => i = j
    BY <1>11
  <1> QED
    BY <1>2, <1>11, <1>13, <1>14 DEF H, n, m

-----------------------------------------------------------------------------
(* The settings of the hosts.                                              *)

Aliases(inv, a) == Lookup(inv, a, "vm_alias", {})

\* The definition of a host, which control node or not.
Setting(inv, a) ==
  [name |-> NodeName(inv, a), address |-> a, control |-> FALSE,
   image |-> Lookup(inv, a, "vm_image", "u24"), size |-> Lookup(inv, a, "size", 1),
   disk |-> Lookup(inv, a, "disk", "auto"), aliases |-> Aliases(inv, a)]

Settings(spec) == {[d EXCEPT !.control = FALSE] : d \in Range(spec.nodes)}

LEMMA ControlAside ==
    ASSUME NEW name, NEW address, NEW control, NEW image, NEW size, NEW disk, NEW aliases, NEW c
    PROVE  [[name |-> name, address |-> address, control |-> control, image |-> image, size |-> size,
             disk |-> disk, aliases |-> aliases] EXCEPT !.control = c]
             = [name |-> name, address |-> address, control |-> c, image |-> image, size |-> size,
                disk |-> disk, aliases |-> aliases]
  OBVIOUS

LEMMA NodesAre ==
    ASSUME NEW inv, IsDocument(inv)
    PROVE  LET nodes == NodesOf(inv)
               hosts == Managed(inv)
           IN /\ DOMAIN nodes = DOMAIN hosts /\ Len(nodes) = Cardinality(ManagedHosts(inv))
              /\ \A i \in DOMAIN nodes : /\ [nodes[i] EXCEPT !.control = FALSE] = Setting(inv, hosts[i])
                                         /\ nodes[i].name = NodeName(inv, hosts[i]) /\ nodes[i].address = hosts[i]
                                         /\ nodes[i].aliases = Aliases(inv, hosts[i])
  <1> DEFINE nodes == NodesOf(inv)
             hosts == Managed(inv)
             control == IF AdminIP(inv) \in Range(hosts) THEN AdminIP(inv) ELSE hosts[1]
             made(a) == [name |-> NodeName(inv, a), address |-> a, control |-> a = control,
                         image |-> Lookup(inv, a, "vm_image", "u24"), size |-> Lookup(inv, a, "size", 1),
                         disk |-> Lookup(inv, a, "disk", "auto"), aliases |-> Lookup(inv, a, "vm_alias", {})]
  <1>1. nodes = [i \in DOMAIN hosts |-> made(hosts[i])]
    BY DEF NodesOf
  <1>2. Len(nodes) = Cardinality(ManagedHosts(inv))
    <2> DEFINE n == Cardinality(ManagedHosts(inv))
    <2>1. n \in Nat /\ DOMAIN hosts = 1 .. n
      BY ManagedAre, FS_CardinalityType
    <2>2. Len(nodes) \in Nat /\ DOMAIN nodes = 1 .. Len(nodes)
      BY NodesOfAre DEF IsDocument
    <2>3. DOMAIN nodes = DOMAIN hosts
      BY <1>1
    <2> HIDE DEF n, nodes, hosts
    <2>4. Len(nodes) = n
      <3>1. \A k \in Nat : 1 .. n = 1 .. k => n = k
        BY <2>1
      <3> QED
        BY <2>1, <2>2, <2>3, <3>1
    <2> QED
      BY <2>4 DEF n
  <1>3. ASSUME NEW a
        PROVE  /\ [made(a) EXCEPT !.control = FALSE] = Setting(inv, a)
               /\ made(a).name = NodeName(inv, a) /\ made(a).address = a /\ made(a).aliases = Aliases(inv, a)
    <2> DEFINE with(c) == [name |-> NodeName(inv, a), address |-> a, control |-> c,
                           image |-> Lookup(inv, a, "vm_image", "u24"), size |-> Lookup(inv, a, "size", 1),
                           disk |-> Lookup(inv, a, "disk", "auto"), aliases |-> Lookup(inv, a, "vm_alias", {})]
    <2>1. \A b, c : [with(b) EXCEPT !.control = c] = with(c)
      BY ControlAside
    <2>2. with(FALSE) = Setting(inv, a)
      BY DEF Setting, Aliases
    <2>3. made(a) = with(a = control)
      OBVIOUS
    <2>4. made(a).name = NodeName(inv, a) /\ made(a).address = a /\ made(a).aliases = Aliases(inv, a)
      BY DEF Aliases
    <2> HIDE DEF made, with, control
    <2>5. [with(a = control) EXCEPT !.control = FALSE] = with(FALSE)
      BY <2>1, Zenon
    <2>6. [made(a) EXCEPT !.control = FALSE] = Setting(inv, a)
      BY <2>2, <2>3, <2>5
    <2> QED
      BY <2>4, <2>6
  <1> HIDE DEF made, hosts, nodes
  <1>4. DOMAIN nodes = DOMAIN hosts /\ \A i \in DOMAIN hosts : nodes[i] = made(hosts[i])
    BY <1>1
  <1> QED
    BY <1>2, <1>3, <1>4 DEF nodes, hosts

\* Whether the nodes are valid does not depend on their order.
ValidHosts(inv) ==
  /\ Cardinality(ManagedHosts(inv)) \in 1 .. 20
  /\ \A a, b \in ManagedHosts(inv) :
       /\ a # b => NodeName(inv, a) # NodeName(inv, b) /\ Aliases(inv, a) \cap Aliases(inv, b) = {}
       /\ NodeName(inv, a) \notin Aliases(inv, b)
       /\ NodeName(inv, a) \in LabelSyntax /\ Aliases(inv, a) \subseteq AliasSyntax
       /\ StaticOctet(a[2])

LEMMA ValidIs ==
    ASSUME NEW inv, IsDocument(inv)
    PROVE  Valid(NodesOf(inv)) <=> ValidHosts(inv)
  <1> DEFINE nodes == NodesOf(inv)
             hosts == Managed(inv)
             H == ManagedHosts(inv)
             name(a) == NodeName(inv, a)
             aliases(a) == Aliases(inv, a)
  <1>1. /\ DOMAIN nodes = DOMAIN hosts /\ Len(nodes) = Cardinality(H)
        /\ \A i \in DOMAIN nodes : /\ nodes[i].name = name(hosts[i]) /\ nodes[i].address = hosts[i]
                                   /\ nodes[i].aliases = aliases(hosts[i])
    BY NodesAre
  <1>2. /\ Range(hosts) = H
        /\ \A i, j \in DOMAIN hosts : hosts[i] = hosts[j] => i = j
    BY ManagedAre
  <1>3. ValidHosts(inv) <=>
          /\ Cardinality(H) \in 1 .. 20
          /\ \A a, b \in H : /\ a # b => name(a) # name(b) /\ aliases(a) \cap aliases(b) = {}
                             /\ name(a) \notin aliases(b)
                             /\ name(a) \in LabelSyntax /\ aliases(a) \subseteq AliasSyntax
                             /\ StaticOctet(a[2])
    BY DEF ValidHosts
  <1> HIDE DEF nodes, hosts, H, name, aliases
  <1>4. (\A i \in DOMAIN hosts : hosts[i] \in H) /\ (\A a \in H : \E i \in DOMAIN hosts : a = hosts[i])
    BY <1>2 DEF Range
  <1>5. ASSUME ValidHosts(inv) PROVE Valid(nodes)
    <2>1. Len(nodes) \in 1 .. 20
      BY <1>1, <1>3, <1>5
    <2>2. ASSUME NEW i \in DOMAIN nodes, NEW j \in DOMAIN nodes
          PROVE  /\ i # j => /\ nodes[i].name # nodes[j].name /\ nodes[i].address # nodes[j].address
                             /\ nodes[i].aliases \cap nodes[j].aliases = {}
                 /\ nodes[i].name \notin nodes[j].aliases
                 /\ nodes[i].name \in LabelSyntax /\ nodes[i].aliases \subseteq AliasSyntax
                 /\ StaticOctet(nodes[i].address[2])
      <3>1. hosts[i] \in H /\ hosts[j] \in H /\ (i # j => hosts[i] # hosts[j])
        BY <1>1, <1>2, <1>4
      <3> QED
        BY <1>1, <1>3, <1>5, <3>1
    <2> QED
      BY <2>1, <2>2 DEF Valid
  <1>6. ASSUME Valid(nodes) PROVE ValidHosts(inv)
    <2>1. Cardinality(H) \in 1 .. 20
      BY <1>1, <1>6 DEF Valid
    <2>2. ASSUME NEW a \in H, NEW b \in H
          PROVE  /\ a # b => name(a) # name(b) /\ aliases(a) \cap aliases(b) = {}
                 /\ name(a) \notin aliases(b)
                 /\ name(a) \in LabelSyntax /\ aliases(a) \subseteq AliasSyntax
                 /\ StaticOctet(a[2])
      <3>1. PICK i \in DOMAIN nodes, j \in DOMAIN nodes : a = hosts[i] /\ b = hosts[j]
        BY <1>1, <1>4
      <3>2. /\ i # j => nodes[i].name # nodes[j].name /\ nodes[i].aliases \cap nodes[j].aliases = {}
            /\ nodes[i].name \notin nodes[j].aliases /\ StaticOctet(nodes[i].address[2])
            /\ nodes[i].name \in LabelSyntax /\ nodes[i].aliases \subseteq AliasSyntax
        BY <1>6 DEF Valid
      <3> QED
        BY <1>1, <3>1, <3>2
    <2> QED
      BY <1>3, <2>1, <2>2
  <1> QED
    BY <1>5, <1>6 DEF nodes

\* All that is read of an inventory is read of its winning values.
LEMMA SameReadings ==
    ASSUME NEW x, NEW y, \A a, key : Winning(x, a, key) = Winning(y, a, key)
    PROVE  \A a : /\ \A key : Readable(x, a, key) <=> Readable(y, a, key)
                  /\ \A key, default : Lookup(x, a, key, default) = Lookup(y, a, key, default)
                  /\ NodeName(x, a) = NodeName(y, a) /\ (NameReadable(x, a) <=> NameReadable(y, a))
                  /\ Skipped(x, a) = Skipped(y, a)
                  /\ Aliases(x, a) = Aliases(y, a) /\ Setting(x, a) = Setting(y, a)
  <1>1. \A a, key : Found(x, a, key) <=> Found(y, a, key)
    BY DEF Found
  <1>2. \A a, key : Readable(x, a, key) <=> Readable(y, a, key)
    BY DEF Readable
  <1>3. ASSUME NEW a, NEW key, NEW default PROVE Lookup(x, a, key, default) = Lookup(y, a, key, default)
    <2>1. Winning(x, a, key) = Winning(y, a, key) /\ (Found(x, a, key) <=> Found(y, a, key))
      BY <1>1
    <2>2. (CHOOSE v \in Winning(x, a, key) : TRUE) = (CHOOSE v \in Winning(y, a, key) : TRUE)
      BY <2>1
    <2> QED
      BY <2>1, <2>2 DEF Lookup
  <1>4. \A a : NodeName(x, a) = NodeName(y, a)
    BY <1>1, <1>3 DEF NodeName
  <1>5. \A a : NameReadable(x, a) <=> NameReadable(y, a)
    BY <1>1, <1>2 DEF NameReadable
  <1>6. \A a : Skipped(x, a) = Skipped(y, a) /\ Aliases(x, a) = Aliases(y, a)
    BY <1>3 DEF Skipped, Aliases
  <1>7. \A a : Setting(x, a) = Setting(y, a)
    BY <1>3, <1>4, <1>6 DEF Setting
  <1> QED
    BY <1>2, <1>3, <1>4, <1>5, <1>6, <1>7

LEMMA ResolvedMoved ==
    ASSUME NEW x, IsDocument(x), OneGroup(x), NEW y, IsDocument(y), NEW at, Moved(x, y, at)
    PROVE  Settings(Resolve(x)) = Settings(Resolve(y))
  <1>1. /\ \A a : /\ \A key : Readable(x, a, key) <=> Readable(y, a, key)
                  /\ \A key, default : Lookup(x, a, key, default) = Lookup(y, a, key, default)
                  /\ NodeName(x, a) = NodeName(y, a) /\ (NameReadable(x, a) <=> NameReadable(y, a))
                  /\ Skipped(x, a) = Skipped(y, a)
                  /\ Aliases(x, a) = Aliases(y, a) /\ Setting(x, a) = Setting(y, a)
    BY WinningMoved, SameReadings
  <1>2. Addresses(x) = Addresses(y)
    BY MovedListing
  <1>3. ManagedHosts(x) = ManagedHosts(y)
    BY <1>1, <1>2 DEF ManagedHosts
  <1> DEFINE H == ManagedHosts(x)
  <1>4. Range(Managed(x)) = H /\ Range(Managed(y)) = H
    BY <1>3, ManagedAre
  <1> HIDE DEF H
  <1>5. {Lookup(x, a, "vm_arch", "none") : a \in H} = {Lookup(y, a, "vm_arch", "none") : a \in H}
    BY <1>1
  <1>6. Parses(x) <=> Parses(y)
    <2>1. \A z \in {x, y} :
            Parses(z) <=> /\ \A a \in Addresses(z) : Readable(z, a, "vm_skip")
                          /\ H # {} /\ \A a, b \in H : a[1] = b[1]
                          /\ \A a \in H : NameReadable(z, a) /\ \A key \in ReadKeys : Readable(z, a, key)
                          /\ Cardinality({Lookup(z, a, "vm_arch", "none") : a \in H}) = 1
                          /\ \A a, b \in H : Lookup(z, a, "user", "dba") = Lookup(z, b, "user", "dba")
      BY <1>4 DEF Parses
    <2>2. (\A a \in Addresses(x) : Readable(x, a, "vm_skip")) <=> (\A a \in Addresses(y) : Readable(y, a, "vm_skip"))
      BY <1>1, <1>2
    <2>3. (\A a \in H : NameReadable(x, a) /\ \A key \in ReadKeys : Readable(x, a, key))
            <=> (\A a \in H : NameReadable(y, a) /\ \A key \in ReadKeys : Readable(y, a, key))
      BY <1>1
    <2>4. (\A a, b \in H : Lookup(x, a, "user", "dba") = Lookup(x, b, "user", "dba"))
            <=> (\A a, b \in H : Lookup(y, a, "user", "dba") = Lookup(y, b, "user", "dba"))
      BY <1>1
    <2> QED
      BY <1>5, <2>1, <2>2, <2>3, <2>4
  <1>7. ValidHosts(x) <=> ValidHosts(y)
    BY <1>1, <1>3 DEF ValidHosts
  <1>8. Valid(NodesOf(x)) <=> Valid(NodesOf(y))
    BY <1>7, ValidIs
  <1>9. ASSUME NEW z \in {x, y}, Parses(z), Valid(NodesOf(z))
        PROVE  Settings(Resolve(z)) = {Setting(x, a) : a \in H}
    <2> DEFINE nodes == NodesOf(z)
               hosts == Managed(z)
    <2>1. Resolve(z).nodes = nodes
      BY <1>9 DEF Resolve
    <2>2. IsDocument(z) /\ Range(hosts) = H /\ \A a : Setting(z, a) = Setting(x, a)
      BY <1>1, <1>4
    <2>3. DOMAIN nodes = DOMAIN hosts /\ \A i \in DOMAIN nodes : [nodes[i] EXCEPT !.control = FALSE] = Setting(z, hosts[i])
      BY <2>2, NodesAre
    <2> HIDE DEF nodes, hosts
    <2>4. Settings(Resolve(z)) = {[d EXCEPT !.control = FALSE] : d \in Range(nodes)}
      BY <2>1 DEF Settings
    <2>5. ASSUME NEW a \in H PROVE Setting(x, a) \in Settings(Resolve(z))
      <3>1. PICK i \in DOMAIN hosts : a = hosts[i]
        BY <2>2 DEF Range
      <3>2. nodes[i] \in Range(nodes) /\ [nodes[i] EXCEPT !.control = FALSE] = Setting(x, a)
        BY <2>2, <2>3, <3>1 DEF Range
      <3> QED
        BY <2>4, <3>2
    <2>6. ASSUME NEW s \in Settings(Resolve(z)) PROVE \E a \in H : s = Setting(x, a)
      <3>1. PICK d \in Range(nodes) : s = [d EXCEPT !.control = FALSE]
        BY <2>4
      <3>2. PICK i \in DOMAIN nodes : d = nodes[i]
        BY <3>1 DEF Range
      <3>3. s = Setting(x, hosts[i])
        BY <2>2, <2>3, <3>1, <3>2
      <3>4. hosts[i] \in H
        BY <2>2, <2>3, <3>2 DEF Range
      <3> QED
        BY <3>3, <3>4
    <2> QED
      BY <2>5, <2>6
  <1>10. CASE Parses(x) /\ Valid(NodesOf(x))
    <2>1. Parses(y) /\ Valid(NodesOf(y))
      BY <1>6, <1>8, <1>10
    <2> QED
      BY <1>9, <1>10, <2>1
  <1>11. CASE ~ (Parses(x) /\ Valid(NodesOf(x)))
    <2>1. ~ (Parses(y) /\ Valid(NodesOf(y)))
      BY <1>6, <1>8, <1>11
    <2> QED
      BY <1>11, <2>1 DEF Resolve
  <1> QED
    BY <1>10, <1>11

\* Two orders of the groups of one inventory resolve to the same settings of
\* its hosts (collectHosts, dedupeVarSources and lookup, inventory.go).
THEOREM AnyOrderWillDo == Spec => []OrderDoesNotMatter
  <1>1. ASSUME Accepted PROVE OrderDoesNotMatter
    <2> DEFINE i == desired
               j == Twin[i]
               x == Inventories[i]
               y == Inventories[j]
    <2>1. i \in DOMAIN Inventories /\ j \in DOMAIN Inventories /\ (j = i \/ (OneGroup(x) /\ Reordered(x, y)))
      <3>1. i \in DOMAIN Inventories
        BY <1>1 DEF Accepted
      <3> HIDE DEF i
      <3> QED
        BY <3>1, TwinAssumption
    <2>2. \A k \in DOMAIN Inventories : /\ Inventories[k] \in Range(Inventories)
                                        /\ Resolved[k] = Resolve(Inventories[k])
      BY DEF Range, Resolved, resolve
    <2>3. wanted = Resolve(x) /\ Resolved[j] = Resolve(y) /\ IsDocument(x) /\ IsDocument(y)
      BY <1>1, <2>1, <2>2, InventoriesAssumption DEF Accepted
    <2>4. Settings(Resolve(x)) = Settings(Resolve(y))
      <3>1. CASE j = i
        BY <3>1
      <3>2. CASE OneGroup(x) /\ Reordered(x, y)
        <4> HIDE DEF x, y
        <4>1. PICK at : Moved(x, y, at)
          BY <3>2 DEF Reordered, Moved
        <4> QED
          BY <2>3, <3>2, <4>1, ResolvedMoved
      <3> QED
        BY <2>1, <3>1, <3>2
    <2> HIDE DEF x, y
    <2> QED
      BY <2>3, <2>4 DEF OrderDoesNotMatter, Settings
  <1>2. Applied => OrderDoesNotMatter
    BY <1>1 DEF Applied
  <1> QED
    BY <1>2, AppliedInvariance, PTL

=============================================================================
