------------------------------ MODULE HostFiles -----------------------------
(***************************************************************************)
(* The files of the host that name the nodes: the block of `farrow hosts`  *)
(* in /etc/hosts (internal/hostconfig), rewritten by a privileged helper   *)
(* from a plan made before, and the SSH client configuration               *)
(* (internal/sshconfig), a fragment and an Include that every lifecycle    *)
(* command brings up to date after it changed the deployment.  Two         *)
(* commands run side by side, each can be killed between any two steps,    *)
(* and the user edits the files meanwhile.                                 *)
(*                                                                         *)
(* A file is its text outside the markers and what is between them; an     *)
(* endpoint (port, identity, keys) is a version; digests compare contents. *)
(***************************************************************************)
EXTENDS Integers, Sequences, FiniteSets

CONSTANTS
  Nodes,
  Endpoints,   \* versions of a node's endpoint, 0 when it has none
  Slots,       \* commands that may run at a time
  Texts        \* what the user writes outside the markers

ASSUME NodesAssumption == IsFiniteSet(Nodes)

VARIABLES
  endpoint,    \* committed endpoint of each node
  resolved,    \* nodes that the deployment state lists
  hosts,       \* /etc/hosts
  fragment,    \* ~/.ssh/farrow_config
  include,     \* the Include of it in ~/.ssh/config
  run,         \* what each command is about
  edited,      \* the user's own text of /etc/hosts
  raced,       \* an edit came between the last check and the rename
  disturbed,   \* two writers of the SSH files ran at once, and no one alone since
  synced       \* the last command brought the SSH files up to date, undisturbed
hostvars == <<hosts, edited, raced>>
sshvars == <<fragment, include, disturbed, synced>>

NoFragment == [is |-> "none"]
Foreign == [is |-> "foreign"]
NoRun == [at |-> "idle"]
Committed == {n \in Nodes : endpoint[n] # 0}
Writers == {c \in Slots : run[c].at \in {"ssh", "writing"}}

\* --- /etc/hosts -----------------------------------------------------------
\* ReconcileContent: a conflicting mapping outside the block is refused.
HostsPlan(action, before, nodes) ==
  IF action = "install" THEN [before EXCEPT !.block = nodes] ELSE [before EXCEPT !.block = {}]
Refused(action, before) == action = "install" /\ before.text = "conflicting"

HostsBegin(c, action) ==
  /\ run[c].at = "idle"
  /\ action = "install" => Committed # {}
  /\ ~Refused(action, hosts)
  /\ LET after == HostsPlan(action, hosts, Committed)
     IN after # hosts /\ run' = [run EXCEPT ![c] = [at |-> "staged", before |-> hosts, after |-> after]]
  /\ UNCHANGED <<endpoint, resolved, hostvars, sshvars>>

\* The user confirms; ApplyHelper compares what it finds with the plan, and
\* atomicReplace once more right before the rename.
UnchangedBlock(c) == hosts.block = run[c].before.block
Unchanged(c) == hosts = run[c].before

HostsCheck(c) ==
  /\ run[c].at \in {"staged", "checked"}
  /\ run' = [run EXCEPT ![c] = IF ~Unchanged(c) THEN NoRun
                               ELSE [run[c] EXCEPT !.at = IF run[c].at = "staged" THEN "checked" ELSE "rename"]]
  /\ UNCHANGED <<endpoint, resolved, hostvars, sshvars>>

HostsRename(c) ==
  /\ run[c].at = "rename"
  /\ hosts' = run[c].after
  /\ run' = [run EXCEPT ![c] = NoRun]
  /\ UNCHANGED <<endpoint, resolved, edited, raced, sshvars>>

\* --- lifecycle commands ---------------------------------------------------
\* The SSH files are left to a command that changed the deployment.
WriterBegins(c, action) ==
  /\ run' = [d \in Slots |-> CASE d = c -> [at |-> "ssh", action |-> action, alone |-> Writers = {}]
                             [] d \in Writers \ {c} -> [run[d] EXCEPT !.alone = FALSE]
                             [] OTHER -> run[d]]
  /\ disturbed' = (disturbed \/ Writers # {})
  /\ synced' = FALSE
  /\ UNCHANGED <<fragment, include>>

\* up, start, restart, reload, recreate: new nodes and new endpoints, also when
\* some of them fail.
Up(c, S) ==
  /\ run[c].at = "idle"
  /\ \E v \in Endpoints : endpoint' = [n \in Nodes |-> IF n \in S THEN v ELSE endpoint[n]]
  /\ resolved' = resolved \cup S
  /\ WriterBegins(c, "install")
  /\ UNCHANGED hostvars

\* After any destroy, the SSH files go.
ActionAfterDestroyAlike(S) == "remove"

\* main.go destroyLeavesDeploymentNodes, by the nodes the state lists; S is
\* empty when no node was named.
ActionAfterDestroy(S) == IF S # {} /\ Cardinality(S) < Cardinality(resolved) THEN "install" ELSE "remove"

Destroy(c, S) ==
  /\ run[c].at = "idle" /\ S \subseteq Committed
  /\ endpoint' = [n \in Nodes |-> IF S = {} \/ n \in S THEN 0 ELSE endpoint[n]]
  /\ WriterBegins(c, ActionAfterDestroy(S))
  /\ UNCHANGED <<resolved, hostvars>>

\* purge forgets the deployment as well.
Purge(c) ==
  /\ run[c].at = "idle"
  /\ endpoint' = [n \in Nodes |-> 0] /\ resolved' = {}
  /\ WriterBegins(c, "remove")
  /\ UNCHANGED hostvars

\* --- the SSH files --------------------------------------------------------
Ends(c, ok) ==
  /\ run' = [run EXCEPT ![c] = NoRun]
  /\ synced' = (ok /\ run[c].alone)
  /\ disturbed' = (disturbed /\ ~(ok /\ run[c].alone))

\* The snapshot under the deployment lock and the reads of InstallMany or
\* Remove, from which it is decided what to write.  What is refused ends in a
\* warning, as do the two seconds it has.
Published == [is |-> "ours", entries |-> [n \in Committed |-> endpoint[n]]]
Changes(step) ==
  CASE step = "fragment" -> fragment # Published
    [] step = "unlink" -> fragment.is # "none"
    [] step = "include" -> include # "ours"
    [] step = "exclude" -> include = "ours"

\* The fragment is unlinked before the Include that names it.
OrderReversed(action) == IF action = "install" THEN <<"fragment", "include">> ELSE <<"unlink", "exclude">>

\* InstallMany writes the fragment, then the Include; Remove the other way round.
Order(action) == IF action = "install" THEN <<"fragment", "include">> ELSE <<"exclude", "unlink">>

Todo(action) ==
  LET first == Order(action)[1]
      second == Order(action)[2]
  IN CASE Changes(first) /\ Changes(second) -> <<first, second>>
       [] Changes(first) /\ ~Changes(second) -> <<first>>
       [] ~Changes(first) /\ Changes(second) -> <<second>>
       [] OTHER -> <<>>

SshRead(c) ==
  /\ run[c].at = "ssh"
  /\ IF fragment.is = "foreign" \/ include = "unmarked" \/ (run[c].action = "install" /\ Committed = {})
     THEN Ends(c, FALSE)
     ELSE LET todo == Todo(run[c].action)
          IN IF todo = <<>> THEN Ends(c, TRUE)
             ELSE /\ run' = [run EXCEPT ![c] = [at |-> "writing", alone |-> @.alone, todo |-> todo,
                                                new |-> IF Head(todo) = "fragment" THEN Published ELSE NoFragment]]
                  /\ UNCHANGED <<disturbed, synced>>
  /\ UNCHANGED <<endpoint, resolved, hostvars, fragment, include>>

SshTimeout(c) ==
  /\ run[c].at = "ssh" /\ Ends(c, FALSE)
  /\ UNCHANGED <<endpoint, resolved, hostvars, fragment, include>>

SshWrite(c) ==
  LET step == Head(run[c].todo)
      gone == step = "unlink" /\ fragment.is = "none"
  IN /\ run[c].at = "writing"
     /\ fragment' = IF step \in {"fragment", "unlink"} THEN run[c].new ELSE fragment
     /\ include' = CASE step = "include" -> "ours" [] step = "exclude" -> "none" [] OTHER -> include
     /\ IF Len(run[c].todo) = 1 THEN Ends(c, ~gone)
        ELSE /\ run' = [run EXCEPT ![c].todo = Tail(@), ![c].new = NoFragment]
             /\ UNCHANGED <<disturbed, synced>>
     /\ UNCHANGED <<endpoint, resolved, hostvars>>

\* --- the rest -------------------------------------------------------------
Kill(c) ==
  /\ run[c].at # "idle"
  /\ run' = [run EXCEPT ![c] = NoRun]
  /\ UNCHANGED <<endpoint, resolved, hostvars, sshvars>>

EditHosts ==
  /\ \E text \in Texts \ {hosts.text} : hosts' = [hosts EXCEPT !.text = text] /\ edited' = text
  /\ raced' = (raced \/ \E c \in Slots : run[c].at = "rename")
  /\ UNCHANGED <<endpoint, resolved, run, sshvars>>

FilesInit ==
  /\ endpoint = [n \in Nodes |-> 0] /\ resolved = {}
  /\ edited \in Texts /\ hosts = [text |-> edited, block |-> {}]
  /\ fragment \in {NoFragment, Foreign}
  /\ include \in {"none", "unmarked"}
  /\ run = [c \in Slots |-> NoRun]
  /\ raced = FALSE /\ disturbed = FALSE /\ synced = FALSE

HostsCommands ==
  \/ \E c \in Slots :
       \/ \E action \in {"install", "uninstall"} : HostsBegin(c, action)
       \/ HostsCheck(c) \/ HostsRename(c)
  \/ EditHosts
LifecycleCommands ==
  \E c \in Slots :
    \/ \E S \in SUBSET Nodes : Destroy(c, S) \/ (S # {} /\ Up(c, S))
    \/ Purge(c) \/ SshRead(c) \/ SshTimeout(c) \/ SshWrite(c) \/ Kill(c)

\* --- properties -----------------------------------------------------------
\* What others write into /etc/hosts is never lost to a plan made before their
\* edit, unless the edit falls between the last comparison and the rename
\* (hostconfig.go 570-577, 592-607).
OutsideKept == ~raced => hosts.text = edited

\* When a lifecycle command reports its SSH configuration up to date and no
\* other writer ran meanwhile, the aliases are those of the nodes that exist,
\* with their current endpoints (integrations.go 30-80, main.go 1051-1080).
AliasesCurrent ==
  synced => IF Committed = {} THEN fragment = NoFragment /\ include # "ours"
            ELSE fragment = Published /\ include = "ours"

\* The Include in the user's configuration never names a fragment that is not
\* there, wherever a command was killed (sshconfig.go InstallMany, Remove), as
\* long as no two writers overlapped.
IncludeResolves == ~disturbed /\ include = "ours" => fragment.is = "ours"
=============================================================================
