----------------------------- MODULE Inventory -----------------------------
(***************************************************************************)
(* From a Pigsty inventory to a resolved specification: ParseInventory     *)
(* (internal/config/inventory.go), Validate and Resolve (file.go).  YAML   *)
(* itself (aliases, merge keys, scalar types) is abstracted: an inventory  *)
(* is its groups in document order, each with its variables and hosts, and *)
(* a variable that is a template or of the wrong type has the value Bad.   *)
(* CPUs, memory and root disk are one setting, "size"; a node has at most  *)
(* one data disk.  An address is a pair <<network, last octet>>, a name a  *)
(* pair <<stem, number>>.                                                  *)
(***************************************************************************)
EXTENDS Integers, Sequences, FiniteSets, SequencesExt

CONSTANTS Bad,          \* the value of a template, or of a wrong type
          LabelSyntax,  \* names that ValidNodeName matches (internal/naming)
          AliasSyntax,  \* names that dnsName matches (file.go)
          HostSyntax    \* names that validHostName matches (hostconfig.go)

\* A node name, one label of at most 63 characters, passes the other two.
\* An alias may not: dnsName lets a label end in '-' or be longer than that.
ASSUME SyntaxAssumption == LabelSyntax \subseteq AliasSyntax \cap HostSyntax

Rejected == [net |-> 0, arch |-> "none", user |-> "none", nodes |-> <<>>]

\* An inventory is a sequence of groups [name, parent, vars, hosts]: the
\* first is `all`, a parent precedes its children, hosts is a sequence of
\* [address, vars], and vars maps some of the variables to values.
Groups(inv) == 1 .. Len(inv)
Addresses(inv) == UNION {{h.address : h \in {inv[g].hosts[i] : i \in DOMAIN inv[g].hosts}} : g \in Groups(inv)}

\* A group comes after its parent, and names a host once.
IsDocument(inv) ==
  /\ DOMAIN inv = 1 .. Len(inv) /\ IsFiniteSet(Addresses(inv))
  /\ \A g \in Groups(inv) :
       /\ inv[g].parent \in 0 .. g - 1
       /\ DOMAIN inv[g].hosts = 1 .. Len(inv[g].hosts)
       /\ \A i, j \in DOMAIN inv[g].hosts : inv[g].hosts[i].address = inv[g].hosts[j].address => i = j

Depth(inv) ==
  LET depth[g \in Groups(inv)] == IF inv[g].parent = 0 THEN 0 ELSE depth[inv[g].parent] + 1
  IN depth

HostLevel == 100

\* The groups a host inherits from, on every path to it.
Chain(inv) ==
  LET chain[g \in Groups(inv)] == {g} \cup (IF inv[g].parent = 0 THEN {} ELSE chain[inv[g].parent])
  IN chain

Listing(inv, a) == {p \in UNION {{<<g, i>> : i \in DOMAIN inv[g].hosts} : g \in Groups(inv)} :
                      inv[p[1]].hosts[p[2]].address = a}
Ancestors(inv, a) == UNION {Chain(inv)[p[1]] : p \in Listing(inv, a)}

\* Only the first of several sources with one origin and depth counts; one
\* without variables is none.
First(inv, S, g) ==
  \A e \in S : inv[e].name = inv[g].name /\ Depth(inv)[e] = Depth(inv)[g] => g <= e

\* The layers that contribute variables to a host.
Sources(inv, a) ==
  LET groups == {g \in Ancestors(inv, a) : DOMAIN inv[g].vars # {}}
      places == {p \in Listing(inv, a) : DOMAIN inv[p[1]].hosts[p[2]].vars # {}}
      first(p) == \A q \in places : inv[q[1]].name = inv[p[1]].name => p[1] <= q[1]
  IN {[depth |-> Depth(inv)[g], at |-> g, vars |-> inv[g].vars] : g \in {g \in groups : First(inv, groups, g)}}
     \cup {[depth |-> HostLevel, at |-> p[1], vars |-> inv[p[1]].hosts[p[2]].vars] : p \in {p \in places : first(p)}}

\* Winning by the order of the document in place of the depth.
WinningFirst(inv, a, key) ==
  LET layers == {l \in Sources(inv, a) : key \in DOMAIN l.vars}
  IN {l.vars[key] : l \in {l \in layers : \A e \in layers : l.at <= e.at}}

\* The values of the deepest layers that set a variable: more than one is a conflict.
Winning(inv, a, key) ==
  LET layers == {l \in Sources(inv, a) : key \in DOMAIN l.vars}
  IN {l.vars[key] : l \in {l \in layers : \A e \in layers : e.depth <= l.depth}}

Found(inv, a, key) == Winning(inv, a, key) # {}
Readable(inv, a, key) == Cardinality(Winning(inv, a, key)) <= 1 /\ Bad \notin Winning(inv, a, key)
Lookup(inv, a, key, default) ==
  IF Found(inv, a, key) THEN CHOOSE v \in Winning(inv, a, key) : TRUE ELSE default

\* nodename, else pg_cluster and pg_seq, else the last octet.
NodeName(inv, a) ==
  IF Found(inv, a, "nodename") THEN Lookup(inv, a, "nodename", Bad)
  ELSE IF Found(inv, a, "pg_cluster") /\ Found(inv, a, "pg_seq")
       THEN <<Lookup(inv, a, "pg_cluster", Bad), Lookup(inv, a, "pg_seq", Bad)>>
       ELSE <<"node", a[2]>>

NameReadable(inv, a) ==
  /\ Readable(inv, a, "nodename")
  /\ ~Found(inv, a, "nodename") => Readable(inv, a, "pg_cluster") /\ Readable(inv, a, "pg_seq")

Skipped(inv, a) == Lookup(inv, a, "vm_skip", FALSE)

\* Managed hosts in the order the document first names them.
Earlier(p, q) == p[1] < q[1] \/ (p[1] = q[1] /\ p[2] < q[2])
Before(inv, a, b) == \E p \in Listing(inv, a) : \A q \in Listing(inv, b) : Earlier(p, q)

Managed(inv) ==
  LET hosts == {a \in Addresses(inv) : ~Skipped(inv, a)}
      rank(a) == Cardinality({b \in hosts : b = a \/ Before(inv, b, a)})
  IN [i \in 1 .. Cardinality(hosts) |-> CHOOSE a \in hosts : rank(a) = i]

ReadKeys == {"vm_image", "vm_arch", "size", "disk", "vm_alias", "user"}

\* The refusals of ParseInventory before Validate.
Parses(inv) ==
  LET hosts == Range(Managed(inv))
      arch == {Lookup(inv, a, "vm_arch", "none") : a \in hosts}
  IN /\ \A a \in Addresses(inv) : Readable(inv, a, "vm_skip")
     /\ hosts # {}
     /\ \A a, b \in hosts : a[1] = b[1]
     /\ \A a \in hosts : NameReadable(inv, a) /\ \A key \in ReadKeys : Readable(inv, a, key)
     /\ Cardinality(arch) = 1
     /\ \A a, b \in hosts : Lookup(inv, a, "user", "dba") = Lookup(inv, b, "user", "dba")

AdminIP(inv) == IF "admin_ip" \in DOMAIN inv[1].vars THEN inv[1].vars["admin_ip"] ELSE <<0, 0>>

\* One definition per managed host; the control node is the one at
\* admin_ip, or else the first.
NodesOf(inv) ==
  LET hosts == Managed(inv)
      control == IF AdminIP(inv) \in Range(hosts) THEN AdminIP(inv) ELSE hosts[1]
  IN [i \in DOMAIN hosts |->
        LET a == hosts[i]
        IN [name |-> NodeName(inv, a), address |-> a, control |-> a = control,
            image |-> Lookup(inv, a, "vm_image", "u24"), size |-> Lookup(inv, a, "size", 1),
            disk |-> Lookup(inv, a, "disk", "auto"), aliases |-> Lookup(inv, a, "vm_alias", {})]]

StaticOctet(n) == n \in 9 .. 254

\* Valid without the comparison of aliases and node names.
ValidAliasesApart(nodes) ==
  /\ Len(nodes) \in 1 .. 20
  /\ \A i, j \in DOMAIN nodes : i # j => /\ nodes[i].name # nodes[j].name
                                         /\ nodes[i].address # nodes[j].address
                                         /\ nodes[i].aliases \cap nodes[j].aliases = {}
  /\ \A i \in DOMAIN nodes : /\ nodes[i].name \in LabelSyntax /\ nodes[i].aliases \subseteq AliasSyntax
                              /\ StaticOctet(nodes[i].address[2])

\* File.Validate: names and aliases match their patterns, and they and the
\* addresses are unique in the deployment.
Valid(nodes) ==
  /\ Len(nodes) \in 1 .. 20
  /\ \A i, j \in DOMAIN nodes : i # j => /\ nodes[i].name # nodes[j].name
                                         /\ nodes[i].address # nodes[j].address
                                         /\ nodes[i].aliases \cap nodes[j].aliases = {}
  /\ \A i, j \in DOMAIN nodes : nodes[i].name \notin nodes[j].aliases
  /\ \A i \in DOMAIN nodes : /\ nodes[i].name \in LabelSyntax /\ nodes[i].aliases \subseteq AliasSyntax
                              /\ StaticOctet(nodes[i].address[2])

\* The resolved specification, or Rejected.
Resolve(inv) ==
  IF Parses(inv) /\ Valid(NodesOf(inv))
  THEN LET a == Managed(inv)[1]
       IN [net |-> a[1], arch |-> Lookup(inv, a, "vm_arch", "native"),
           user |-> Lookup(inv, a, "user", "dba"), nodes |-> NodesOf(inv)]
  ELSE Rejected

-----------------------------------------------------------------------------
(* What the rest of the program asks of a resolved specification.          *)

\* validateResolved of the lifecycle (private/plan.go).
Plannable(spec) ==
  /\ Len(spec.nodes) \in 1 .. 20
  /\ \A i \in DOMAIN spec.nodes :
        /\ spec.nodes[i].name \in LabelSyntax
        /\ spec.nodes[i].address[1] = spec.net /\ StaticOctet(spec.nodes[i].address[2])
  /\ \A i, j \in DOMAIN spec.nodes :
        i # j => spec.nodes[i].name # spec.nodes[j].name /\ spec.nodes[i].address # spec.nodes[j].address
  /\ Cardinality({i \in DOMAIN spec.nodes : spec.nodes[i].control}) = 1

\* validateEntries of the hosts block (hostconfig.go): names that its own
\* pattern matches, and none of two addresses.
HostNames(node) == {node.name} \cup node.aliases
Publishable(spec) ==
  \A i, j \in DOMAIN spec.nodes :
     /\ spec.nodes[i].address[2] \in 9 .. 254 /\ HostNames(spec.nodes[i]) \subseteq HostSyntax
     /\ i # j => HostNames(spec.nodes[i]) \cap HostNames(spec.nodes[j]) = {}

-----------------------------------------------------------------------------
(* Inventories that differ in the order of their groups only.              *)

\* A group that is listed under several parents is the same everywhere.
OneGroup(inv) ==
  \A g, e \in Groups(inv) :
    inv[g].name = inv[e].name => inv[g].vars = inv[e].vars /\ inv[g].hosts = inv[e].hosts

Reordered(x, y) ==
  \E at \in [Groups(x) -> Groups(y)] :
    /\ Groups(y) = Range(at)
    /\ \A g \in Groups(x) :
         /\ y[at[g]].name = x[g].name /\ y[at[g]].vars = x[g].vars /\ y[at[g]].hosts = x[g].hosts
         /\ y[at[g]].parent = IF x[g].parent = 0 THEN 0 ELSE at[x[g].parent]
=============================================================================
