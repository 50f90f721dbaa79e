--------------------------- MODULE MCConvergence ---------------------------
(* Nine inventories of three hosts, as a user would edit them one into     *)
(* another.                                                                *)
EXTENDS Convergence

CONSTANTS C_None

a == [nodename |-> <<"a", 1>>]
b == [pg_cluster |-> "b", pg_seq |-> 1]
Host(i, v) == [address |-> <<1, i>>, vars |-> v]
Group(g, up, v, hosts) == [name |-> g, parent |-> up, vars |-> v, hosts |-> hosts]
No == [nothing |-> C_None]
All(v) == Group("all", 0, v, <<>>)
Admin == [admin_ip |-> <<1, 10>>]

\* b gets its size from group g, a a deeper one from sub.
Listed(v) == <<All(v), Group("g", 1, [size |-> 2], <<Host(10, a), Host(11, b)>>),
               Group("h", 1, No, <<>>), Group("sub", 3, [size |-> 3], <<Host(10, a)>>),
               Group("z", 1, No, <<Host(11, b)>>)>>
Turned(v) == <<All(v), Group("z", 1, No, <<Host(11, b)>>), Group("h", 1, No, <<>>),
               Group("sub", 3, [size |-> 3], <<Host(10, a)>>),
               Group("g", 1, [size |-> 2], <<Host(10, a), Host(11, b)>>)>>

Small(v, va, vb, more) == <<All(v), Group("g", 1, [size |-> 2], <<Host(10, va @@ a @@ [size |-> 3]), Host(11, vb @@ b)>> \o more)>>

Hyphened == <<"x-.y", 0>>  \* an alias that /etc/hosts will not take

MCInventories ==
  << Listed(Admin),                                                     \* the base
     Turned(Admin),                                                     \* its groups in another order
     Small(Admin @@ [disk |-> "xfs"], No, No, <<>>),                    \* the data disks, concretely
     Small(Admin, No, [vm_skip |-> TRUE], <<>>),                        \* b left out
     Small(Admin, No, No, <<Host(12, [vm_image |-> "el8"])>>),          \* a third host, emulated
     Small(Admin, No, No, <<Host(12, [vm_alias |-> {Hyphened}])>>),     \* a third host with an odd alias
     Small(Admin, [vm_alias |-> {<<"b", 1>>}], No, <<>>),               \* an alias that is a name
     Small(Admin @@ [user |-> "root"], No, No, <<>>),                   \* the same hosts for another user
     <<All(Admin), Group("g", 1, [size |-> 2], <<Host(10, a)>>),
       Group("h", 1, [size |-> 3], <<Host(10, a)>>)>> >>                \* two groups that disagree

MCNames == {<<"a", 1>>, <<"b", 1>>, <<"node", 12>>}
MCLabelSyntax == MCNames
MCAliasSyntax == MCNames \cup {Hyphened}
MCHostSyntax == MCNames
MCTwin == [i \in DOMAIN MCInventories |-> CASE i = 1 -> 2 [] i = 2 -> 1 [] OTHER -> i]
MCBootOf == [i \in {"u24", "el8"} |-> "uefi"]
MCEL7 == {}
MCEL8 == {"el8"}
Ports == {2222 + 10000 * k : k \in 0 .. 4}
MCPortSets == {{}, {2222}, Ports}
=============================================================================
