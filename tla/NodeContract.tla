---------------------------- MODULE NodeContract ----------------------------
(***************************************************************************)
(* What the node files promise, whatever is interrupted: a node becomes    *)
(* committed only out of an unfinished directory, a committed node is      *)
(* dismantled only after it was announced as leaving, and what a guest     *)
(* wrote to a persistent disk is dropped only when no node exists at all.  *)
(***************************************************************************)
CONSTANT Node

VARIABLES
    status,   \* status[n]: "absent", "unfinished", "committed" or "leaving"
    data      \* data[n]: n's persistent disk carries something a guest wrote

Move(n, from, to) ==
    /\ status[n] = from
    /\ status' = [status EXCEPT ![n] = to]
    /\ UNCHANGED data

Begin(n) == Move(n, "absent", "unfinished")
Commit(n) == Move(n, "unfinished", "committed")
Announce(n) == Move(n, "committed", "leaving")
\* An interrupted destroy makes the node available again.
Withdraw(n) == Move(n, "leaving", "committed")
Dismantle(n) == Move(n, "leaving", "unfinished")
Discard(n) == Move(n, "unfinished", "absent")

Write(n) ==
    /\ status[n] = "committed"
    /\ data' = [data EXCEPT ![n] = TRUE]
    /\ UNCHANGED status

Purge(n) ==
    /\ \A m \in Node : status[m] = "absent"
    /\ data' = [data EXCEPT ![n] = FALSE]
    /\ UNCHANGED status

Init ==
    /\ status = [n \in Node |-> "absent"]
    /\ data = [n \in Node |-> FALSE]

Next == \E n \in Node : \/ Begin(n) \/ Commit(n) \/ Announce(n) \/ Withdraw(n)
                        \/ Dismantle(n) \/ Discard(n) \/ Write(n) \/ Purge(n)

Spec == Init /\ [][Next]_<<status, data>>
=============================================================================
