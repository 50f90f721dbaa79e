-------------------------- MODULE NetworkPreflight --------------------------
(***************************************************************************)
(* The eligibility report of the private network (internal/network/        *)
(* preflight): a snapshot of the host becomes findings, the verdict "ready" *)
(* and the offer to repair.  A route is what it covers of the requested    *)
(* network and whose it is; messages and exit codes are left out.          *)
(***************************************************************************)
EXTENDS Integers, FiniteSets

Finding(code, severity) == [code |-> code, severity |-> severity]
Error(code) == Finding(code, "error")

\* A route [covers, owner] covers the "same" prefix, a part ("inside"), all of
\* it and more ("wider"), or none ("apart"); only the first two can divert it.
RouteCompetes(route) == route.covers \in {"same", "inside"}

\* Ours are the connected route on our interface and the local route of the
\* host address, as long as exactly this network is installed.
OwnedRoute(exact, route) ==
  exact /\ \/ route = [covers |-> "same", owner |-> "ours"]
           \/ route = [covers |-> "inside", owner |-> "host address"]

InstallationFindings(request, s) ==
  LET installed == s.status # "absent"
      same == s.cidr = request.cidr
  IN IF s.status \in {"partial", "invalid"} THEN {Error("installation.integrity")}
     ELSE IF installed
     THEN IF ~same THEN {Error("installation.network_mismatch")}
          ELSE IF s.healthy THEN {} ELSE {Error("installation.not_ready")}
     ELSE IF request.purpose = "use" THEN {Error("installation.absent")}
          ELSE IF request.purpose = "inspect" THEN {Finding("installation.absent", "warning")} ELSE {}

Exact(request, s) == s.status # "absent" /\ s.cidr = request.cidr

RouteFindings(request, s) ==
  LET exact == Exact(request, s)
      competing == {r \in s.routes : RouteCompetes(r)}
  IN (IF \E r \in competing : ~OwnedRoute(exact, r) THEN {Error("route.overlap")} ELSE {})
     \cup (IF exact /\ [covers |-> "same", owner |-> "ours"] \notin competing
           THEN {Error("installation.route_missing")} ELSE {})

InterfaceFindings(request, s) ==
  IF \E owner \in s.interfaces : ~(Exact(request, s) /\ owner = "ours")
  THEN {Error("interface.overlap")} ELSE {}

Evaluate(request, s) ==
  s.findings
  \cup (IF s.sharing THEN {Error("vmnet.sharing_service_busy")} ELSE {})
  \cup InstallationFindings(request, s)
  \cup RouteFindings(request, s)
  \cup InterfaceFindings(request, s)
  \cup (IF request.addresses \cap s.answering # {} THEN {Error("address.in_use")} ELSE {})

Errors(findings) == {f \in findings : f.severity = "error"}
Ready(findings) == Errors(findings) = {}

Repairable == {"installation.not_ready", "installation.route_missing", "installation.log_directory"}

CanRepair(request, s) ==
  LET codes == {f.code : f \in Errors(Evaluate(request, s))}
  IN s.status \in {"exact", "protected"} /\ s.cidr = request.cidr /\ codes # {} /\ codes \subseteq Repairable

\* A restart for every repair.
NeedsRestartAlways(findings) == Errors(findings) # {}

\* cmd/farrow/setup.go: what setup does with the report.
NeedsRestart(findings) == \E f \in Errors(findings) : f.code # "installation.log_directory"
NeedsInstall(request, s) == s.status = "absent" \/ CanRepair(request, s)
=============================================================================
