------------------------------- MODULE MCHost -------------------------------
(* Five Linux hosts and a Mac with and without the hosts helper; one foreign *)
(* networkd configuration that conflicts, one that is masked; a route inside *)
(* the network and one around it.                                            *)
EXTENDS Host

Unit(enabled, active) == [enabled |-> enabled, active |-> active]
LinuxHost(family, nm, conf, dirs, mode, service, others) ==
  [family |-> family, nm |-> nm, service |-> service, others |-> others,
   conf |-> IF conf = "" THEN [exists |-> FALSE, text |-> "", block |-> "none"]
           ELSE [exists |-> TRUE, text |-> conf, block |-> "none"],
   files |-> {}, torn |-> {}, dirs |-> dirs, manifest |-> [is |-> "none"],
   helper |-> [override |-> "none", mode |-> mode],
   link |-> FALSE, connection |-> FALSE, attached |-> FALSE, configs |-> {}]

MCHosts == {
  LinuxHost("debian", FALSE, "", {}, "package", Unit(TRUE, TRUE), Unit(FALSE, TRUE)),
  LinuxHost("debian", FALSE, "a", {"qemu"}, "package", Unit(FALSE, FALSE), Unit(FALSE, FALSE)),
  LinuxHost("debian", FALSE, "", {"qemu"}, "scoped", Unit(TRUE, FALSE), Unit(TRUE, FALSE)),
  LinuxHost("debian", TRUE, "a", {"qemu", "farrow"}, "package", Unit(FALSE, FALSE), Unit(FALSE, FALSE)),
  LinuxHost("rpm", TRUE, "", {}, "package", Unit(FALSE, FALSE), Unit(FALSE, FALSE)) }

Config(kind, masked, links) ==
  [kind |-> kind, masked |-> masked, unsafe |-> FALSE, dropin |-> FALSE, unclear |-> FALSE, links |-> links]
MCConfigs == {Config("network", FALSE, {"lan"}), Config("netdev", TRUE, {})}

MCRoutes == {[covers |-> "inside", owner |-> "other"], [covers |-> "wider", owner |-> "other"]}
=============================================================================
