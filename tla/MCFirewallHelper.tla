-------------------------- MODULE MCFirewallHelper --------------------------
(***************************************************************************)
(* Instance for TLC: a process that may be started with any request, one    *)
(* that works against it, one without root (p3) and one refused in the host *)
(* namespace (p4); one reserved name among three interfaces, two IPv4 and   *)
(* one IPv6 endpoint, and limits of two, so that every limit is met exactly *)
(* and exceeded by one.                                                     *)
(***************************************************************************)
EXTENDS HelperClient, TLC

CONSTANTS p1, p2, p3, p4, eth, wifi, tun, a4, b4, c6

R(a, i, e) == [action |-> a, ifaces |-> i, eps |-> e]

MCRequests ==
  p1 :> { R("status", {}, {}), R("ipv6-guard-status", {}, {}),
          R("enable", {eth}, {a4}), R("enable", {eth, wifi}, {a4, b4}),
          R("enable", {tun}, {a4}), R("enable", {eth}, {a4, b4, c6}),
          R("set-interfaces", {wifi}, {}), R("set-interfaces", {eth, wifi, tun}, {}),
          R("set-endpoints", {}, {b4}), R("set-endpoints", {}, {}),
          R("add-endpoint", {}, {c6}), R("remove-endpoint", {}, {a4}),
          R("disable", {}, {}), R("emergency-reset", {}, {}),
          R("ipv6-guard-enable", {}, {}), R("ipv6-guard-disable", {}, {}) }
  @@ p2 :> { R("status", {}, {}), R("enable", {eth}, {a4}), R("add-endpoint", {}, {b4}),
             R("set-endpoints", {}, {b4}), R("emergency-reset", {}, {}),
             R("ipv6-guard-enable", {}, {}) }
  @@ p3 :> { R("emergency-reset", {}, {}) }
  @@ p4 :> { R("ipv6-guard-disable", {}, {}) }

MCProcs == {p1, p2, p3, p4}
MCRooted == {p1, p2, p4}
MCHostAllowed == {p1, p2, p3}
MCInterfaces == {eth, wifi, tun}
MCReserved == {tun}
MCV4 == {a4, b4}
MCV6 == {c6}
=============================================================================
