------------------------------- MODULE Policy -------------------------------
(***************************************************************************)
(* The rule base of policy.h and policy.cpp: which zone an address is in,  *)
(* and which rule decides the traffic between two zones.  Addresses have   *)
(* AddressBits bits (32 in the code), so that a prefix means what it means *)
(* there.  Rules are indexed from 1 and kDefaultDeny is 0.                 *)
(***************************************************************************)
EXTENDS Naturals, Sequences, FiniteSetsExt

Zone    == {"Any", "Trust", "Untrust", "Dmz"}
Verdict == {"Allow", "Deny", "Drop"}
Proto   == {"tcp", "udp"}

NoApp == ""
App   == {"web-browsing", "ssl", "ssh", "dns", "unknown"}

CONSTANTS AddressBits,   \* the width of an address
          Routes,        \* the zone lines of the policy, in order (ZoneRoute)
          Rules          \* the rule lines of the policy, in order (Rule)

Ip   == 0 .. 2^AddressBits - 1
Port == 0 .. 65535

\* Protocol 0, which a service of a list may have and no packet has.
NoProto == "none"

\* Sets stand for the vectors of services and applications, whose order no
\* decision reads; the empty one means any, as a port of 0 does.  A rule may name
\* applications that App-ID never reports.
RouteType == [network : Ip, prefix : 0 .. AddressBits, zone : Zone]
RuleType  == [from : Zone, to : Zone, services : SUBSET [proto : Proto \cup {NoProto}, port : Port],
              applications : SUBSET STRING, action : Verdict]

ASSUME PolicyAssumption == /\ AddressBits \in Nat
                           /\ Routes \in Seq(RouteType)
                           /\ Rules \in Seq(RuleType)

kDefaultDeny == 0

-----------------------------------------------------------------------------
(***************************************************************************)
(* Zones: the longest prefix that contains the address, and Any when       *)
(* nothing contains it.  One network may be declared in two zones: the     *)
(* loop of zone_for then keeps the first, as its prefix is not exceeded.   *)
(***************************************************************************)
Contains(route, ip) ==
  LET block == 2^(AddressBits - route.prefix)
  IN  ip \div block = route.network \div block

Covering(ip) == {i \in DOMAIN Routes : Contains(Routes[i], ip)}

AtLeastAsGood(i, j) ==
  \/ Routes[i].prefix > Routes[j].prefix
  \/ Routes[i].prefix = Routes[j].prefix /\ i <= j

ZoneFor(ip) ==
  IF Covering(ip) = {} THEN "Any"
  ELSE Routes[CHOOSE i \in Covering(ip) : \A j \in Covering(ip) : AtLeastAsGood(i, j)].zone

-----------------------------------------------------------------------------
(***************************************************************************)
(* Rules: the first that matches decides.  While the application is not    *)
(* known, a rule that names applications matches provisionally, on its     *)
(* other criteria.                                                         *)
(***************************************************************************)
ServiceMatches(service, proto, port) ==
  service.proto = proto /\ service.port \in {0, port}

ApplicationMatches(rule, app) ==
  rule.applications = {} \/ app = NoApp \/ app \in rule.applications

RuleMatches(rule, from, to, proto, port, app) ==
  /\ rule.from \in {"Any", from}
  /\ rule.to \in {"Any", to}
  /\ rule.services = {} \/ \E service \in rule.services : ServiceMatches(service, proto, port)
  /\ ApplicationMatches(rule, app)

Evaluate(from, to, proto, port, app) ==
  LET matching == {i \in DOMAIN Rules : RuleMatches(Rules[i], from, to, proto, port, app)}
  IN  IF matching = {} THEN [rule |-> kDefaultDeny, verdict |-> "Deny"]
      ELSE [rule |-> Min(matching), verdict |-> Rules[Min(matching)].action]
=============================================================================
