------------------------------ MODULE MCEngine ------------------------------
(***************************************************************************)
(* Small captures for TLC.  Addresses have two bits: 0 and 1 are the trust *)
(* side, 2 and 3 the untrust side.  The rule bases are rules/policy.conf   *)
(* and a variation of it.                                                  *)
(***************************************************************************)
EXTENDS Report

Host(ip, port) == [ip |-> ip, port |-> port]

MCRoutes == << [network |-> 0, prefix |-> 1, zone |-> "Trust"],
               [network |-> 0, prefix |-> 0, zone |-> "Untrust"] >>

Rule(from, to, services, applications, action) ==
  [from |-> from, to |-> to, services |-> services,
   applications |-> applications, action |-> action]

Tcp(port) == [proto |-> "tcp", port |-> port]
Udp(port) == [proto |-> "udp", port |-> port]

AllowWeb    == Rule("Trust", "Untrust", {Tcp(80), Tcp(443)}, {"web-browsing", "ssl"}, "Allow")
AllowDns    == Rule("Trust", "Untrust", {Udp(53)}, {"dns"}, "Allow")
BlockTelnet == Rule("Any", "Any", {Tcp(23)}, {}, "Deny")
DenyInbound == Rule("Untrust", "Trust", {}, {}, "Drop")
BlockSsh    == Rule("Any", "Any", {}, {"ssh"}, "Deny")
AllowOut    == Rule("Trust", "Untrust", {}, {}, "Allow")
OnlyDns     == Rule("Any", "Any", {Udp(53)}, {}, "Drop")

\* rules/policy.conf; and a rule base that lets the web and DNS out, then forbids
\* one application and all that is not DNS on its port, then lets the rest out.
PolicyConf == <<AllowWeb, AllowDns, BlockTelnet, DenyInbound>>
ForbidSsh  == <<AllowWeb, AllowDns, OnlyDns, BlockSsh, AllowOut, DenyInbound>>

-----------------------------------------------------------------------------
Http  == [size |-> 1, preamble |-> "http", dns_shape |-> FALSE]
Ssh   == [size |-> 1, preamble |-> "ssh", dns_shape |-> FALSE]
Query == [size |-> 1, preamble |-> "none", dns_shape |-> TRUE]
Junk  == [size |-> 1, preamble |-> "none", dns_shape |-> FALSE]

\* The banner of ssh in two segments: "SS", which opens with no whole preamble, and the
\* rest of it.
BannerHead == [size |-> 2, preamble |-> "none", dns_shape |-> FALSE]
BannerRest == [size |-> 9, preamble |-> "none", dns_shape |-> FALSE]

Frame(src, dst, proto, flags, payload) ==
  [src |-> src, dst |-> dst, proto |-> proto, flags |-> flags,
   payload |-> payload, checksum_ok |-> TRUE]

\* Both directions of a frame.
Both(frame) == {frame, [frame EXCEPT !.src = frame.dst, !.dst = frame.src]}

Client == Host(0, 9)
Server == Host(2, 443)

TcpFrame(flags, payload) == Frame(Client, Server, "tcp", flags, payload)

\* One conversation on a web port: its handshake, data, close and reset.
TcpSegments ==
  {TcpFrame({"syn"}, NoPayload),
   TcpFrame({"ack"}, Http), TcpFrame({"ack"}, Ssh)}
    \cup Both(TcpFrame({"ack"}, NoPayload))
    \cup Both(TcpFrame({"syn", "ack"}, NoPayload))
    \cup Both(TcpFrame({"fin", "ack"}, NoPayload))
    \cup {TcpFrame({"rst"}, NoPayload)}

\* Datagrams of DNS and of something else, and a conversation with its ports
\* crossed (flow.h:26-30).
UdpSegments ==
  Both(Frame(Client, Host(2, 53), "udp", {}, Query))
    \cup {Frame(Client, Host(2, 53), "udp", {}, Junk)}
    \cup {[Frame(Host(2, 9), Host(0, 53), "udp", {}, Junk) EXCEPT !.checksum_ok = FALSE],
          Frame(Host(0, 53), Host(2, 9), "udp", {}, NoPayload)}

\* The same with a UDP conversation beside it, which ages at another rate.
LifeSegments == TcpSegments \cup {Frame(Client, Host(2, 53), "udp", {}, NoPayload)}

\* And with outbound conversations that compete for the ports of a pool: one that is
\* revoked, and one that is refused until it turns out to be something else than ssh.
MixedSegments ==
  UdpSegments
    \cup {Frame(Client, Server, "tcp", {"syn"}, payload) : payload \in {NoPayload, Ssh}}
    \cup {Frame(Host(0, 7), Host(2, 22), "tcp", {"syn"}, Http)}

\* A conversation whose first payload is cut.
SplitSegments ==
  {TcpFrame({"syn"}, NoPayload), TcpFrame({"ack"}, NoPayload),
   TcpFrame({"ack"}, BannerHead), TcpFrame({"ack"}, BannerRest)}
    \cup Both(TcpFrame({"syn", "ack"}, NoPayload))

\* An outbound conversation that is refused as ssh until it turns out to be the web on
\* another port; and the first segments of three that are let out at once.
ShiftedSegments ==
  {Frame(Client, Host(2, 22), "tcp", {"syn"}, NoPayload)}
    \cup {Frame(Client, Host(2, 22), "tcp", {"ack"}, payload) : payload \in {NoPayload, Http}}
    \cup Both(Frame(Client, Host(2, 22), "tcp", {"syn", "ack"}, NoPayload))

OutboundSegments ==
  {Frame(Host(0, port), Server, "tcp", {"syn"}, NoPayload) : port \in 7 .. 9}

MCUnparsed   == {{"ipv4", "short_header"}, {"ipv4", "fragments", "bad_checksum"}}
NoneUnparsed == {}
=============================================================================
