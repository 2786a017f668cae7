-------------------------------- MODULE AppId --------------------------------
(***************************************************************************)
(* classify of appid.cpp: the application a payload gives away.  A payload *)
(* is abstracted to what classify looks at: its size, the preamble it      *)
(* opens with (an HTTP method, "SSH-", the 0x16 of a TLS record, which     *)
(* exclude each other, or none of them), and whether it has the shape of a *)
(* DNS message.  The SNI that a TLS record may carry does not decide       *)
(* anything and is left out.                                               *)
(***************************************************************************)
EXTENDS Policy

Preamble == {"http", "ssh", "tls", "none"}
Payload  == [size : Nat, preamble : Preamble, dns_shape : BOOLEAN]

NoPayload == [size |-> 0, preamble |-> "none", dns_shape |-> FALSE]

\* The port is a tiebreak for DNS alone, which has no magic number.
LooksLikeDns(payload, proto, dst_port) ==
  /\ payload.dns_shape
  /\ dst_port = 53 \/ (proto = "udp" /\ dst_port = 5353)

Recognised(payload, proto, dst_port) ==
  CASE proto = "tcp" /\ payload.preamble = "http" -> "web-browsing"
    [] proto = "tcp" /\ payload.preamble = "ssh"  -> "ssh"
    [] proto = "tcp" /\ payload.preamble = "tls"  -> "ssl"
    [] OTHER -> IF LooksLikeDns(payload, proto, dst_port) THEN "dns" ELSE NoApp

Classify(payload, proto, dst_port) ==
  LET application == IF payload.size = 0 THEN NoApp
                     ELSE Recognised(payload, proto, dst_port)
  IN  [application |-> application,
       exhausted   |-> payload.size > 0 /\ application = NoApp]
=============================================================================
