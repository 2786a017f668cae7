------------------------------ MODULE MCDecode ------------------------------
(***************************************************************************)
(* Frames for TLC: header lengths below, at and above the least, lengths   *)
(* that leave padding, that fit and that lie.                              *)
(***************************************************************************)
EXTENDS Snaplen

Ipv4Frames ==
  [size : {60, 66}, ethertype : {"ipv4"}, version : {4}, ihl : {4, 5, 6},
   total_length : {22, 24, 40, 46, 52, 200}, frag_offset : {0, 1},
   protocol : {"tcp", "udp", "other"}, checksum_ok : BOOLEAN,
   data_offset : {4, 5, 6}, udp_length : {7, 8, 18, 300}]

Icmp == {f \in Ipv4Frames : /\ f.ihl = 5 /\ f.total_length = 40 /\ f.protocol = "other"
                            /\ f.data_offset = 5 /\ f.udp_length = 8}

MCFrames ==
  {f \in Ipv4Frames : /\ f.protocol # "tcp" => f.data_offset = 5
                      /\ f.protocol # "udp" => f.udp_length = 8}
    \cup {[f EXCEPT !.version = 6] : f \in Icmp}
    \cup {[f EXCEPT !.ethertype = type] : f \in Icmp, type \in {"arp", "ipv6", "vlan", "other_l3"}}
=============================================================================
