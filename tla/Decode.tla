------------------------------- MODULE Decode -------------------------------
(***************************************************************************)
(* The decoders of decode.cpp over the windows of byteview.h, and the part *)
(* of Engine::process that strings them together.  A frame is the number   *)
(* of bytes captured of it and the header fields that decide how it is     *)
(* decoded, which are its bytes' whether captured or not; a ByteView is a  *)
(* window of the frame.  A decoder's result has its status, how many bytes *)
(* from the start of its window it has read, and the payload's window.     *)
(***************************************************************************)
EXTENDS Integers

EtherType == {"ipv4", "arp", "ipv6", "vlan", "other_l3"}
IpProto   == {"tcp", "udp", "other"}

Nibble == 0 .. 15
U13    == 0 .. 2^13 - 1
U16    == 0 .. 2^16 - 1

Frame == [size : Nat, ethertype : EtherType,
          version : Nibble, ihl : Nibble, total_length : U16, frag_offset : U13,
          protocol : IpProto, checksum_ok : BOOLEAN,
          data_offset : Nibble,     \* of a TCP segment
          udp_length : U16]         \* of a UDP datagram

kEthSize    == 14
kIpv4Size   == 20
kTcpMinSize == 20
kUdpSize    == 8

-----------------------------------------------------------------------------
(***************************************************************************)
(* ByteView.  has() subtracts, so that nothing it computes can wrap.       *)
(***************************************************************************)
NoBytes == [start |-> 0, len |-> 0]

Has(view, off, n) == off <= view.len /\ n <= view.len - off

Slice(view, off, n) ==
  IF Has(view, off, n) THEN [start |-> view.start + off, len |-> n] ELSE NoBytes

From(view, off) ==
  IF off <= view.len THEN [start |-> view.start + off, len |-> view.len - off] ELSE NoBytes

Bytes(view) == view.start .. view.start + view.len - 1

-----------------------------------------------------------------------------
(***************************************************************************)
(* The decoders, each a chain of early returns.                            *)
(***************************************************************************)
Failed(why, read)      == [status |-> why, read |-> read, payload |-> NoBytes]
Decoded(read, payload) == [status |-> "ok", read |-> read, payload |-> payload]

Words(n)     == 4 * n
Lesser(a, b) == IF a < b THEN a ELSE b

\* A slip to notice: a header length not compared with what was captured.
BelowMinimum(view, words) == words < 5

\* A header's own count of 32-bit words: below the fixed part, or past the window.
BadHeaderLength(view, words) == words < 5 \/ ~Has(view, 0, Words(words))

\* A slip to notice: the window's end taken for the payload's.
PaddingKept(view, header, length) == From(view, header)

\* The payload after a header, when a length field covers both.
Clipped(view, header, length) ==
  Slice(view, header, Lesser(length - header, view.len - header))

DecodeEth(f) ==
  LET whole == [start |-> 0, len |-> f.size]
  IN  IF ~Has(whole, 0, kEthSize) THEN Failed("short_header", 0)
      ELSE Decoded(kEthSize, From(whole, kEthSize))

\* The checksum has every byte of the header read before the length is judged.
DecodeIpv4(pkt, f) ==
  LET header == Words(f.ihl)
  IN  IF ~Has(pkt, 0, kIpv4Size) THEN Failed("short_header", 0)
      ELSE IF f.version # 4 THEN Failed("bad_version", 1)
      ELSE IF BadHeaderLength(pkt, f.ihl) THEN Failed("bad_ihl", 1)
      ELSE IF f.total_length < header THEN Failed("bad_length", header)
      ELSE Decoded(header, Clipped(pkt, header, f.total_length))

DecodeTcp(seg, f) ==
  IF ~Has(seg, 0, kTcpMinSize) THEN Failed("short_header", 0)
  ELSE IF BadHeaderLength(seg, f.data_offset) THEN Failed("bad_length", 13)
  ELSE Decoded(16, From(seg, Words(f.data_offset)))

\* A slip to notice: the length field taken at its word, and the slice fails closed.
LengthTrusted(seg, f) ==
  IF ~Has(seg, 0, kUdpSize) THEN Failed("short_header", 0)
  ELSE IF f.udp_length < kUdpSize THEN Failed("bad_length", 6)
  ELSE Decoded(6, Slice(seg, kUdpSize, f.udp_length - kUdpSize))

DecodeUdp(seg, f) ==
  IF ~Has(seg, 0, kUdpSize) THEN Failed("short_header", 0)
  ELSE IF f.udp_length < kUdpSize THEN Failed("bad_length", 6)
  ELSE Decoded(6, Clipped(seg, kUdpSize, f.udp_length))

-----------------------------------------------------------------------------
(***************************************************************************)
(* process and the first half of handle_l4: a frame is stopped, and some   *)
(* counters say why, or its payload is handed on to the flow table.        *)
(***************************************************************************)
DecodeL4(seg, f) == CASE f.protocol = "tcp"   -> DecodeTcp(seg, f)
                      [] f.protocol = "udp"   -> DecodeUdp(seg, f)
                      [] f.protocol = "other" -> Failed("other_l4", 0)

Stop(names)            == [handed |-> FALSE, names |-> names, payload |-> NoBytes]
HandOn(names, payload) == [handed |-> TRUE, names |-> names, payload |-> payload]

Checksum(f) == IF f.checksum_ok THEN {} ELSE {"bad_checksum"}

\* A slip to notice: the checksum enforced, where it is only reported.
ChecksumEnforced(f) ==
  LET eth == DecodeEth(f)
      ip  == DecodeIpv4(eth.payload, f)
      l4  == DecodeL4(ip.payload, f)
  IN  IF eth.status # "ok" THEN Stop({eth.status})
      ELSE IF f.ethertype # "ipv4" THEN Stop({f.ethertype})
      ELSE IF ip.status # "ok" THEN Stop({"ipv4", ip.status})
      ELSE IF ~f.checksum_ok THEN Stop({"ipv4", "bad_checksum"})
      ELSE IF f.frag_offset > 0 THEN Stop({"ipv4", "fragments"})
      ELSE IF l4.status # "ok" THEN Stop({"ipv4", l4.status})
      ELSE HandOn({"ipv4"}, l4.payload)

Outcome(f) ==
  LET eth == DecodeEth(f)
      ip  == DecodeIpv4(eth.payload, f)
      l4  == DecodeL4(ip.payload, f)
  IN  IF eth.status # "ok" THEN Stop({eth.status})
      ELSE IF f.ethertype # "ipv4" THEN Stop({f.ethertype})
      ELSE IF ip.status # "ok" THEN Stop({"ipv4", ip.status})
      ELSE IF f.frag_offset > 0 THEN Stop({"ipv4", "fragments"} \cup Checksum(f))
      ELSE IF l4.status # "ok" THEN Stop({"ipv4", l4.status} \cup Checksum(f))
      ELSE HandOn({"ipv4"} \cup Checksum(f), l4.payload)

(***************************************************************************)
(* What may be counted of a frame that is stopped: a frame too short, not  *)
(* IPv4, a bad IPv4 header, or an IPv4 packet (with a good checksum or     *)
(* not) that is a later fragment, has a bad TCP or UDP header, or carries  *)
(* another protocol.                                                       *)
(***************************************************************************)
Stopped ==
  {{"short_header"}, {"arp"}, {"ipv6"}, {"vlan"}, {"other_l3"}}
    \cup {{"ipv4", why} : why \in {"short_header", "bad_version", "bad_ihl", "bad_length"}}
    \cup {{"ipv4", why} \cup sum : why \in {"fragments", "short_header", "bad_length", "other_l4"},
                                   sum \in {{}, {"bad_checksum"}}}
=============================================================================
