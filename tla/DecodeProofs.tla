---------------------------- MODULE DecodeProofs ----------------------------
(***************************************************************************)
(* Proofs about the decoders, for every frame and every place to cut it.   *)
(***************************************************************************)
EXTENDS Snaplen, TLAPS

View == [start : Nat, len : Nat]

\* The numbers of a frame.
LEMMA FrameFields ==
  ASSUME NEW f \in Frame
  PROVE  /\ f.size \in Nat /\ f.ihl \in Nat /\ f.total_length \in Nat /\ f.frag_offset \in Nat
         /\ f.data_offset \in Nat /\ f.udp_length \in Nat
         /\ f.ethertype \in EtherType /\ f.protocol \in IpProto
<1>1. Nibble \subseteq Nat /\ U13 \subseteq Nat /\ U16 \subseteq Nat
  BY DEF Nibble, U13, U16
<1> QED
  BY <1>1 DEF Frame

-----------------------------------------------------------------------------
(***************************************************************************)
(* Windows, by their numbers.                                              *)
(***************************************************************************)
\* has, from the start of a window.
LEMMA HasAtStart ==
  ASSUME NEW view \in View, NEW n \in Nat
  PROVE  Has(view, 0, n) <=> n <= view.len
BY DEF View, Has

\* What is left after a header that fits.
LEMMA FromFits ==
  ASSUME NEW view \in View, NEW n \in Nat, n <= view.len
  PROVE  From(view, n) = [start |-> view.start + n, len |-> view.len - n]
BY DEF From

\* A clipped payload always fits: the slice never fails closed.
LEMMA ClippedFits ==
  ASSUME NEW view \in View, NEW n \in Nat, NEW length \in Nat, n <= view.len, n <= length
  PROVE  Clipped(view, n, length) =
           [start |-> view.start + n, len |-> Lesser(length - n, view.len - n)]
<1> DEFINE rest == Lesser(length - n, view.len - n)
<1>1. view.len \in Nat
  BY DEF View
<1>2. rest <= view.len - n
  BY <1>1 DEF Lesser
<1> HIDE DEF rest
<1>3. Slice(view, n, rest) = [start |-> view.start + n, len |-> rest]
  BY <1>2 DEF Slice, Has
<1> QED
  BY <1>3 DEF Clipped, rest

-----------------------------------------------------------------------------
(***************************************************************************)
(* One decoder at a time.                                                  *)
(***************************************************************************)
\* The Ethernet header is there, or nothing is read.
LEMMA EthDecoded ==
  ASSUME NEW f \in Frame
  PROVE  LET eth == DecodeEth(f)
         IN  IF f.size < kEthSize THEN eth = Failed("short_header", 0)
             ELSE eth = Decoded(kEthSize, [start |-> kEthSize, len |-> f.size - kEthSize])
<1> DEFINE whole == [start |-> 0, len |-> f.size]
<1>1. f.size \in Nat /\ whole \in View /\ whole.len = f.size /\ whole.start = 0
  BY FrameFields DEF View
<1>2. kEthSize \in Nat /\ 0 + kEthSize = kEthSize
  BY DEF kEthSize
<1> HIDE DEF whole
<1>3. Has(whole, 0, kEthSize) <=> kEthSize <= f.size
  BY <1>1, <1>2, HasAtStart
<1>4. CASE f.size < kEthSize
  BY <1>1, <1>2, <1>3, <1>4 DEF DecodeEth, whole
<1>5. CASE ~(f.size < kEthSize)
  <2>1. kEthSize <= f.size
    BY <1>1, <1>2, <1>5
  <2>2. From(whole, kEthSize) = [start |-> kEthSize, len |-> f.size - kEthSize]
    BY <1>1, <1>2, <2>1, FromFits
  <2> QED
    BY <1>3, <1>5, <2>1, <2>2 DEF DecodeEth, whole
<1> QED
  BY <1>4, <1>5

\* An IPv4 packet decodes to its segment, clipped.
LEMMA Ipv4Decoded ==
  ASSUME NEW f \in Frame, NEW pkt \in View
  PROVE  LET ip     == DecodeIpv4(pkt, f)
             header == Words(f.ihl)
             good   == /\ kIpv4Size <= pkt.len /\ f.version = 4
                       /\ 5 <= f.ihl /\ header <= pkt.len
         IN  \/ /\ ip.status \in {"short_header", "bad_version", "bad_ihl"}
                /\ ip.read \in Nat /\ ip.read <= pkt.len
                /\ ip.payload = NoBytes /\ ~good
             \/ /\ ip = Failed("bad_length", header)
                /\ good /\ f.total_length < header
             \/ /\ ip = Decoded(header, [start |-> pkt.start + header,
                                         len |-> Lesser(f.total_length - header,
                                                        pkt.len - header)])
                /\ good /\ header <= f.total_length
<1> DEFINE header == Words(f.ihl)
           good   == /\ kIpv4Size <= pkt.len /\ f.version = 4
                     /\ 5 <= f.ihl /\ header <= pkt.len
           ip     == DecodeIpv4(pkt, f)
<1>1. /\ f.ihl \in Nat /\ f.total_length \in Nat /\ pkt.len \in Nat
      /\ header \in Nat /\ kIpv4Size \in Nat /\ 1 <= kIpv4Size
  BY FrameFields DEF View, Words, kIpv4Size
<1>2. Has(pkt, 0, kIpv4Size) <=> kIpv4Size <= pkt.len
  BY <1>1, HasAtStart
<1>3. BadHeaderLength(pkt, f.ihl) <=> ~(5 <= f.ihl /\ header <= pkt.len)
  <2>1. Has(pkt, 0, header) <=> header <= pkt.len
    BY <1>1, HasAtStart
  <2> QED
    BY <1>1, <2>1 DEF BadHeaderLength
<1>4. good /\ header <= f.total_length =>
        Clipped(pkt, header, f.total_length) =
          [start |-> pkt.start + header,
           len |-> Lesser(f.total_length - header, pkt.len - header)]
  BY <1>1, ClippedFits
<1> HIDE DEF header
<1>5. CASE ~(kIpv4Size <= pkt.len)
  <2>1. ip = Failed("short_header", 0)
    BY <1>2, <1>5 DEF DecodeIpv4, header
  <2> QED
    BY <1>1, <1>5, <2>1 DEF Failed, header
<1>6. CASE kIpv4Size <= pkt.len /\ f.version # 4
  <2>1. ip = Failed("bad_version", 1)
    BY <1>2, <1>6 DEF DecodeIpv4, header
  <2>2. 1 <= pkt.len
    BY <1>1, <1>6
  <2> QED
    BY <1>6, <2>1, <2>2 DEF Failed, header
<1>7. CASE kIpv4Size <= pkt.len /\ f.version = 4 /\ BadHeaderLength(pkt, f.ihl)
  <2>1. ip = Failed("bad_ihl", 1)
    BY <1>2, <1>7 DEF DecodeIpv4, header
  <2>2. 1 <= pkt.len
    BY <1>1, <1>7
  <2> QED
    BY <1>3, <1>7, <2>1, <2>2 DEF Failed, header
<1>8. CASE good /\ f.total_length < header
  <2>1. ip = Failed("bad_length", header)
    BY <1>2, <1>3, <1>8 DEF DecodeIpv4, header
  <2> QED
    BY <1>8, <2>1 DEF header
<1>9. CASE good /\ header <= f.total_length
  <2>1. ~(f.total_length < header)
    BY <1>1, <1>9
  <2>2. ip = Decoded(header, Clipped(pkt, header, f.total_length))
    BY <1>2, <1>3, <1>9, <2>1 DEF DecodeIpv4, header
  <2> QED
    BY <1>4, <1>9, <2>2 DEF header
<1> QED
  BY <1>1, <1>3, <1>5, <1>6, <1>7, <1>8, <1>9

\* A TCP segment decodes to what follows its header.
LEMMA TcpDecoded ==
  ASSUME NEW f \in Frame, NEW seg \in View
  PROVE  LET tcp    == DecodeTcp(seg, f)
             header == Words(f.data_offset)
         IN  \/ /\ tcp.status \in {"short_header", "bad_length"}
                /\ tcp.read \in Nat /\ tcp.read <= seg.len
                /\ tcp.payload = NoBytes
                /\ ~(5 <= f.data_offset /\ header <= seg.len)
             \/ /\ tcp = Decoded(16, [start |-> seg.start + header, len |-> seg.len - header])
                /\ 16 <= seg.len
                /\ 5 <= f.data_offset /\ header <= seg.len
<1> DEFINE header == Words(f.data_offset)
           tcp    == DecodeTcp(seg, f)
<1>1. /\ f.data_offset \in Nat /\ seg.len \in Nat /\ header \in Nat
      /\ 5 <= f.data_offset => kTcpMinSize <= header
      /\ kTcpMinSize \in Nat /\ 16 <= kTcpMinSize
  BY FrameFields DEF View, Words, kTcpMinSize
<1>2. /\ Has(seg, 0, kTcpMinSize) <=> kTcpMinSize <= seg.len
      /\ Has(seg, 0, header) <=> header <= seg.len
  BY <1>1, HasAtStart
<1>3. BadHeaderLength(seg, f.data_offset) <=> ~(5 <= f.data_offset /\ header <= seg.len)
  BY <1>1, <1>2 DEF BadHeaderLength
<1> HIDE DEF header
<1>4. CASE ~(kTcpMinSize <= seg.len)
  <2>1. tcp = Failed("short_header", 0)
    BY <1>2, <1>4 DEF DecodeTcp
  <2>2. ~(5 <= f.data_offset /\ header <= seg.len)
    BY <1>1, <1>4
  <2> QED
    BY <1>1, <2>1, <2>2 DEF Failed, header
<1>5. CASE kTcpMinSize <= seg.len /\ BadHeaderLength(seg, f.data_offset)
  <2>1. tcp = Failed("bad_length", 13)
    BY <1>2, <1>5 DEF DecodeTcp
  <2>2. 13 <= seg.len
    BY <1>1, <1>5
  <2> QED
    BY <1>3, <1>5, <2>1, <2>2 DEF Failed, header
<1>6. CASE kTcpMinSize <= seg.len /\ ~BadHeaderLength(seg, f.data_offset)
  <2>1. tcp = Decoded(16, From(seg, header))
    BY <1>2, <1>6 DEF DecodeTcp, header
  <2>2. From(seg, header) = [start |-> seg.start + header, len |-> seg.len - header]
    BY <1>1, <1>3, <1>6, FromFits
  <2>3. 16 <= seg.len
    BY <1>1, <1>6
  <2> QED
    BY <1>3, <1>6, <2>1, <2>2, <2>3 DEF header
<1> QED
  BY <1>4, <1>5, <1>6

\* A UDP datagram decodes to what follows its header, clipped.
LEMMA UdpDecoded ==
  ASSUME NEW f \in Frame, NEW seg \in View
  PROVE  LET udp == DecodeUdp(seg, f)
         IN  \/ /\ udp.status \in {"short_header", "bad_length"}
                /\ udp.read \in Nat /\ udp.read <= seg.len
                /\ udp.payload = NoBytes
                /\ ~(kUdpSize <= f.udp_length /\ kUdpSize <= seg.len)
             \/ /\ udp = Decoded(6, [start |-> seg.start + kUdpSize,
                                     len |-> Lesser(f.udp_length - kUdpSize,
                                                    seg.len - kUdpSize)])
                /\ 6 <= seg.len
                /\ kUdpSize <= f.udp_length /\ kUdpSize <= seg.len
<1> DEFINE udp == DecodeUdp(seg, f)
<1>1. f.udp_length \in Nat /\ seg.len \in Nat /\ kUdpSize \in Nat /\ 6 <= kUdpSize
  BY FrameFields DEF View, kUdpSize
<1>2. Has(seg, 0, kUdpSize) <=> kUdpSize <= seg.len
  BY <1>1, HasAtStart
<1>3. CASE ~(kUdpSize <= seg.len)
  <2>1. udp = Failed("short_header", 0)
    BY <1>2, <1>3 DEF DecodeUdp
  <2> QED
    BY <1>1, <1>3, <2>1 DEF Failed
<1>4. CASE kUdpSize <= seg.len /\ f.udp_length < kUdpSize
  <2>1. udp = Failed("bad_length", 6)
    BY <1>2, <1>4 DEF DecodeUdp
  <2>2. 6 <= seg.len /\ ~(kUdpSize <= f.udp_length)
    BY <1>1, <1>4
  <2> QED
    BY <2>1, <2>2 DEF Failed
<1>5. CASE kUdpSize <= seg.len /\ kUdpSize <= f.udp_length
  <2>1. ~(f.udp_length < kUdpSize) /\ 6 <= seg.len
    BY <1>1, <1>5
  <2>2. udp = Decoded(6, Clipped(seg, kUdpSize, f.udp_length))
    BY <1>2, <1>5, <2>1 DEF DecodeUdp
  <2>3. Clipped(seg, kUdpSize, f.udp_length) =
          [start |-> seg.start + kUdpSize,
           len |-> Lesser(f.udp_length - kUdpSize, seg.len - kUdpSize)]
    BY <1>1, <1>5, ClippedFits
  <2> QED
    BY <1>5, <2>1, <2>2, <2>3
<1> QED
  BY <1>1, <1>3, <1>4, <1>5

-----------------------------------------------------------------------------
(***************************************************************************)
(* The decoders strung together.                                           *)
(***************************************************************************)
Packet(f)  == [start |-> kEthSize, len |-> f.size - kEthSize]
Segment(f) == [start |-> kEthSize + Words(f.ihl),
               len   |-> Lesser(f.total_length - Words(f.ihl),
                                f.size - kEthSize - Words(f.ihl))]

\* A frame whose segment the decoders reach, and one they hand on.
ReachesL4(f) == /\ kEthSize <= f.size /\ kIpv4Size <= f.size - kEthSize /\ f.version = 4
                /\ 5 <= f.ihl /\ Words(f.ihl) <= f.size - kEthSize
                /\ Words(f.ihl) <= f.total_length

GoodL4(f) == \/ /\ f.protocol = "tcp"
                /\ 5 <= f.data_offset /\ Words(f.data_offset) <= Segment(f).len
             \/ /\ f.protocol = "udp"
                /\ kUdpSize <= f.udp_length /\ kUdpSize <= Segment(f).len

Accepted(f) == ReachesL4(f) /\ f.ethertype = "ipv4" /\ f.frag_offset = 0 /\ GoodL4(f)

\* What the sender sent after the headers, as far as it was captured.
Sent(f) ==
  LET l4  == kEthSize + Words(f.ihl)
      end == l4 + IF f.protocol = "tcp" THEN Words(f.data_offset) ELSE kUdpSize
  IN  {b \in 0 .. f.size - 1 : /\ b >= end
                               /\ b < kEthSize + f.total_length
                               /\ f.protocol = "udp" => b < l4 + f.udp_length}

\* The windows of a frame are windows.
LEMMA Windows ==
  ASSUME NEW f \in Frame
  PROVE  /\ NoBytes \in View
         /\ kEthSize <= f.size => Packet(f) \in View
         /\ ReachesL4(f) => /\ Segment(f) \in View
                            /\ Segment(f).start + Segment(f).len <= f.size
<1>1. /\ f.size \in Nat /\ f.ihl \in Nat /\ f.total_length \in Nat
      /\ kEthSize \in Nat /\ Words(f.ihl) \in Nat
  BY FrameFields DEF kEthSize, Words
<1>2. NoBytes \in View
  BY DEF NoBytes, View
<1>3. ASSUME kEthSize <= f.size PROVE Packet(f) \in View
  BY <1>1, <1>3 DEF Packet, View
<1>4. ASSUME ReachesL4(f)
      PROVE  Segment(f) \in View /\ Segment(f).start + Segment(f).len <= f.size
  BY <1>1, <1>4 DEF ReachesL4, Segment, View, Lesser
<1> QED
  BY <1>2, <1>3, <1>4

\* What the three decoders make of a frame.
LEMMA EthIs ==
  ASSUME NEW f \in Frame
  PROVE  LET eth == DecodeEth(f)
         IN  IF kEthSize <= f.size
               THEN eth.status = "ok" /\ eth.read = kEthSize /\ eth.payload = Packet(f)
               ELSE eth.status = "short_header" /\ eth.read = 0 /\ eth.payload = NoBytes
<1>1. f.size \in Nat /\ kEthSize \in Nat
  BY FrameFields DEF kEthSize
<1>2. kEthSize <= f.size <=> ~(f.size < kEthSize)
  BY <1>1
<1> QED
  BY <1>2, EthDecoded DEF Failed, Decoded, Packet

LEMMA Ipv4Is ==
  ASSUME NEW f \in Frame
  PROVE  LET pkt == DecodeEth(f).payload
             ip  == DecodeIpv4(pkt, f)
         IN  /\ pkt \in View /\ pkt.start + pkt.len <= f.size
             /\ ip.read \in Nat /\ ip.read <= pkt.len
             /\ IF ReachesL4(f)
                  THEN ip.status = "ok" /\ ip.payload = Segment(f)
                  ELSE /\ ip.status \in {"short_header", "bad_version", "bad_ihl", "bad_length"}
                       /\ ip.payload = NoBytes
<1> DEFINE pkt == DecodeEth(f).payload
           ip  == DecodeIpv4(pkt, f)
           header == Words(f.ihl)
<1>1. /\ f.size \in Nat /\ f.ihl \in Nat /\ f.total_length \in Nat
      /\ kEthSize \in Nat /\ header \in Nat /\ kIpv4Size \in Nat /\ 1 <= kIpv4Size
  BY FrameFields DEF kEthSize, kIpv4Size, Words
<1>2. CASE ~(kEthSize <= f.size)
  <2>1. pkt = NoBytes
    BY <1>2, EthIs
  <2>2. /\ pkt \in View /\ pkt.start = 0 /\ pkt.len = 0 /\ ~(kIpv4Size <= pkt.len)
        /\ ~ReachesL4(f)
    BY <1>1, <1>2, <2>1 DEF NoBytes, View, ReachesL4
  <2> HIDE DEF pkt
  <2>3. /\ ip.status \in {"short_header", "bad_version", "bad_ihl"}
        /\ ip.read \in Nat /\ ip.read <= pkt.len
        /\ ip.payload = NoBytes
    BY <2>2, Ipv4Decoded
  <2> QED
    BY <1>1, <2>2, <2>3 DEF pkt
<1>3. CASE kEthSize <= f.size
  <2>1. pkt = Packet(f)
    BY <1>3, EthIs
  <2>2. /\ pkt \in View /\ pkt.start = kEthSize /\ pkt.len = f.size - kEthSize
        /\ pkt.start + pkt.len <= f.size
    BY <1>1, <1>3, <2>1, Windows DEF Packet
  <2> HIDE DEF pkt
  <2> DEFINE good == /\ kIpv4Size <= pkt.len /\ f.version = 4
                     /\ 5 <= f.ihl /\ header <= pkt.len
  <2>3. ReachesL4(f) <=> good /\ header <= f.total_length
    BY <1>3, <2>2 DEF ReachesL4
  <2>4. CASE /\ ip.status \in {"short_header", "bad_version", "bad_ihl"}
             /\ ip.read \in Nat /\ ip.read <= pkt.len
             /\ ip.payload = NoBytes /\ ~good
    BY <2>2, <2>3, <2>4 DEF pkt
  <2>5. CASE ip = Failed("bad_length", header) /\ good /\ f.total_length < header
    <3>1. ~ReachesL4(f)
      BY <1>1, <2>3, <2>5
    <3> QED
      BY <1>1, <2>2, <2>5, <3>1 DEF Failed, pkt
  <2>6. CASE /\ ip = Decoded(header, [start |-> pkt.start + header,
                                      len |-> Lesser(f.total_length - header,
                                                     pkt.len - header)])
             /\ good /\ header <= f.total_length
    <3>1. ip.payload = Segment(f)
      BY <2>2, <2>6 DEF Decoded, Segment
    <3> QED
      BY <1>1, <2>2, <2>3, <2>6, <3>1 DEF Decoded, pkt
  <2> QED
    BY <2>2, <2>4, <2>5, <2>6, Ipv4Decoded
<1> QED
  BY <1>2, <1>3

LEMMA L4Is ==
  ASSUME NEW f \in Frame, NEW seg \in View
  PROVE  LET l4 == DecodeL4(seg, f)
         IN  /\ l4.read \in Nat /\ l4.read <= seg.len
             /\ \/ /\ l4.status \in {"short_header", "bad_length", "other_l4"}
                   /\ l4.payload = NoBytes
                \/ /\ l4.status = "ok" /\ l4.payload \in View
                   /\ l4.payload.start + l4.payload.len <= seg.start + seg.len
<1>1. /\ f.protocol \in {"tcp", "udp", "other"} /\ seg.len \in Nat /\ seg.start \in Nat
      /\ f.data_offset \in Nat /\ f.udp_length \in Nat /\ kUdpSize \in Nat
  BY FrameFields DEF IpProto, View, kUdpSize
<1>2. CASE f.protocol = "tcp"
  <2>1. DecodeL4(seg, f) = DecodeTcp(seg, f)
    BY <1>2 DEF DecodeL4
  <2> DEFINE header  == Words(f.data_offset)
             payload == [start |-> seg.start + header, len |-> seg.len - header]
  <2>2. header \in Nat
    BY <1>1 DEF Words
  <2>3. header <= seg.len => /\ payload \in View
                             /\ payload.start + payload.len <= seg.start + seg.len
    BY <1>1, <2>2 DEF View
  <2> QED
    BY <1>1, <2>1, <2>3, TcpDecoded DEF Decoded
<1>3. CASE f.protocol = "udp"
  <2>1. DecodeL4(seg, f) = DecodeUdp(seg, f)
    BY <1>3 DEF DecodeL4
  <2> DEFINE rest    == Lesser(f.udp_length - kUdpSize, seg.len - kUdpSize)
             payload == [start |-> seg.start + kUdpSize, len |-> rest]
  <2>2. kUdpSize <= f.udp_length /\ kUdpSize <= seg.len =>
          /\ payload \in View
          /\ payload.start + payload.len <= seg.start + seg.len
    BY <1>1 DEF View, Lesser
  <2> QED
    BY <1>1, <2>1, <2>2, UdpDecoded DEF Decoded
<1>4. CASE f.protocol = "other"
  <2>1. DecodeL4(seg, f) = Failed("other_l4", 0)
    BY <1>4 DEF DecodeL4
  <2> QED
    BY <1>1, <2>1 DEF Failed
<1> QED
  BY <1>1, <1>2, <1>3, <1>4

\* The payload of a good segment is what was sent.
LEMMA PayloadIs ==
  ASSUME NEW f \in Frame, ReachesL4(f)
  PROVE  LET l4 == DecodeL4(Segment(f), f)
         IN  /\ l4.status = "ok" <=> GoodL4(f)
             /\ GoodL4(f) => Bytes(l4.payload) = Sent(f)
<1> DEFINE seg == Segment(f)
           l4  == DecodeL4(seg, f)
<1>1. /\ f.size \in Nat /\ f.total_length \in Nat /\ Words(f.ihl) \in Nat
      /\ f.data_offset \in Nat /\ f.udp_length \in Nat /\ Words(f.data_offset) \in Nat
      /\ kEthSize \in Nat /\ kUdpSize \in Nat
      /\ f.protocol \in {"tcp", "udp", "other"}
  BY FrameFields DEF kEthSize, kUdpSize, Words, IpProto
<1>2. /\ seg \in View /\ seg.start \in Nat /\ seg.len \in Nat
      /\ seg.start = kEthSize + Words(f.ihl)
      /\ seg.len = Lesser(f.total_length - Words(f.ihl), f.size - kEthSize - Words(f.ihl))
  BY Windows DEF Segment, View
<1>3. /\ seg.start + seg.len <= f.size
      /\ \A b \in Int : b < seg.start + seg.len <=> b < f.size /\ b < kEthSize + f.total_length
  BY <1>1, <1>2 DEF Lesser
<1> HIDE DEF seg
<1>4. CASE f.protocol = "tcp"
  <2> DEFINE header == Words(f.data_offset)
  <2>1. l4 = DecodeTcp(seg, f)
    BY <1>4 DEF DecodeL4
  <2>2. l4.status = "ok" <=> 5 <= f.data_offset /\ header <= seg.len
    BY <1>2, <2>1, TcpDecoded DEF Decoded
  <2>3. GoodL4(f) <=> 5 <= f.data_offset /\ header <= seg.len
    BY <1>4 DEF GoodL4, seg
  <2>4. ASSUME GoodL4(f) PROVE Bytes(l4.payload) = Sent(f)
    <3>1. l4.payload = [start |-> seg.start + header, len |-> seg.len - header]
      BY <1>2, <2>1, <2>3, <2>4, TcpDecoded DEF Decoded
    <3>2. Bytes(l4.payload) = seg.start + header .. seg.start + seg.len - 1
      BY <1>1, <1>2, <3>1 DEF Bytes
    <3>3. Sent(f) = {b \in 0 .. f.size - 1 : /\ b >= seg.start + header
                                             /\ b < kEthSize + f.total_length}
      BY <1>2, <1>4 DEF Sent
    <3>4. \A b \in Int : b \in seg.start + header .. seg.start + seg.len - 1 <=>
                           /\ b >= 0 /\ b < f.size
                           /\ b >= seg.start + header /\ b < kEthSize + f.total_length
      <4>1. header \in Nat
        BY <1>1
      <4> HIDE DEF header
      <4> QED
        BY <1>1, <1>2, <1>3, <4>1
    <3> HIDE DEF header
    <3> QED
      BY <1>1, <3>2, <3>3, <3>4
  <2> QED
    BY <2>2, <2>3, <2>4 DEF seg
<1>5. CASE f.protocol = "udp"
  <2>1. l4 = DecodeUdp(seg, f)
    BY <1>5 DEF DecodeL4
  <2>2. l4.status = "ok" <=> kUdpSize <= f.udp_length /\ kUdpSize <= seg.len
    BY <1>2, <2>1, UdpDecoded DEF Decoded
  <2>3. GoodL4(f) <=> kUdpSize <= f.udp_length /\ kUdpSize <= seg.len
    BY <1>5 DEF GoodL4, seg
  <2>4. ASSUME GoodL4(f) PROVE Bytes(l4.payload) = Sent(f)
    <3> DEFINE rest == Lesser(f.udp_length - kUdpSize, seg.len - kUdpSize)
    <3>1. l4.payload = [start |-> seg.start + kUdpSize, len |-> rest]
      BY <1>2, <2>1, <2>3, <2>4, UdpDecoded DEF Decoded
    <3>2. /\ rest \in Int
          /\ \A b \in Int : b < seg.start + kUdpSize + rest <=>
                              b < seg.start + f.udp_length /\ b < seg.start + seg.len
      BY <1>1, <1>2 DEF Lesser
    <3> HIDE DEF rest
    <3>3. Bytes(l4.payload) = seg.start + kUdpSize .. seg.start + kUdpSize + rest - 1
      BY <3>1 DEF Bytes
    <3>4. Sent(f) = {b \in 0 .. f.size - 1 : /\ b >= seg.start + kUdpSize
                                             /\ b < kEthSize + f.total_length
                                             /\ b < seg.start + f.udp_length}
      BY <1>2, <1>5 DEF Sent
    <3>5. \A b \in Int : b \in seg.start + kUdpSize .. seg.start + kUdpSize + rest - 1 <=>
                           /\ b >= 0 /\ b < f.size
                           /\ b >= seg.start + kUdpSize
                           /\ b < kEthSize + f.total_length /\ b < seg.start + f.udp_length
      BY <1>1, <1>2, <1>3, <3>2
    <3> QED
      BY <1>1, <3>3, <3>4, <3>5
  <2> QED
    BY <2>2, <2>3, <2>4 DEF seg
<1>6. CASE f.protocol = "other"
  <2>1. l4.status = "other_l4"
    BY <1>6 DEF DecodeL4, Failed
  <2> QED
    BY <1>6, <2>1 DEF GoodL4, seg
<1> QED
  BY <1>1, <1>4, <1>5, <1>6

\* Which frames are handed on, and with what.
LEMMA HandedIsAccepted ==
  ASSUME NEW f \in Frame
  PROVE  /\ Outcome(f).handed <=> Accepted(f)
         /\ Accepted(f) => Bytes(Outcome(f).payload) = Sent(f)
<1> DEFINE eth == DecodeEth(f)
           ip  == DecodeIpv4(eth.payload, f)
           l4  == DecodeL4(ip.payload, f)
<1>1. /\ eth.status = "ok" <=> kEthSize <= f.size
      /\ ip.status = "ok" <=> ReachesL4(f)
      /\ ReachesL4(f) => ip.payload = Segment(f) /\ kEthSize <= f.size
  BY EthIs, Ipv4Is DEF ReachesL4
<1>2. ReachesL4(f) => /\ l4.status = "ok" <=> GoodL4(f)
                      /\ GoodL4(f) => Bytes(l4.payload) = Sent(f)
  BY <1>1, PayloadIs
<1>3. f.frag_offset > 0 <=> f.frag_offset # 0
  BY FrameFields
<1> HIDE DEF eth, ip, l4
<1>4. CASE Accepted(f)
  <2>1. Outcome(f) = HandOn({"ipv4"} \cup Checksum(f), l4.payload)
    BY <1>1, <1>2, <1>3, <1>4 DEF Accepted, Outcome, eth, ip, l4
  <2> QED
    BY <1>2, <1>4, <2>1 DEF HandOn, Accepted
<1>5. CASE ~Accepted(f)
  <2>1. \E names : Outcome(f) = Stop(names)
    BY <1>1, <1>2, <1>3, <1>5 DEF Accepted, Outcome, eth, ip, l4
  <2> QED
    BY <1>5, <2>1 DEF Stop
<1> QED
  BY <1>4, <1>5

\* A frame cut by one byte: acceptable only if it was, and with a byte less.
LEMMA CutFrame ==
  ASSUME NEW f \in Frame, f.size > 0
  PROVE  LET g == [f EXCEPT !.size = @ - 1]
         IN  g \in Frame /\ (Accepted(g) => Accepted(f) /\ Sent(g) = Sent(f) \ {g.size})
<1> DEFINE g == [f EXCEPT !.size = @ - 1]
<1>1. /\ f.size \in Nat /\ f.total_length \in Nat /\ Words(f.ihl) \in Nat
      /\ Words(f.data_offset) \in Nat /\ f.udp_length \in Nat
      /\ kEthSize \in Nat /\ kUdpSize \in Nat /\ kIpv4Size \in Nat
  BY FrameFields DEF kEthSize, kUdpSize, kIpv4Size, Words
<1>2. f.size - 1 \in Nat
  BY <1>1
<1>3. g \in Frame
  BY <1>2 DEF Frame
<1>4. /\ g.size = f.size - 1
      /\ g.ethertype = f.ethertype /\ g.version = f.version /\ g.ihl = f.ihl
      /\ g.total_length = f.total_length /\ g.frag_offset = f.frag_offset
      /\ g.protocol = f.protocol /\ g.data_offset = f.data_offset
      /\ g.udp_length = f.udp_length
  BY DEF Frame
<1> HIDE DEF g
<1>5. ReachesL4(g) => ReachesL4(f)
  BY <1>1, <1>4 DEF ReachesL4
<1>6. Segment(g).len <= Segment(f).len /\ Segment(g).len \in Int /\ Segment(f).len \in Int
  BY <1>1, <1>4 DEF Segment, Lesser
<1>7. GoodL4(g) => GoodL4(f)
  BY <1>1, <1>4, <1>6 DEF GoodL4
<1>8. Sent(g) = Sent(f) \ {g.size}
  <2> DEFINE l4  == kEthSize + Words(f.ihl)
             end == l4 + IF f.protocol = "tcp" THEN Words(f.data_offset) ELSE kUdpSize
             P(b) == /\ b >= end
                     /\ b < kEthSize + f.total_length
                     /\ f.protocol = "udp" => b < l4 + f.udp_length
  <2>1. Sent(f) = {b \in 0 .. f.size - 1 : P(b)}
    BY DEF Sent
  <2>2. Sent(g) = {b \in 0 .. g.size - 1 : P(b)}
    BY <1>4 DEF Sent
  <2>3. 0 .. g.size - 1 = (0 .. f.size - 1) \ {g.size}
    BY <1>1, <1>4
  <2> HIDE DEF P
  <2> QED
    BY <2>1, <2>2, <2>3
<1> QED
  BY <1>3, <1>4, <1>5, <1>7, <1>8 DEF Accepted, g

-----------------------------------------------------------------------------
LEMMA FrameStays == Spec => [](frame \in Frame)
<1>1. Init => frame \in Frame
  BY SnaplenAssumption DEF Init
<1>2. frame \in Frame /\ [Next]_frame => (frame \in Frame)'
  BY CutFrame DEF Next, Cut
<1> QED
  BY <1>1, <1>2, PTL DEF Spec

\* The decoders read only captured bytes, of every frame however cut
\* (decode.h:20-22).
THEOREM NothingReadPastTheEnd == Spec => []ReadsStayInFrame
<1>1. frame \in Frame => ReadsStayInFrame
  <2> SUFFICES ASSUME frame \in Frame PROVE ReadsStayInFrame
    OBVIOUS
  <2> DEFINE whole == [start |-> 0, len |-> frame.size]
             eth   == DecodeEth(frame)
             ip    == DecodeIpv4(eth.payload, frame)
             l4    == DecodeL4(ip.payload, frame)
  <2>1. frame.size \in Nat /\ kEthSize \in Nat
    BY FrameFields DEF kEthSize
  <2>2. Reads(whole, eth)
    BY <2>1, EthIs DEF Reads
  <2>3. Reads(eth.payload, ip)
    BY Ipv4Is DEF Reads
  <2>4. ip.payload \in View /\ ip.payload.start + ip.payload.len <= frame.size
    BY <2>1, Ipv4Is, Windows DEF NoBytes
  <2> HIDE DEF whole, eth, ip
  <2>5. /\ l4.read <= ip.payload.len
        /\ \/ l4.payload = NoBytes
           \/ /\ l4.payload \in View
              /\ l4.payload.start + l4.payload.len <= ip.payload.start + ip.payload.len
    BY <2>4, L4Is
  <2>6. Reads(ip.payload, l4)
    BY <2>4, <2>5 DEF Reads
  <2>7. l4.payload.start + l4.payload.len <= frame.size
    <3>1. CASE l4.payload = NoBytes
      BY <2>1, <3>1 DEF NoBytes
    <3>2. CASE l4.payload # NoBytes
      BY <2>1, <2>4, <2>5, <3>2 DEF View
    <3> QED
      BY <2>5, <3>1, <3>2
  <2> QED
    BY <2>2, <2>3, <2>6, <2>7 DEF ReadsStayInFrame, whole, eth, ip
<1> QED
  BY <1>1, FrameStays, PTL

\* App-ID is given what was sent after the headers, as far as it was captured, and
\* nothing else (decode.cpp:92-98).
THEOREM PayloadIsNeverInvented == Spec => []PayloadIsWhatWasSent
<1>1. frame \in Frame => PayloadIsWhatWasSent
  <2> SUFFICES ASSUME frame \in Frame, Outcome(frame).handed
               PROVE  Bytes(Outcome(frame).payload) = Sent(frame)
    BY DEF PayloadIsWhatWasSent, Sent, HeadersEnd, L4Start
  <2> QED
    BY HandedIsAccepted
<1> QED
  BY <1>1, FrameStays, PTL

\* Every frame is counted in a way that the pipeline's model provides for
\* (engine.cpp:34-109).
THEOREM EveryFrameIsExpected == Spec => []CountedAsExpected
<1>1. frame \in Frame => CountedAsExpected
  <2> SUFFICES ASSUME frame \in Frame PROVE CountedAsExpected
    OBVIOUS
  <2> DEFINE eth == DecodeEth(frame)
             ip  == DecodeIpv4(eth.payload, frame)
             l4  == DecodeL4(ip.payload, frame)
             sum == Checksum(frame)
  <2>1. sum \in {{}, {"bad_checksum"}}
    BY DEF Checksum
  <2>2. eth.status \in {"ok", "short_header"}
    BY EthIs
  <2>3. ip.status \in {"ok", "short_header", "bad_version", "bad_ihl", "bad_length"}
    BY Ipv4Is
  <2>4. l4.status \in {"ok", "short_header", "bad_length", "other_l4"}
    <3>1. ip.payload \in View
      BY Ipv4Is, Windows
    <3> HIDE DEF ip
    <3> QED
      BY <3>1, L4Is
  <2>5. frame.ethertype \in EtherType
    BY FrameFields
  <2> HIDE DEF eth, ip, l4, sum
  <2>6. CASE eth.status # "ok"
    <3>1. Outcome(frame) = Stop({"short_header"})
      BY <2>2, <2>6 DEF Outcome, eth
    <3> QED
      BY <3>1 DEF Stop, CountedAsExpected, Stopped
  <2>7. CASE eth.status = "ok" /\ frame.ethertype # "ipv4"
    <3>1. Outcome(frame) = Stop({frame.ethertype})
      BY <2>7 DEF Outcome, eth
    <3>2. {frame.ethertype} \in Stopped
      BY <2>5, <2>7 DEF EtherType, Stopped
    <3> QED
      BY <3>1, <3>2 DEF Stop, CountedAsExpected
  <2>8. CASE eth.status = "ok" /\ frame.ethertype = "ipv4" /\ ip.status # "ok"
    <3>1. Outcome(frame) = Stop({"ipv4", ip.status})
      BY <2>8 DEF Outcome, eth, ip
    <3>2. {"ipv4", ip.status} \in Stopped
      BY <2>3, <2>8 DEF Stopped
    <3> QED
      BY <3>1, <3>2 DEF Stop, CountedAsExpected
  <2>9. CASE eth.status = "ok" /\ frame.ethertype = "ipv4" /\ ip.status = "ok"
    <3>1. \/ Outcome(frame) = Stop({"ipv4", "fragments"} \cup sum)
          \/ l4.status # "ok" /\ Outcome(frame) = Stop({"ipv4", l4.status} \cup sum)
          \/ Outcome(frame) = HandOn({"ipv4"} \cup sum, l4.payload)
      BY <2>9 DEF Outcome, eth, ip, l4, sum
    <3>2. \A why \in {"fragments", "short_header", "bad_length", "other_l4"} :
            {"ipv4", why} \cup sum \in Stopped
      BY <2>1 DEF Stopped
    <3>3. {"ipv4"} \cup sum \in {{"ipv4"}, {"ipv4", "bad_checksum"}}
      BY <2>1
    <3> QED
      BY <2>4, <3>1, <3>2, <3>3 DEF Stop, HandOn, CountedAsExpected
  <2> QED
    BY <2>6, <2>7, <2>8, <2>9
<1> QED
  BY <1>1, FrameStays, PTL

\* Wherever a capture cuts a frame, it takes no more than the bytes it cuts
\* (decode.cpp:97-98).
THEOREM CutsAreHarmless == Spec => TruncationIsHarmless
<1> DEFINE A == Outcome(frame').handed =>
                  /\ Outcome(frame).handed
                  /\ Bytes(Outcome(frame').payload)
                       = Bytes(Outcome(frame).payload) \ {frame'.size}
<1>1. frame \in Frame /\ [Next]_frame => [A]_frame
  <2> SUFFICES ASSUME frame \in Frame, Cut PROVE A
    BY DEF Next
  <2>1. frame.size > 0 /\ frame' = [frame EXCEPT !.size = @ - 1]
    BY DEF Cut
  <2>2. /\ frame' \in Frame
        /\ Accepted(frame') => Accepted(frame) /\ Sent(frame') = Sent(frame) \ {frame'.size}
    BY <2>1, CutFrame
  <2> QED
    BY <2>2, HandedIsAccepted
<1> QED
  BY <1>1, FrameStays, PTL DEF Spec, TruncationIsHarmless
=============================================================================
