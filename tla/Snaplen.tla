------------------------------- MODULE Snaplen ------------------------------
(***************************************************************************)
(* One frame of a capture, decoded whole and then as every shorter capture *)
(* of it would be: the snapshot length of a capture cuts frames anywhere,  *)
(* and cuts no header field differently from payload.                      *)
(***************************************************************************)
EXTENDS Decode

CONSTANT Frames   \* the frames, as captured whole

ASSUME SnaplenAssumption == Frames \subseteq Frame

VARIABLE frame

Init == frame \in Frames

\* The same frame with one byte less of it captured.
Cut == /\ frame.size > 0
       /\ frame' = [frame EXCEPT !.size = @ - 1]

Next == Cut

Spec == Init /\ [][Next]_frame

-----------------------------------------------------------------------------
Reads(view, result) == /\ result.read <= view.len
                       /\ view.start + view.len <= frame.size

\* "Nothing here can read past the end of the frame" (decode.h:20-22): a decoder
\* reads only within its window, and no window reaches past what was captured.
ReadsStayInFrame ==
  LET whole == [start |-> 0, len |-> frame.size]
      eth   == DecodeEth(frame)
      ip    == DecodeIpv4(eth.payload, frame)
      l4    == DecodeL4(ip.payload, frame)
  IN  /\ Reads(whole, eth) /\ Reads(eth.payload, ip) /\ Reads(ip.payload, l4)
      /\ l4.payload.start + l4.payload.len <= frame.size

\* Where the headers of the three layers end, by their own accounts.
L4Start == kEthSize + Words(frame.ihl)

HeadersEnd == L4Start + IF frame.protocol = "tcp" THEN Words(frame.data_offset) ELSE kUdpSize

\* What App-ID is given is all that was captured of what the sender sent after the
\* headers: no option, no Ethernet padding, nothing past the length of the packet
\* or of the datagram (decode.cpp:92-98, decode.h:139-150).
PayloadIsWhatWasSent ==
  LET outcome == Outcome(frame)
  IN  outcome.handed =>
        Bytes(outcome.payload) =
          {b \in 0 .. frame.size - 1 :
             /\ b >= HeadersEnd
             /\ b < kEthSize + frame.total_length
             /\ frame.protocol = "udp" => b < L4Start + frame.udp_length}

\* "A truncated capture, common and harmless" (decode.cpp:97-98): a byte less of a
\* frame costs the payload that byte at most, and makes no frame acceptable.
TruncationIsHarmless ==
  [][Outcome(frame').handed =>
       /\ Outcome(frame).handed
       /\ Bytes(Outcome(frame').payload) = Bytes(Outcome(frame).payload) \ {frame'.size}]_frame

\* Every frame is counted in one of the ways that the pipeline is modelled with:
\* those of Stopped, or as IPv4 with its checksum noted and not enforced.
CountedAsExpected ==
  LET outcome == Outcome(frame)
  IN  IF outcome.handed THEN outcome.names \in {{"ipv4"}, {"ipv4", "bad_checksum"}}
                        ELSE outcome.names \in Stopped
=============================================================================
