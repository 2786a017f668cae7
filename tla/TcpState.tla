------------------------------ MODULE TcpState ------------------------------
(***************************************************************************)
(* The session state machine of tcp_state.cpp: what one TCP segment, or    *)
(* one UDP datagram, does to the state a session is in.  The operators     *)
(* take any record with the fields state and fin_from_initiator and        *)
(* return it advanced, as the code advances the Session it is given.       *)
(*                                                                         *)
(* A segment is its flags, a subset of TcpFlag, and its direction:         *)
(* to_initiator is TRUE of what flows from the responder.                  *)
(***************************************************************************)

SessionState == {"New", "SynSeen", "SynAckSeen", "Established",
                 "FinSeen", "Closing", "Closed"}

TcpFlag == {"syn", "ack", "fin", "rst"}

PureSyn(flags) == "syn" \in flags /\ "ack" \notin flags

-----------------------------------------------------------------------------
(***************************************************************************)
(* Slips in the machine below that the checks must notice: a third leg     *)
(* accepted from either side, a FIN retransmitted by the side that closed  *)
(* first taken for the other side's, a Closed session that reopens, and    *)
(* the TIME_WAIT of an endpoint.                                           *)
(***************************************************************************)
ThirdLegFromEither(flags, to_initiator) == "ack" \in flags

AnyFin(s, flags, to_initiator) == "fin" \in flags

ReopensOnSyn(s, flags, to_initiator) ==
  [s EXCEPT !.state = IF "rst" \in flags THEN "Closed"
                      ELSE IF PureSyn(flags) THEN "SynSeen" ELSE @]

WaitsLikeAnEndpoint(s, flags, to_initiator) ==
  CASE s.state \in {"New", "SynAckSeen"} -> "Established"
    [] s.state = "SynSeen"              -> "SynAckSeen"
    [] s.state = "Established"          -> "FinSeen"
    [] s.state = "FinSeen"              -> "Closing"
    [] OTHER                            -> "TimeWait"

-----------------------------------------------------------------------------
SynAckLeg(flags, to_initiator) == {"syn", "ack"} \subseteq flags /\ to_initiator

\* Only an ACK from the initiator completes the handshake.
ThirdLeg(flags, to_initiator) ==
  "ack" \in flags /\ "syn" \notin flags /\ ~to_initiator

\* A FIN from the end that has not closed yet.
OtherFin(s, flags, to_initiator) ==
  "fin" \in flags /\ (~to_initiator) # s.fin_from_initiator

(***************************************************************************)
(* Whether a segment moves a session out of the state it is in.            *)
(* Retransmissions do not, and Closed is terminal.                         *)
(***************************************************************************)
MovesOn(s, flags, to_initiator) ==
  \/ s.state = "New"
  \/ s.state = "SynSeen"     /\ SynAckLeg(flags, to_initiator)
  \/ s.state = "SynAckSeen"  /\ ThirdLeg(flags, to_initiator)
  \/ s.state = "Established" /\ "fin" \in flags
  \/ s.state = "FinSeen"     /\ OtherFin(s, flags, to_initiator)
  \/ s.state = "Closing"     /\ "ack" \in flags

\* Where it moves to.  A packet that is not a pure SYN opens a session only by
\* midstream pickup, which skips the handshake.
Successor(s, flags, to_initiator) ==
  CASE s.state = "New"         -> IF PureSyn(flags) /\ ~to_initiator
                                    THEN "SynSeen" ELSE "Established"
    [] s.state = "SynSeen"     -> "SynAckSeen"
    [] s.state = "SynAckSeen"  -> "Established"
    [] s.state = "Established" -> "FinSeen"
    [] s.state = "FinSeen"     -> "Closing"
    [] OTHER                   -> "Closed"

\* A reset ends the conversation from any state, the closed ones included.
TcpAdvance(s, flags, to_initiator) ==
  IF "rst" \in flags THEN [s EXCEPT !.state = "Closed"]
  ELSE IF ~MovesOn(s, flags, to_initiator) THEN s
  ELSE [s EXCEPT !.state = Successor(s, flags, to_initiator),
                 !.fin_from_initiator =
                    IF s.state = "Established" THEN ~to_initiator ELSE @]

UdpAdvance(s) ==
  [s EXCEPT !.state = IF @ = "New" THEN "Established" ELSE @]
=============================================================================
