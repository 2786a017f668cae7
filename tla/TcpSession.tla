----------------------------- MODULE TcpSession -----------------------------
(***************************************************************************)
(* One TCP session of the flow table, from the packet that creates it to   *)
(* its last: the machine of TcpState driven by whatever the two endpoints  *)
(* send and by the engine, which tears a session down when it loses its    *)
(* rule or its time is up.  heard and first_fin are ghosts: they record    *)
(* what went by, and no step of the session reads them.                    *)
(***************************************************************************)
EXTENDS TcpState, Naturals

CONSTANT Midstream   \* Engine::set_midstream

ASSUME MidstreamAssumption == Midstream \in BOOLEAN

VARIABLES session,    \* the fields of a Session the machine reads and writes
          heard,      \* the evidence the packets so far have given
          first_fin   \* which side sent the first FIN, or "none"

vars == <<session, heard, first_fin>>

NewSession == [state |-> "New", fin_from_initiator |-> FALSE]

Sides == {"InitiatorFin", "ResponderFin"}

\* What a segment is evidence of, after what was heard before it.
Says(h, flags, to_initiator) ==
  {e \in {"Syn", "SynAck", "Ack", "Rst", "FinalAck"} \cup Sides :
     \/ e = "Syn"          /\ PureSyn(flags) /\ ~to_initiator
     \/ e = "SynAck"       /\ {"syn", "ack"} \subseteq flags /\ to_initiator
     \/ e = "Ack"          /\ "ack" \in flags /\ "syn" \notin flags /\ ~to_initiator
     \/ e = "InitiatorFin" /\ "fin" \in flags /\ ~to_initiator
     \/ e = "ResponderFin" /\ "fin" \in flags /\ to_initiator
     \/ e = "Rst"          /\ "rst" \in flags
     \/ e = "FinalAck"     /\ "ack" \in flags /\ Sides \subseteq h}

\* The side whose FIN came first, from the responder's answer to the SYN on: h is what
\* has been heard with this segment, for the SYN+ACK may carry that FIN itself.
FirstFin(f, h, flags, to_initiator) ==
  IF f = "none" /\ "fin" \in flags /\ ("Adopted" \in h \/ {"Syn", "SynAck"} \subseteq h)
    THEN (IF to_initiator THEN "responder" ELSE "initiator")
    ELSE f

(***************************************************************************)
(* The packet that creates the session: a pure SYN, or anything at all     *)
(* under midstream pickup.  It flows from the initiator by construction.   *)
(***************************************************************************)
Init == \E flags \in SUBSET TcpFlag :
          /\ PureSyn(flags) \/ Midstream
          /\ session = TcpAdvance(NewSession, flags, FALSE)
          /\ heard = Says({}, flags, FALSE) \cup IF PureSyn(flags) THEN {} ELSE {"Adopted"}
          /\ first_fin = FirstFin("none", heard, flags, FALSE)

Segment == \E flags \in SUBSET TcpFlag, to_initiator \in BOOLEAN :
             /\ session' = TcpAdvance(session, flags, to_initiator)
             /\ heard' = heard \cup Says(heard, flags, to_initiator)
             /\ first_fin' = FirstFin(first_fin, heard', flags, to_initiator)

\* The App-ID shift, or the aging sweep, ends the session.
TearDown == /\ session' = [session EXCEPT !.state = "Closed"]
            /\ heard' = heard \cup {"TornDown"}
            /\ UNCHANGED first_fin

Next == Segment \/ TearDown

Spec == Init /\ [][Next]_vars
-----------------------------------------------------------------------------
(***************************************************************************)
(* What holds of every session.                                            *)
(***************************************************************************)
Evidence == {"Adopted", "Syn", "SynAck", "Ack", "Rst", "FinalAck", "TornDown"} \cup Sides

\* The session keeps its shape: a state of the enumeration, a side, evidence.
TypeOK == /\ session \in [state : SessionState, fin_from_initiator : BOOLEAN]
          /\ heard \in SUBSET Evidence
          /\ first_fin \in {"none", "initiator", "responder"}

\* The side that tcp_advance remembers as having closed first did send a FIN.
RecordedFin == IF session.fin_from_initiator THEN "InitiatorFin" ELSE "ResponderFin"

\* No state is reached without the packets it stands for: the half-open states
\* of a handshake, the whole of it before data unless midstream pickup skipped it,
\* both ends of a close, the end of the conversation.
StateIsEarned ==
  /\ session.state # "New"
  /\ "Adopted" \in heard => Midstream
  /\ session.state = "SynSeen" => "Syn" \in heard
  /\ session.state = "SynAckSeen" => {"Syn", "SynAck"} \subseteq heard
  /\ session.state = "Established" =>
       "Adopted" \in heard \/ {"Syn", "SynAck", "Ack"} \subseteq heard
  /\ session.state = "FinSeen" => RecordedFin \in heard
  /\ session.state = "Closing" => Sides \subseteq heard
  /\ session.state = "Closed" =>
       \/ heard \cap {"Rst", "TornDown"} # {}
       \/ Sides \cup {"FinalAck"} \subseteq heard

Stage == CASE session.state \in {"New", "SynSeen", "SynAckSeen"} -> "opening"
           [] session.state = "Established" -> "open"
           [] session.state = "FinSeen"     -> "half_closed"
           [] session.state = "Closing"     -> "closing"
           [] session.state = "Closed"      -> "over"

Promise == INSTANCE Conversation WITH stage <- Stage

\* The machine implements the abstract conversation: it enters no stage without
\* its evidence, skips none, goes back to none, and Closed is the end.
ImplementsConversation == Promise!Spec

\* "Which side closed first" (flow.h:116): from FinSeen on, fin_from_initiator
\* names the side whose FIN came first.
FirstCloserRecorded ==
  session.state \in {"FinSeen", "Closing"} =>
    session.fin_from_initiator = (first_fin = "initiator")
=============================================================================
