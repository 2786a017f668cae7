-------------------------- MODULE TcpSessionProofs --------------------------
(***************************************************************************)
(* Proofs about one TCP session: the machine of tcp_advance keeps its      *)
(* states honest and implements the abstract conversation, with midstream  *)
(* pickup off or on.  TypeOK /\ StateIsEarned is inductive as it stands:   *)
(* the evidence a state is earned by is what the next state needs.         *)
(***************************************************************************)
EXTENDS TcpSession, TLAPS

IInv == TypeOK /\ StateIsEarned

-----------------------------------------------------------------------------
(***************************************************************************)
(* The helpers.                                                            *)
(***************************************************************************)
\* tcp_advance returns a session of the same shape.
LEMMA AdvanceType ==
  ASSUME NEW s \in [state : SessionState, fin_from_initiator : BOOLEAN],
         NEW flags \in SUBSET TcpFlag, NEW to_initiator \in BOOLEAN
  PROVE  TcpAdvance(s, flags, to_initiator)
           \in [state : SessionState, fin_from_initiator : BOOLEAN]
BY DEF TcpAdvance, Successor, SessionState

\* What a segment says is evidence.
LEMMA SaysType ==
  ASSUME NEW h, NEW flags, NEW to_initiator
  PROVE  Says(h, flags, to_initiator) \subseteq Evidence
BY DEF Says, Evidence

\* The first FIN stays what it was once it is known.
LEMMA FirstFinType ==
  ASSUME NEW f \in {"none", "initiator", "responder"}, NEW h, NEW flags, NEW to_initiator
  PROVE  FirstFin(f, h, flags, to_initiator) \in {"none", "initiator", "responder"}
BY DEF FirstFin

-----------------------------------------------------------------------------
LEMMA InitIInv == Init => IInv
<1> SUFFICES ASSUME Init PROVE IInv
  OBVIOUS
<1>1. PICK flags \in SUBSET TcpFlag :
        /\ PureSyn(flags) \/ Midstream
        /\ session = TcpAdvance(NewSession, flags, FALSE)
        /\ heard = Says({}, flags, FALSE) \cup IF PureSyn(flags) THEN {} ELSE {"Adopted"}
        /\ first_fin = FirstFin("none", heard, flags, FALSE)
  BY DEF Init
<1>2. NewSession \in [state : SessionState, fin_from_initiator : BOOLEAN]
  BY DEF NewSession, SessionState
<1>3. TypeOK
  BY <1>1, <1>2, AdvanceType, SaysType, FirstFinType DEF TypeOK, Evidence
<1>4. session.state = IF "rst" \in flags THEN "Closed"
                      ELSE IF PureSyn(flags) THEN "SynSeen" ELSE "Established"
  BY <1>1, MidstreamAssumption DEF TcpAdvance, NewSession, MovesOn, Successor
<1>5. StateIsEarned
  <2>1. CASE "rst" \in flags
    BY <2>1, <1>1, <1>4 DEF StateIsEarned, Says
  <2>2. CASE "rst" \notin flags /\ PureSyn(flags)
    BY <2>2, <1>1, <1>4 DEF StateIsEarned, Says
  <2>3. CASE "rst" \notin flags /\ ~PureSyn(flags)
    BY <2>3, <1>1, <1>4 DEF StateIsEarned, Says
  <2> QED
    BY <2>1, <2>2, <2>3
<1> QED
  BY <1>3, <1>5 DEF IInv

-----------------------------------------------------------------------------
(***************************************************************************)
(* The step of one segment, by the state it finds the session in: where    *)
(* that state leads without a reset, and on what evidence.                 *)
(***************************************************************************)
LEMMA SegmentStateIsEarned ==
  ASSUME IInv, NEW flags \in SUBSET TcpFlag, NEW to_initiator \in BOOLEAN,
         session' = TcpAdvance(session, flags, to_initiator),
         heard' = heard \cup Says(heard, flags, to_initiator)
  PROVE  StateIsEarned'
<1> USE DEF IInv, TypeOK
<1>0. "Adopted" \in heard' => Midstream
  BY DEF StateIsEarned, Says, Sides
<1>1. CASE "rst" \in flags
  <2>1. "Rst" \in heard' /\ session'.state = "Closed"
    BY <1>1 DEF Says, TcpAdvance
  <2> QED
    BY <1>0, <2>1 DEF StateIsEarned
<1>2. CASE "rst" \notin flags /\ ~MovesOn(session, flags, to_initiator)
  <2>1. session' = session /\ heard \subseteq heard'
    BY <1>2 DEF TcpAdvance
  <2> QED
    BY <1>0, <2>1 DEF StateIsEarned, RecordedFin
<1>3. CASE "rst" \notin flags /\ MovesOn(session, flags, to_initiator)
  <2>1. /\ session'.state = Successor(session, flags, to_initiator)
        /\ session'.fin_from_initiator =
             IF session.state = "Established" THEN ~to_initiator
             ELSE session.fin_from_initiator
    BY <1>3 DEF TcpAdvance
  <2>2. CASE session.state = "SynSeen"
    BY <1>0, <1>3, <2>1, <2>2 DEF MovesOn, SynAckLeg, Successor, Says, StateIsEarned
  <2>3. CASE session.state = "SynAckSeen"
    BY <1>0, <1>3, <2>1, <2>3 DEF MovesOn, ThirdLeg, Successor, Says, StateIsEarned
  <2>4. CASE session.state = "Established"
    BY <1>0, <1>3, <2>1, <2>4 DEF MovesOn, Successor, Says, Sides, StateIsEarned, RecordedFin
  <2>5. CASE session.state = "FinSeen"
    BY <1>0, <1>3, <2>1, <2>5 DEF MovesOn, OtherFin, Successor, Says, Sides,
                            StateIsEarned, RecordedFin
  <2>6. CASE session.state = "Closing"
    BY <1>0, <1>3, <2>1, <2>6 DEF MovesOn, Successor, Says, Sides, StateIsEarned
  <2> QED
    BY <1>3, <2>2, <2>3, <2>4, <2>5, <2>6 DEF MovesOn, StateIsEarned
<1> QED
  BY <1>1, <1>2, <1>3

LEMMA NextIInv == IInv /\ [Next]_vars => IInv'
<1> SUFFICES ASSUME IInv, [Next]_vars PROVE IInv'
  OBVIOUS
<1>1. CASE Segment
  <2>1. PICK flags \in SUBSET TcpFlag, to_initiator \in BOOLEAN :
          /\ session' = TcpAdvance(session, flags, to_initiator)
          /\ heard' = heard \cup Says(heard, flags, to_initiator)
          /\ first_fin' = FirstFin(first_fin, heard', flags, to_initiator)
    BY <1>1 DEF Segment
  <2>2. TypeOK'
    BY <2>1, AdvanceType, SaysType, FirstFinType DEF IInv, TypeOK
  <2> QED
    BY <2>1, <2>2, SegmentStateIsEarned DEF IInv
<1>2. CASE TearDown
  BY <1>2 DEF TearDown, IInv, TypeOK, StateIsEarned, SessionState, Evidence
<1>3. CASE UNCHANGED vars
  BY <1>3 DEF vars, IInv, TypeOK, StateIsEarned, RecordedFin
<1> QED
  BY <1>1, <1>2, <1>3 DEF Next

\* Every session keeps its shape and has earned its state.
THEOREM SessionInvariant == Spec => [](TypeOK /\ StateIsEarned)
<1>1. IInv => TypeOK /\ StateIsEarned
  BY DEF IInv
<1> QED
  BY <1>1, InitIInv, NextIInv, PTL DEF Spec

-----------------------------------------------------------------------------
(***************************************************************************)
(* The machine implements the abstract conversation.                       *)
(***************************************************************************)
\* The stage a state stands for has its evidence.
LEMMA StageIsSupported ==
  ASSUME IInv
  PROVE  Promise!Supported(Stage, heard) /\ Stage \in Promise!Stages
<1>1. CASE session.state \in {"SynSeen", "SynAckSeen"}
  BY <1>1 DEF Stage, Promise!Supported, Promise!Stages
<1>2. CASE session.state = "Established"
  BY <1>2 DEF IInv, StateIsEarned, Stage, Promise!Supported, Promise!Stages
<1>3. CASE session.state = "FinSeen"
  BY <1>3 DEF IInv, StateIsEarned, RecordedFin, Stage, Promise!Supported, Promise!Stages
<1>4. CASE session.state = "Closing"
  BY <1>4 DEF IInv, StateIsEarned, Sides, Stage, Promise!Supported, Promise!Stages
<1>5. CASE session.state = "Closed"
  BY <1>5 DEF IInv, StateIsEarned, Sides, Stage, Promise!Supported, Promise!Stages
<1> QED
  BY <1>1, <1>2, <1>3, <1>4, <1>5 DEF IInv, TypeOK, StateIsEarned, SessionState

\* A segment leaves a session in its stage, takes it to the next, or ends it.
LEMMA SegmentMayFollow ==
  ASSUME IInv, NEW flags \in SUBSET TcpFlag, NEW to_initiator \in BOOLEAN,
         session' = TcpAdvance(session, flags, to_initiator)
  PROVE  Promise!MayFollow(Stage, Stage')
BY DEF IInv, TypeOK, SessionState, StateIsEarned, TcpAdvance, MovesOn, Successor, Stage,
       Promise!MayFollow, Promise!Stages

LEMMA StepImplements == IInv /\ IInv' /\ [Next]_vars => [Promise!Next]_(Promise!vars)
<1> SUFFICES ASSUME IInv, IInv', [Next]_vars PROVE [Promise!Next]_(Promise!vars)
  OBVIOUS
<1>1. /\ Promise!Supported(Stage, heard)'
      /\ Stage' \in Promise!Stages
      /\ heard' \in SUBSET Promise!Evidence
  <2>1. (Promise!Supported(Stage, heard) /\ Stage \in Promise!Stages)'
    BY StageIsSupported, PTL
  <2> QED
    BY <2>1 DEF IInv, TypeOK, Evidence, Sides, Promise!Evidence
<1>2. CASE Segment
  BY <1>1, <1>2, SegmentMayFollow DEF Segment, Promise!Next, Promise!Hear
<1>3. CASE TearDown
  BY <1>1, <1>3 DEF TearDown, Stage, IInv, TypeOK, Promise!Next, Promise!Hear, Promise!MayFollow
<1>4. CASE UNCHANGED vars
  BY <1>4 DEF vars, Stage, Promise!vars
<1> QED
  BY <1>2, <1>3, <1>4 DEF Next

LEMMA InitImplements == Init => Promise!Init
<1> SUFFICES ASSUME Init PROVE Promise!Init
  OBVIOUS
<1>1. IInv
  BY InitIInv
<1>2. Stage \in {"opening", "open", "over"}
  BY MidstreamAssumption DEF Init, TcpAdvance, NewSession, MovesOn, Successor, Stage
<1> QED
  BY <1>1, <1>2, StageIsSupported DEF Promise!Init, IInv, TypeOK, Evidence, Sides, Promise!Evidence

\* Every behaviour of a session is one of the abstract conversation.
THEOREM ConversationRefinement == Spec => ImplementsConversation
<1>1. Spec => []IInv
  BY InitIInv, NextIInv, PTL DEF Spec
<1> QED
  BY <1>1, InitImplements, StepImplements, PTL DEF Spec, ImplementsConversation, Promise!Spec
=============================================================================
