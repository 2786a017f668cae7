---------------------------- MODULE EngineProofs ----------------------------
(***************************************************************************)
(* Proofs about the pipeline, for every rule base, every capture and every *)
(* setting of the engine.  First its passive parts: the zones and verdicts *)
(* of a rule base, the key of a conversation, the session state machine on *)
(* a whole session, and the operations of the session table, each of which *)
(* keeps the table faithful.                                               *)
(***************************************************************************)
EXTENDS EngineProperties, FiniteSetTheorems, TLAPS

-----------------------------------------------------------------------------
(***************************************************************************)
(* The rule base.                                                          *)
(***************************************************************************)
\* A set of numbers has a least element.
LEMMA LeastExists ==
  ASSUME NEW S \in SUBSET Nat, S # {}
  PROVE  \E x \in S : \A y \in S : x <= y
<1>1. PICK x \in S : \A y \in S : ~(<<y, x>> \in OpToRel(<, Nat))
  BY NatLessThanWellFounded, WFMin
<1>2. \A m, n \in Nat : <<m, n>> \in OpToRel(<, Nat) <=> m < n
  BY DEF OpToRel
<1>3. \A y \in S : ~(y < x)
  BY <1>1, <1>2
<1> QED
  BY <1>3

\* Min finds it.
LEMMA LeastOfNats ==
  ASSUME NEW S \in SUBSET Nat, S # {}
  PROVE  Min(S) \in S /\ \A y \in S : Min(S) <= y
BY LeastExists DEF Min

\* What a zone line of the policy holds.
LEMMA RouteFields ==
  ASSUME NEW i \in DOMAIN Routes
  PROVE  /\ i \in Nat
         /\ Routes[i].prefix \in Nat
         /\ AddressBits - Routes[i].prefix \in Nat
         /\ Routes[i].zone \in Zone
<1>1. i \in Nat /\ Routes[i] \in RouteType
  BY PolicyAssumption
<1>2. Routes[i].zone \in Zone /\ Routes[i].prefix \in 0 .. AddressBits
  BY <1>1 DEF RouteType
<1> QED
  BY <1>1, <1>2, PolicyAssumption

\* zone_for always finds a zone: some longest prefix is the first declared.
LEMMA ZoneForType == ASSUME NEW ip \in Ip PROVE ZoneFor(ip) \in Zone
<1>1. CASE Covering(ip) = {}
  BY <1>1 DEF ZoneFor, Zone
<1>2. CASE Covering(ip) # {}
  <2> DEFINE lack == {AddressBits - Routes[i].prefix : i \in Covering(ip)}
  <2>0. \A i \in Covering(ip) : /\ i \in Nat
                                /\ Routes[i].prefix \in Nat
                                /\ AddressBits - Routes[i].prefix \in Nat
                                /\ Routes[i].zone \in Zone
    BY RouteFields DEF Covering
  <2>1. lack \in SUBSET Nat /\ lack # {}
    BY <1>2, <2>0
  <2>2. PICK k \in Covering(ip) :
          \A j \in Covering(ip) : Routes[j].prefix <= Routes[k].prefix
    <3>1. PICK x \in lack : \A y \in lack : x <= y
      BY <2>1, LeastExists
    <3>2. PICK k \in Covering(ip) : x = AddressBits - Routes[k].prefix
      BY <3>1
    <3>3. ASSUME NEW j \in Covering(ip) PROVE Routes[j].prefix <= Routes[k].prefix
      <4>1. AddressBits - Routes[k].prefix <= AddressBits - Routes[j].prefix
        BY <3>1, <3>2
      <4>2. AddressBits \in Nat /\ Routes[j].prefix \in Nat /\ Routes[k].prefix \in Nat
        BY <2>0, <3>2, PolicyAssumption
      <4> QED
        BY <4>1, <4>2
    <3> QED
      BY <3>3
  <2> DEFINE best == {i \in Covering(ip) : Routes[i].prefix = Routes[k].prefix}
  <2>3. best \in SUBSET Nat /\ best # {}
    BY <2>0
  <2>4. PICK i \in best : \A j \in best : i <= j
    BY <2>3, LeastExists
  <2>5. ASSUME NEW j \in Covering(ip) PROVE AtLeastAsGood(i, j)
    <3>1. CASE j \in best
      BY <2>0, <2>3, <2>4, <3>1 DEF AtLeastAsGood
    <3>2. CASE j \notin best
      BY <2>0, <2>2, <2>4, <3>2 DEF AtLeastAsGood
    <3> QED
      BY <3>1, <3>2
  <2> QED
    BY <1>2, <2>0, <2>4, <2>5 DEF ZoneFor
<1> QED
  BY <1>1, <1>2

\* evaluate always decides: some matching rule is first, or the default is taken.
LEMMA EvaluateType ==
  ASSUME NEW from, NEW to, NEW proto, NEW port, NEW app
  PROVE  Evaluate(from, to, proto, port, app) \in [rule : Nat, verdict : Verdict]
<1> DEFINE matching == {i \in DOMAIN Rules : RuleMatches(Rules[i], from, to, proto, port, app)}
<1>1. CASE matching = {}
  BY <1>1 DEF Evaluate, Verdict, kDefaultDeny
<1>2. CASE matching # {}
  <2>1. matching \in SUBSET Nat
    BY PolicyAssumption
  <2>2. Min(matching) \in matching
    BY <1>2, <2>1, LeastOfNats
  <2>3. Rules[Min(matching)].action \in Verdict
    <3>1. Rules[Min(matching)] \in RuleType
      BY <2>2, PolicyAssumption
    <3> QED
      BY <3>1 DEF RuleType
  <2> QED
    BY <1>2, <2>1, <2>2, <2>3 DEF Evaluate
<1> QED
  BY <1>1, <1>2
-----------------------------------------------------------------------------
(***************************************************************************)
(* FiveTuple::make.                                                        *)
(***************************************************************************)
\* Addresses and ports can be compared.
LEMMA EndpointFields ==
  ASSUME NEW e \in Endpoint
  PROVE  e.ip \in Int /\ e.port \in Int /\ e.ip \in Ip
<1>1. e.ip \in Ip /\ e.port \in Port
  BY DEF Endpoint
<1>2. Ip \subseteq Int /\ Port \subseteq Int
  BY DEF Ip, Port
<1> QED
  BY <1>1, <1>2

\* An endpoint is its address and its port.
LEMMA EndpointEquality ==
  ASSUME NEW e \in Endpoint, NEW f \in Endpoint, e.ip = f.ip, e.port = f.port
  PROVE  e = f
BY DEF Endpoint

\* A key holds the two endpoints and the protocol, and nothing is lost.
LEMMA MakeKeyFaithful ==
  ASSUME NEW src \in Endpoint, NEW dst \in Endpoint, NEW proto \in Proto
  PROVE  /\ MakeKey(src, dst, proto) \in Key
         /\ {MakeKey(src, dst, proto).a, MakeKey(src, dst, proto).b} = {src, dst}
         /\ MakeKey(src, dst, proto).proto = proto
<1>1. CASE SrcFirst(src, dst)
  BY <1>1 DEF MakeKey, Key
<1>2. CASE ~SrcFirst(src, dst)
  BY <1>2 DEF MakeKey, Key
<1> QED
  BY <1>1, <1>2

\* Both directions of a conversation have one key.
LEMMA MakeKeySymmetric ==
  ASSUME NEW src \in Endpoint, NEW dst \in Endpoint, NEW proto
  PROVE  MakeKey(src, dst, proto) = MakeKey(dst, src, proto)
<1>1. CASE SrcFirst(src, dst) /\ SrcFirst(dst, src)
  <2>1. src = dst
    BY <1>1, EndpointFields, EndpointEquality DEF SrcFirst
  <2> QED
    BY <2>1
<1>2. SrcFirst(src, dst) \/ SrcFirst(dst, src)
  BY EndpointFields DEF SrcFirst
<1> QED
  BY <1>1, <1>2 DEF MakeKey

\* And two conversations between the same endpoints are one.
LEMMA MakeKeyOfPair ==
  ASSUME NEW a \in Endpoint, NEW b \in Endpoint, NEW c \in Endpoint, NEW d \in Endpoint,
         NEW proto, {a, b} = {c, d}
  PROVE  MakeKey(a, b, proto) = MakeKey(c, d, proto)
<1>1. (a = c /\ b = d) \/ (a = d /\ b = c)
  OBVIOUS
<1> QED
  BY <1>1, MakeKeySymmetric

-----------------------------------------------------------------------------
(***************************************************************************)
(* The state machine, applied to a session of the table.                   *)
(***************************************************************************)
\* The fields that tcp_advance and udp_advance may write.
Moves(s, t) ==
  /\ t = [s EXCEPT !.state = t.state, !.fin_from_initiator = t.fin_from_initiator]
  /\ t.state \in SessionState
  /\ t.fin_from_initiator \in BOOLEAN

LEMMA TcpAdvanceMoves ==
  ASSUME NEW s \in Session, NEW flags \in SUBSET TcpFlag, NEW to_initiator \in BOOLEAN
  PROVE  Moves(s, TcpAdvance(s, flags, to_initiator))
BY DEF Moves, Session, TcpAdvance, Successor, SessionState

LEMMA UdpAdvanceMoves ==
  ASSUME NEW s \in Session
  PROVE  Moves(s, UdpAdvance(s))
BY DEF Moves, Session, UdpAdvance, SessionState

\* Neither reopens a session.
LEMMA ClosedStaysClosed ==
  ASSUME NEW s \in Session, s.state = "Closed",
         NEW flags \in SUBSET TcpFlag, NEW to_initiator \in BOOLEAN
  PROVE  TcpAdvance(s, flags, to_initiator).state = "Closed" /\ UdpAdvance(s).state = "Closed"
BY DEF Session, TcpAdvance, MovesOn, UdpAdvance

-----------------------------------------------------------------------------
(***************************************************************************)
(* The table.  Its index and its vector agree when every entry is under    *)
(* the key of the session it points at, and every session that is not      *)
(* over is where its own key leads.                                        *)
(***************************************************************************)
TableOK(t) ==
  /\ t = [sessions |-> t.sessions, by_key |-> t.by_key]
  /\ t.sessions \in Seq(Session)
  /\ IsFiniteSet(DOMAIN t.by_key)
  /\ \A k \in DOMAIN t.by_key : /\ t.by_key[k] \in DOMAIN t.sessions
                                 /\ k = KeyOf(t.sessions[t.by_key[k]])
  /\ \A i \in DOMAIN t.sessions :
       t.sessions[i].state # "Closed" => /\ KeyOf(t.sessions[i]) \in DOMAIN t.by_key
                                         /\ t.by_key[KeyOf(t.sessions[i])] = i

LEMMA EmptyTableOK == TableOK(EmptyTable)
<1>1. IsFiniteSet(DOMAIN EmptyTable.by_key)
  BY FS_EmptySet DEF EmptyTable
<1> QED
  BY <1>1 DEF TableOK, EmptyTable

\* A vector read or written at a position it has.
LEMMA SessionAt ==
  ASSUME NEW t, TableOK(t), NEW i \in DOMAIN t.sessions
  PROVE  t.sessions[i] \in Session /\ i \in 1 .. Len(t.sessions)
BY DEF TableOK

\* The key of a session depends on no more than what create fills in.
LEMMA KeyOfSame ==
  ASSUME NEW s, NEW u, u.init = s.init, u.resp = s.resp, u.proto = s.proto
  PROVE  KeyOf(u) = KeyOf(s)
BY DEF KeyOf

\* What lookup finds is a position of the vector, whose session has the packet's key.
LEMMA LookupFinds ==
  ASSUME NEW t, TableOK(t), NEW m, Lookup(t, m) # kNoSession
  PROVE  /\ MakeKey(m.src, m.dst, m.proto) \in DOMAIN t.by_key
         /\ Lookup(t, m) = t.by_key[MakeKey(m.src, m.dst, m.proto)]
         /\ Lookup(t, m) \in DOMAIN t.sessions
         /\ KeyOf(t.sessions[Lookup(t, m)]) = MakeKey(m.src, m.dst, m.proto)
BY DEF Lookup, TableOK

\* And when it finds nothing, the key is not in the index.
LEMMA LookupMisses ==
  ASSUME NEW t, TableOK(t), NEW m, Lookup(t, m) = kNoSession
  PROVE  MakeKey(m.src, m.dst, m.proto) \notin DOMAIN t.by_key
<1>1. ASSUME MakeKey(m.src, m.dst, m.proto) \in DOMAIN t.by_key PROVE FALSE
  <2>1. t.by_key[MakeKey(m.src, m.dst, m.proto)] \in 1 .. Len(t.sessions)
    BY <1>1 DEF TableOK
  <2> QED
    BY <1>1, <2>1 DEF Lookup, kNoSession
<1> QED
  BY <1>1

\* create: one more session, found under its key, which was free.
LEMMA CreateOK ==
  ASSUME NEW t, TableOK(t), NEW s \in Session, KeyOf(s) \notin DOMAIN t.by_key
  PROVE  /\ TableOK(Create(t, s))
         /\ Create(t, s).sessions = Append(t.sessions, s)
         /\ DOMAIN Create(t, s).by_key = DOMAIN t.by_key \cup {KeyOf(s)}
<1> DEFINE c == Create(t, s)
           n == Len(t.sessions) + 1
<1>1. /\ c = [sessions |-> c.sessions, by_key |-> c.by_key]
      /\ c.sessions = Append(t.sessions, s)
      /\ DOMAIN c.by_key = DOMAIN t.by_key \cup {KeyOf(s)}
      /\ c.by_key[KeyOf(s)] = n
      /\ \A k \in DOMAIN t.by_key : c.by_key[k] = t.by_key[k]
  BY DEF Create
<1>2. /\ c.sessions \in Seq(Session)
      /\ DOMAIN c.sessions = DOMAIN t.sessions \cup {n}
      /\ c.sessions[n] = s
      /\ \A i \in DOMAIN t.sessions : c.sessions[i] = t.sessions[i]
  BY <1>1 DEF TableOK
<1>3. IsFiniteSet(DOMAIN c.by_key)
  BY <1>1, FS_AddElement DEF TableOK
<1> HIDE DEF c
<1>4. \A k \in DOMAIN c.by_key : c.by_key[k] \in DOMAIN c.sessions
                                /\ k = KeyOf(c.sessions[c.by_key[k]])
  BY <1>1, <1>2 DEF TableOK
<1>5. \A i \in DOMAIN c.sessions :
        c.sessions[i].state # "Closed" => /\ KeyOf(c.sessions[i]) \in DOMAIN c.by_key
                                          /\ c.by_key[KeyOf(c.sessions[i])] = i
  BY <1>1, <1>2 DEF TableOK
<1>6. TableOK(c)
  BY <1>1, <1>2, <1>3, <1>4, <1>5 DEF TableOK
<1> QED
  BY <1>1, <1>6 DEF c

\* A session of the index is replaced by one with the same key.
LEMMA ReplaceOK ==
  ASSUME NEW t, TableOK(t), NEW k \in DOMAIN t.by_key, NEW s \in Session, KeyOf(s) = k
  PROVE  LET u == [t EXCEPT !.sessions[t.by_key[k]] = s]
         IN  /\ TableOK(u)
             /\ u.sessions = [t.sessions EXCEPT ![t.by_key[k]] = s]
             /\ u.by_key = t.by_key
<1> DEFINE i == t.by_key[k]
           u == [t EXCEPT !.sessions[i] = s]
<1>1. /\ u = [sessions |-> u.sessions, by_key |-> u.by_key]
      /\ u.sessions = [t.sessions EXCEPT ![i] = s]
      /\ u.by_key = t.by_key
  BY DEF TableOK
<1>2. /\ u.sessions \in Seq(Session)
      /\ DOMAIN u.sessions = DOMAIN t.sessions
      /\ u.sessions[i] = s
      /\ \A j \in DOMAIN t.sessions : j # i => u.sessions[j] = t.sessions[j]
  BY <1>1 DEF TableOK
<1> HIDE DEF u
<1>3. \A l \in DOMAIN u.by_key : u.by_key[l] \in DOMAIN u.sessions
                                /\ l = KeyOf(u.sessions[u.by_key[l]])
  BY <1>1, <1>2 DEF TableOK
<1>4. \A j \in DOMAIN u.sessions :
        u.sessions[j].state # "Closed" => /\ KeyOf(u.sessions[j]) \in DOMAIN u.by_key
                                          /\ u.by_key[KeyOf(u.sessions[j])] = j
  BY <1>1, <1>2 DEF TableOK
<1>5. TableOK(u)
  BY <1>1, <1>2, <1>3, <1>4 DEF TableOK
<1> QED
  BY <1>1, <1>5 DEF u

\* age_out: the same sessions, some of them closed, and an index without those
\* that are over.
LEMMA AgeOutOK ==
  ASSUME NEW t, TableOK(t), NEW now
  PROVE  LET u == AgeOut(t, now)
         IN  /\ TableOK(u)
             /\ DOMAIN u.sessions = DOMAIN t.sessions
             /\ \A i \in DOMAIN t.sessions :
                  u.sessions[i] \in {t.sessions[i], [t.sessions[i] EXCEPT !.state = "Closed"]}
             /\ DOMAIN u.by_key = DOMAIN t.by_key \ Reaped(t, now)
             /\ \A k \in DOMAIN u.by_key : u.by_key[k] = t.by_key[k]
<1> DEFINE u == AgeOut(t, now)
           retired == {t.by_key[k] : k \in Reaped(t, now)}
<1>1. /\ u = [sessions |-> u.sessions, by_key |-> u.by_key]
      /\ u.sessions = [i \in DOMAIN t.sessions |->
                         IF i \in retired THEN [t.sessions[i] EXCEPT !.state = "Closed"]
                         ELSE t.sessions[i]]
      /\ DOMAIN u.by_key = DOMAIN t.by_key \ Reaped(t, now)
      /\ \A k \in DOMAIN u.by_key : u.by_key[k] = t.by_key[k]
  BY DEF AgeOut
<1>2. \A i \in DOMAIN t.sessions :
        /\ u.sessions[i] \in {t.sessions[i], [t.sessions[i] EXCEPT !.state = "Closed"]}
        /\ u.sessions[i] \in Session
        /\ KeyOf(u.sessions[i]) = KeyOf(t.sessions[i])
  <2>1. ASSUME NEW s \in Session PROVE [s EXCEPT !.state = "Closed"] \in Session
    BY DEF Session, SessionState
  <2>2. ASSUME NEW s \in Session PROVE KeyOf([s EXCEPT !.state = "Closed"]) = KeyOf(s)
    BY KeyOfSame DEF Session
  <2> QED
    BY <1>1, <2>1, <2>2, SessionAt
<1>3. DOMAIN u.sessions = DOMAIN t.sessions /\ u.sessions \in Seq(Session)
  <2>1. Len(t.sessions) \in Nat /\ DOMAIN t.sessions = 1 .. Len(t.sessions)
    BY DEF TableOK
  <2>2. u.sessions \in [1 .. Len(t.sessions) -> Session]
    BY <1>1, <1>2, <2>1
  <2> QED
    BY <1>1, <2>1, <2>2
<1>4. IsFiniteSet(DOMAIN u.by_key)
  BY <1>1, FS_Subset DEF TableOK
<1>5. \A i \in DOMAIN t.sessions :
        u.sessions[i].state # "Closed" => i \notin retired /\ u.sessions[i] = t.sessions[i]
  BY <1>1, SessionAt DEF Session
<1> HIDE DEF u
<1>6. \A k \in DOMAIN u.by_key : u.by_key[k] \in DOMAIN u.sessions
                                /\ k = KeyOf(u.sessions[u.by_key[k]])
  BY <1>1, <1>2, <1>3 DEF TableOK
<1>7. \A i \in DOMAIN u.sessions :
        u.sessions[i].state # "Closed" => /\ KeyOf(u.sessions[i]) \in DOMAIN u.by_key
                                          /\ u.by_key[KeyOf(u.sessions[i])] = i
  BY <1>1, <1>3, <1>5 DEF TableOK
<1>8. TableOK(u)
  BY <1>1, <1>3, <1>4, <1>6, <1>7 DEF TableOK
<1> QED
  BY <1>1, <1>2, <1>3, <1>8 DEF u

-----------------------------------------------------------------------------
(***************************************************************************)
(* One session.  What holds of it between two packets, and what is enough  *)
(* for it to hold after the next.                                          *)
(***************************************************************************)
\* The zones are those of the endpoints, and rule and verdict those of the policy.
Decided(s) ==
  /\ s.from_zone = ZoneFor(s.init.ip)
  /\ s.to_zone = ZoneFor(s.resp.ip)
  /\ [rule |-> s.matched_rule, verdict |-> s.verdict]
       = Evaluate(s.from_zone, s.to_zone, s.proto, s.resp.port,
                  IF s.app_latched THEN s.app ELSE NoApp)

\* A shift is the work of a latch, which is the work of payload.
Latch(s) ==
  /\ s.app_latched <=> s.l7_bytes_seen > 0
  /\ s.app_shifted => s.app_latched
  /\ s.app_shifted /\ s.verdict # "Allow" => s.state = "Closed"

\* The packets that each state of a handshake has cost, without midstream pickup.
Handshake(s) ==
  ~Midstream /\ s.proto = "tcp" =>
    /\ s.state \notin {"New", "Closed"} => s.pkts_c2s >= 1
    /\ s.state \in {"SynAckSeen", "Established", "FinSeen", "Closing"} => s.pkts_s2c >= 1
    /\ s.state \in {"Established", "FinSeen", "Closing"} => s.pkts_c2s >= 2

\* What a translated session is.
Binding(s) ==
  s.nat_applied => /\ NatEnabled
                   /\ s.from_zone = "Trust" /\ s.to_zone = "Untrust"
                   /\ s.verdict = "Allow" \/ s.app_shifted

SessionInv(s) ==
  s \in Session /\ Decided(s) /\ Latch(s) /\ Handshake(s) /\ Binding(s)

\* How a packet may change a session.
Continues(s, u) ==
  /\ u.init = s.init /\ u.resp = s.resp /\ u.proto = s.proto
  /\ u.from_zone = s.from_zone /\ u.to_zone = s.to_zone
  /\ u.nat_applied = s.nat_applied /\ u.nat_port = s.nat_port
  /\ u.app_shifted = (s.app_shifted \/ u.verdict # s.verdict)
  /\ s.app_latched => u.app_latched
  /\ Decision(u) # Decision(s) => ~s.app_latched /\ u.app_latched
  /\ s.state = "Closed" => u.state = "Closed"

-----------------------------------------------------------------------------
\* What the policy makes of a new session: the default record, judged.
LEMMA JudgedInv ==
  ASSUME NEW m \in Segment, NEW ts \in Nat
  PROVE  LET s == Judged(NewSession(m, ts))
         IN  /\ SessionInv(s)
             /\ s.state = "New" /\ ~s.nat_applied /\ ~s.app_shifted /\ ~s.app_latched
             /\ s.init = m.src /\ s.resp = m.dst /\ s.proto = m.proto
<1> DEFINE n == NewSession(m, ts)
           s == Judged(n)
           decision == Evaluate(ZoneFor(m.src.ip), ZoneFor(m.dst.ip), m.proto, m.dst.port, NoApp)
<1>1. /\ m.src \in Endpoint /\ m.dst \in Endpoint /\ m.proto \in Proto
      /\ m.src.ip \in Ip /\ m.dst.ip \in Ip
  BY DEF Segment, Endpoint
<1>2. n \in Session
  BY <1>1 DEF NewSession, Session, SessionState, Zone, Verdict, kDefaultDeny
<1>3. ZoneFor(m.src.ip) \in Zone /\ ZoneFor(m.dst.ip) \in Zone
  BY <1>1, ZoneForType
<1>4. decision \in [rule : Nat, verdict : Verdict]
  BY EvaluateType
<1>5. s = [n EXCEPT !.from_zone = ZoneFor(m.src.ip), !.to_zone = ZoneFor(m.dst.ip),
                    !.matched_rule = decision.rule, !.verdict = decision.verdict]
  BY DEF Judged, NewSession
<1> HIDE DEF decision, s
<1>6. s \in Session
  BY <1>2, <1>3, <1>4, <1>5 DEF Session
<1>7. /\ s.init = m.src /\ s.resp = m.dst /\ s.proto = m.proto
      /\ s.state = "New" /\ ~s.nat_applied /\ ~s.app_shifted /\ ~s.app_latched
      /\ s.l7_bytes_seen = 0
      /\ s.from_zone = ZoneFor(m.src.ip) /\ s.to_zone = ZoneFor(m.dst.ip)
      /\ s.matched_rule = decision.rule /\ s.verdict = decision.verdict
  BY <1>5 DEF NewSession
<1>8. Decided(s)
  <2>1. [rule |-> s.matched_rule, verdict |-> s.verdict] = decision
    BY <1>4, <1>7
  <2>2. decision = Evaluate(s.from_zone, s.to_zone, s.proto, s.resp.port,
                            IF s.app_latched THEN s.app ELSE NoApp)
    BY <1>7 DEF decision
  <2> QED
    BY <1>7, <2>1, <2>2 DEF Decided
<1> QED
  BY <1>6, <1>7, <1>8 DEF s, SessionInv, Latch, Handshake, Binding

\* Translation touches nothing but the binding.
LEMMA TranslatedInv ==
  ASSUME NEW s, SessionInv(s), ~s.nat_applied, nat \in Pool
  PROVE  LET u == Translated(s)
         IN  /\ SessionInv(u)
             /\ u \in {s, [s EXCEPT !.nat_applied = TRUE, !.nat_port = nat.next_port]}
             /\ u.nat_applied <=> WantsNat(s) /\ CanAllocate(nat)
             /\ u.nat_applied => u.nat_port = nat.next_port
<1> DEFINE u == [s EXCEPT !.nat_applied = TRUE, !.nat_port = nat.next_port]
<1>0. s \in Session
  BY DEF SessionInv
<1>1. CASE ~(WantsNat(s) /\ CanAllocate(nat))
  BY <1>1 DEF Translated
<1>2. CASE WantsNat(s) /\ CanAllocate(nat)
  <2>1. nat.next_port \in Nat
    BY NatPoolAssumption DEF Pool
  <2>2. u \in Session
    BY <1>0, <2>1 DEF Session
  <2>3. /\ u.init = s.init /\ u.resp = s.resp /\ u.proto = s.proto
        /\ u.from_zone = s.from_zone /\ u.to_zone = s.to_zone
        /\ u.matched_rule = s.matched_rule /\ u.verdict = s.verdict
        /\ u.app = s.app /\ u.app_latched = s.app_latched /\ u.app_shifted = s.app_shifted
        /\ u.l7_bytes_seen = s.l7_bytes_seen /\ u.state = s.state
        /\ u.pkts_c2s = s.pkts_c2s /\ u.pkts_s2c = s.pkts_s2c
        /\ u.nat_applied /\ u.nat_port = nat.next_port
    BY <1>0 DEF Session
  <2>4. Translated(s) = u
    BY <1>2 DEF Translated
  <2> HIDE DEF u
  <2>5. SessionInv(u)
    BY <1>2, <2>2, <2>3 DEF SessionInv, Decided, Latch, Handshake, Binding, WantsNat, CanAllocate
  <2> QED
    BY <1>2, <2>3, <2>4, <2>5 DEF u
<1> QED
  BY <1>1, <1>2

\* touch counts the packet, in its direction, and the state machine moves on: the
\* handshake's packets are counted before the state they earn.
LEMMA AdvancedInv ==
  ASSUME NEW s, SessionInv(s), NEW m \in Segment, NEW ts \in Nat, NEW dir \in BOOLEAN,
         m.proto = s.proto, s.state = "New" => ~dir /\ MayOpen(m)
  PROVE  LET u == Advanced(Touched(s, ts, dir), m, dir)
         IN  /\ SessionInv(u) /\ Continues(s, u) /\ u.state # "New"
             /\ Decision(u) = Decision(s) /\ u.app_latched = s.app_latched
             /\ u.l7_bytes_seen = s.l7_bytes_seen
<1> DEFINE t == Touched(s, ts, dir)
           u == Advanced(t, m, dir)
<1>0. s \in Session
  BY DEF SessionInv
<1>1. t \in Session
  <2>1. s.pkts_c2s + 1 \in Nat /\ s.pkts_s2c + 1 \in Nat
    BY <1>0 DEF Session
  <2>2. t = IF dir THEN [s EXCEPT !.last_seen = ts, !.pkts_s2c = s.pkts_s2c + 1]
                   ELSE [s EXCEPT !.last_seen = ts, !.pkts_c2s = s.pkts_c2s + 1]
    BY DEF Touched
  <2> HIDE DEF t
  <2> QED
    BY <1>0, <2>1, <2>2 DEF Session
<1>2. /\ t.init = s.init /\ t.resp = s.resp /\ t.proto = s.proto
      /\ t.from_zone = s.from_zone /\ t.to_zone = s.to_zone
      /\ t.matched_rule = s.matched_rule /\ t.verdict = s.verdict
      /\ t.app = s.app /\ t.app_latched = s.app_latched /\ t.app_shifted = s.app_shifted
      /\ t.l7_bytes_seen = s.l7_bytes_seen
      /\ t.state = s.state /\ t.fin_from_initiator = s.fin_from_initiator
      /\ t.nat_applied = s.nat_applied /\ t.nat_port = s.nat_port
      /\ t.pkts_c2s = IF dir THEN s.pkts_c2s ELSE s.pkts_c2s + 1
      /\ t.pkts_s2c = IF dir THEN s.pkts_s2c + 1 ELSE s.pkts_s2c
  BY <1>0 DEF Touched, Session
<1> HIDE DEF t
<1>3. m.flags \in SUBSET TcpFlag
  BY DEF Segment
<1>4. Moves(t, u)
  BY <1>1, <1>3, TcpAdvanceMoves, UdpAdvanceMoves DEF Advanced
<1>5. /\ u \in Session
      /\ u.init = t.init /\ u.resp = t.resp /\ u.proto = t.proto
      /\ u.from_zone = t.from_zone /\ u.to_zone = t.to_zone
      /\ u.matched_rule = t.matched_rule /\ u.verdict = t.verdict
      /\ u.app = t.app /\ u.app_latched = t.app_latched /\ u.app_shifted = t.app_shifted
      /\ u.l7_bytes_seen = t.l7_bytes_seen
      /\ u.nat_applied = t.nat_applied /\ u.nat_port = t.nat_port
      /\ u.pkts_c2s = t.pkts_c2s /\ u.pkts_s2c = t.pkts_s2c
  <2> HIDE DEF u
  <2> QED
    BY <1>1, <1>4 DEF Moves, Session
<1>6. t.state = "Closed" => u.state = "Closed"
  BY <1>1, <1>3, ClosedStaysClosed DEF Advanced
<1>7. u.state # "New"
  BY <1>1 DEF Advanced, TcpAdvance, UdpAdvance, MovesOn, Successor, Session
<1>8. Handshake(u)
  <2>1. CASE m.proto # "tcp"
    BY <1>2, <1>5, <2>1 DEF Handshake
  <2>2. CASE m.proto = "tcp"
    <3>1. u.state = TcpAdvance(t, m.flags, dir).state
      BY <2>2 DEF Advanced
    <3>2. /\ s.pkts_c2s \in Nat /\ s.pkts_s2c \in Nat
          /\ s.state \in SessionState
      BY <1>0 DEF Session
    <3>3. ~Midstream =>
            \/ u.state = "Closed"
            \/ u.state = s.state /\ s.state # "New"
            \/ s.state = "New" /\ u.state = "SynSeen" /\ ~dir
            \/ s.state = "SynSeen" /\ u.state = "SynAckSeen" /\ dir
            \/ s.state = "SynAckSeen" /\ u.state = "Established" /\ ~dir
            \/ s.state = "Established" /\ u.state = "FinSeen"
            \/ s.state = "FinSeen" /\ u.state = "Closing"
      <4> HIDE DEF u
      <4> QED
        BY <1>1, <1>2, <2>2, <3>1, <3>2
           DEF TcpAdvance, MovesOn, SynAckLeg, ThirdLeg, Successor, MayOpen, Session, SessionState
    <3> HIDE DEF u
    <3> QED
      BY <1>2, <1>5, <2>2, <3>2, <3>3 DEF SessionInv, Handshake
  <2> QED
    BY <2>1, <2>2
<1> HIDE DEF u
<1>9. SessionInv(u)
  BY <1>2, <1>5, <1>6, <1>8 DEF SessionInv, Decided, Latch, Binding
<1>10. Continues(s, u) /\ Decision(u) = Decision(s)
  BY <1>0, <1>2, <1>5, <1>6 DEF Continues, Decision, Session
<1> QED
  BY <1>2, <1>5, <1>7, <1>9, <1>10 DEF u, t

\* What classify answers is an application, or that it is exhausted.
LEMMA ClassifyAnswers ==
  ASSUME NEW payload, NEW proto, NEW port, payload.size # 0, payload.size \in Nat
  PROVE  LET result == Classify(payload, proto, port)
         IN  result.application \in App \/ (result.application = NoApp /\ result.exhausted)
<1> DEFINE recognised == Recognised(payload, proto, port)
<1>1. recognised \in App \cup {NoApp}
  BY DEF Recognised, App
<1>2. /\ Classify(payload, proto, port).application = recognised
      /\ Classify(payload, proto, port).exhausted = (payload.size > 0 /\ recognised = NoApp)
  BY DEF Classify
<1> HIDE DEF recognised
<1>3. payload.size > 0
  OBVIOUS
<1> QED
  BY <1>1, <1>2, <1>3, Zenon

\* The second evaluation: whatever it changes, the decision is again the policy's, and
\* a session that lost its rule is closed.
LEMMA LatchedInv ==
  ASSUME NEW s, SessionInv(s), ~s.app_latched, s.state # "New",
         NEW n \in Nat, n > 0, NEW application \in App
  PROVE  LET u == Latched([s EXCEPT !.l7_bytes_seen = n], application)
         IN  SessionInv(u) /\ Continues(s, u) /\ u.state # "New"
<1> DEFINE seen == [s EXCEPT !.l7_bytes_seen = n]
           after == Evaluate(s.from_zone, s.to_zone, s.proto, s.resp.port, application)
           shifted == after.verdict # s.verdict
           u == Latched(seen, application)
<1>0. s \in Session
  BY DEF SessionInv
<1>1. after \in [rule : Nat, verdict : Verdict]
  BY EvaluateType
<1>2. seen \in Session /\ seen.app_shifted = s.app_shifted
  BY <1>0 DEF Session
<1>3. u = [s EXCEPT !.l7_bytes_seen = n, !.app = application, !.app_latched = TRUE,
                    !.matched_rule = after.rule, !.verdict = after.verdict,
                    !.app_shifted = s.app_shifted \/ shifted,
                    !.state = IF shifted /\ after.verdict # "Allow" THEN "Closed" ELSE s.state]
  BY <1>0 DEF Latched, Session
<1> HIDE DEF after, u
<1>4. /\ u.init = s.init /\ u.resp = s.resp /\ u.proto = s.proto
      /\ u.from_zone = s.from_zone /\ u.to_zone = s.to_zone
      /\ u.nat_applied = s.nat_applied /\ u.nat_port = s.nat_port
      /\ u.pkts_c2s = s.pkts_c2s /\ u.pkts_s2c = s.pkts_s2c
      /\ u.matched_rule = after.rule /\ u.verdict = after.verdict
      /\ u.app = application /\ u.app_latched = TRUE
      /\ u.app_shifted = (s.app_shifted \/ shifted)
      /\ u.l7_bytes_seen = n
      /\ u.state = IF shifted /\ after.verdict # "Allow" THEN "Closed" ELSE s.state
  BY <1>0, <1>3 DEF Session
<1>5. u \in Session
  BY <1>0, <1>1, <1>3 DEF Session, SessionState
<1>6. Decided(u)
  <2>1. [rule |-> u.matched_rule, verdict |-> u.verdict] = after
    BY <1>1, <1>4
  <2>2. after = Evaluate(u.from_zone, u.to_zone, u.proto, u.resp.port,
                         IF u.app_latched THEN u.app ELSE NoApp)
    BY <1>4 DEF after
  <2> QED
    BY <1>4, <2>1, <2>2 DEF Decided, SessionInv
<1>7. Latch(u)
  BY <1>4 DEF Latch, SessionInv
<1>8. Handshake(u)
  BY <1>4 DEF Handshake, SessionInv
<1>9. Binding(u)
  BY <1>4 DEF Binding, SessionInv
<1>10. Continues(s, u)
  BY <1>4 DEF Continues
<1> QED
  BY <1>4, <1>5, <1>6, <1>7, <1>8, <1>9, <1>10 DEF u, SessionInv

\* Every payload is judged when it comes: none waits for more.
LEMMA IdentifiedInv ==
  ASSUME NEW s, SessionInv(s), s.state # "New", NEW m \in Segment, NEW dir \in BOOLEAN
  PROVE  LET u == Identified(s, m, dir)
         IN  SessionInv(u) /\ Continues(s, u) /\ u.state # "New"
<1> DEFINE port == IF dir THEN s.resp.port ELSE m.dst.port
           result == Classify(m.payload, s.proto, port)
           n == s.l7_bytes_seen + m.payload.size
           seen == [s EXCEPT !.l7_bytes_seen = n]
<1>0. s \in Session /\ m.payload.size \in Nat /\ s.l7_bytes_seen \in Nat
  BY DEF SessionInv, Segment, Payload, Session
<1>1. CASE s.app_latched \/ m.payload.size = 0
  <2>1. Identified(s, m, dir) = s
    BY <1>1 DEF Identified
  <2> QED
    BY <1>0, <2>1 DEF Continues, Session
<1>2. CASE ~s.app_latched /\ m.payload.size # 0
  <2>1. n \in Nat /\ n > 0
    BY <1>0, <1>2
  <2>2. result.application \in App \/ (result.application = NoApp /\ result.exhausted)
    BY <1>0, <1>2, ClassifyAnswers
  <2>3. "unknown" \in App /\ NoApp \notin App
    BY DEF App, NoApp
  <2> HIDE DEF port
  <2>4. Identified(s, m, dir) = IF result.application # NoApp THEN Latched(seen, result.application)
                                ELSE IF result.exhausted \/ seen.l7_bytes_seen >= kMaxL7Bytes
                                  THEN Latched(seen, "unknown") ELSE seen
    BY <1>2 DEF Identified, port
  <2> HIDE DEF result, n
  <2>5. CASE result.application \in App
    BY <1>2, <2>1, <2>3, <2>4, <2>5, LatchedInv
  <2>6. CASE result.application = NoApp /\ result.exhausted
    BY <1>2, <2>1, <2>3, <2>4, <2>6, LatchedInv
  <2> QED
    BY <2>2, <2>5, <2>6
<1> QED
  BY <1>1, <1>2

\* One packet of a session, whole.
LEMMA AppliedInv ==
  ASSUME NEW s, SessionInv(s), NEW m \in Segment, NEW ts \in Nat, NEW dir \in BOOLEAN,
         m.proto = s.proto, s.state = "New" => ~dir /\ MayOpen(m)
  PROVE  LET u == Applied(s, m, ts, dir)
         IN  SessionInv(u) /\ Continues(s, u) /\ u.state # "New"
<1> DEFINE t == Advanced(Touched(s, ts, dir), m, dir)
           u == Identified(t, m, dir)
<1>1. /\ SessionInv(t) /\ Continues(s, t) /\ t.state # "New"
      /\ Decision(t) = Decision(s) /\ t.app_latched = s.app_latched
  BY AdvancedInv
<1> HIDE DEF t
<1>2. SessionInv(u) /\ Continues(t, u) /\ u.state # "New"
  BY <1>1, IdentifiedInv
<1> HIDE DEF u
<1>3. t.verdict = s.verdict /\ t.app_shifted = s.app_shifted
  BY <1>1 DEF Decision
<1>4. Continues(s, u)
  BY <1>1, <1>2, <1>3 DEF Continues
<1> QED
  BY <1>2, <1>4 DEF Applied, t, u

-----------------------------------------------------------------------------
(***************************************************************************)
(* The whole firewall: a table of good sessions, the counters that account *)
(* for them, the pool that its bindings came from.                         *)
(***************************************************************************)
AllGood(t) == \A i \in DOMAIN t.sessions :
                SessionInv(t.sessions[i]) /\ t.sessions[i].state # "New"

Judgements(t, v) == {i \in DOMAIN t.sessions : t.sessions[i].verdict = v}
Shifted(t)       == {i \in DOMAIN t.sessions : t.sessions[i].app_shifted}
Bound(t)         == {i \in DOMAIN t.sessions : t.sessions[i].nat_applied}

\* The counters that count sessions, and what they count.
Ledger(t, c) ==
  /\ c \in [Counter -> Nat]
  /\ \A v \in Verdict : c[VerdictCounter(v)] = Cardinality(Judgements(t, v))
  /\ c.app_shifts = Cardinality(Shifted(t))
  /\ c.sessions_created = Len(t.sessions)
  /\ c.sessions_created = c.sessions_retired + Cardinality(DOMAIN t.by_key)

\* As nothing is ever released, the ports handed out are the first in_use of the
\* range, each to one session.
PoolOK(t, p) ==
  /\ p \in Pool
  /\ p.in_use <= LastPort - FirstPort
  /\ p.next_port = FirstPort + p.in_use
  /\ p.in_use = Cardinality(Bound(t))
  /\ \A i \in Bound(t) : t.sessions[i].nat_port \in FirstPort .. p.next_port - 1
  /\ \A i, j \in Bound(t) : i # j => t.sessions[i].nat_port # t.sessions[j].nat_port

IInv == /\ TableOK(flows) /\ AllGood(flows)
        /\ Ledger(flows, counters)
        /\ PoolOK(flows, nat)
        /\ last_ts \in Nat
        /\ phase \in {"reading", "done"}

-----------------------------------------------------------------------------
(***************************************************************************)
(* Counting.                                                               *)
(***************************************************************************)
\* A set of positions is finite.
LEMMA PositionsFinite ==
  ASSUME NEW t, TableOK(t), NEW S \in SUBSET DOMAIN t.sessions
  PROVE  IsFiniteSet(S) /\ Cardinality(S) \in Nat
<1>0. Len(t.sessions) \in Nat /\ DOMAIN t.sessions = 1 .. Len(t.sessions)
  BY DEF TableOK
<1>1. IsFiniteSet(DOMAIN t.sessions)
  <2>1. 1 \in Int /\ Len(t.sessions) \in Int
    BY <1>0
  <2>2. IsFiniteSet(1 .. Len(t.sessions))
    BY <2>1, FS_Interval
  <2> QED
    BY <1>0, <2>2
<1> QED
  BY <1>1, FS_Subset, FS_CardinalityType

\* One element may leave a set, and may come back.
LEMMA CardinalitySwap ==
  ASSUME NEW S, IsFiniteSet(S), NEW x, NEW T,
         T \ {x} = S \ {x}
  PROVE  /\ IsFiniteSet(T)
         /\ Cardinality(T) = Cardinality(S) - (IF x \in S THEN 1 ELSE 0) + (IF x \in T THEN 1 ELSE 0)
         /\ x \in S => Cardinality(S) >= 1
<1> DEFINE rest == S \ {x}
<1>1. /\ IsFiniteSet(rest)
      /\ Cardinality(rest) = IF x \in S THEN Cardinality(S) - 1 ELSE Cardinality(S)
      /\ Cardinality(rest) \in Nat /\ Cardinality(S) \in Nat
  BY FS_RemoveElement, FS_CardinalityType
<1>2. x \notin rest /\ T = IF x \in T THEN rest \cup {x} ELSE rest
  OBVIOUS
<1> HIDE DEF rest
<1>3. /\ IsFiniteSet(T)
      /\ Cardinality(T) = IF x \in T THEN Cardinality(rest) + 1 ELSE Cardinality(rest)
  <2>1. CASE x \in T
    BY <1>1, <1>2, <2>1, FS_AddElement
  <2>2. CASE x \notin T
    BY <1>1, <1>2, <2>2
  <2> QED
    BY <2>1, <2>2
<1> QED
  BY <1>1, <1>3

\* Counting a frame under names that do not count sessions.
Accounts == {"sessions_created", "sessions_retired", "allowed", "denied", "dropped", "app_shifts"}

LEMMA CountInv ==
  ASSUME NEW t, NEW c, Ledger(t, c), NEW names, names \cap Accounts = {}
  PROVE  Ledger(t, Count(c, names))
<1>1. Count(c, names) \in [Counter -> Nat]
  BY DEF Ledger, Count
<1>2. \A n \in Accounts : Count(c, names)[n] = c[n]
  BY DEF Ledger, Count, Accounts, Counter
<1>3. \A v \in Verdict : VerdictCounter(v) \in Accounts
  BY DEF Verdict, VerdictCounter, Accounts
<1> QED
  BY <1>1, <1>2, <1>3 DEF Ledger, Accounts

-----------------------------------------------------------------------------
(***************************************************************************)
(* The sweep.                                                              *)
(***************************************************************************)
LEMMA ClosingInv ==
  ASSUME NEW s, SessionInv(s)
  PROVE  LET u == [s EXCEPT !.state = "Closed"]
         IN  /\ SessionInv(u) /\ Continues(s, u) /\ u.state = "Closed"
             /\ Decision(u) = Decision(s)
<1> DEFINE u == [s EXCEPT !.state = "Closed"]
<1>0. s \in Session
  BY DEF SessionInv
<1>1. u \in Session
  BY <1>0 DEF Session, SessionState
<1>2. /\ u.init = s.init /\ u.resp = s.resp /\ u.proto = s.proto
      /\ u.from_zone = s.from_zone /\ u.to_zone = s.to_zone
      /\ u.matched_rule = s.matched_rule /\ u.verdict = s.verdict
      /\ u.app = s.app /\ u.app_latched = s.app_latched /\ u.app_shifted = s.app_shifted
      /\ u.l7_bytes_seen = s.l7_bytes_seen /\ u.state = "Closed"
      /\ u.pkts_c2s = s.pkts_c2s /\ u.pkts_s2c = s.pkts_s2c
      /\ u.nat_applied = s.nat_applied /\ u.nat_port = s.nat_port
  BY <1>0 DEF Session
<1> HIDE DEF u
<1>3. SessionInv(u)
  BY <1>1, <1>2 DEF SessionInv, Decided, Latch, Handshake, Binding
<1>4. Continues(s, u) /\ Decision(u) = Decision(s)
  BY <1>0, <1>2 DEF Continues, Decision, Session
<1> QED
  BY <1>2, <1>3, <1>4 DEF u

\* Two tables with the same decisions have the same accounts and the same bindings.
SameDecisions(t, u) ==
  /\ DOMAIN u.sessions = DOMAIN t.sessions
  /\ \A i \in DOMAIN t.sessions :
       /\ Continues(t.sessions[i], u.sessions[i])
       /\ Decision(u.sessions[i]) = Decision(t.sessions[i])

LEMMA SameAccounts ==
  ASSUME NEW t, NEW u, SameDecisions(t, u)
  PROVE  /\ \A v : Judgements(u, v) = Judgements(t, v)
         /\ Shifted(u) = Shifted(t) /\ Bound(u) = Bound(t)
<1>1. \A i \in DOMAIN t.sessions :
        /\ u.sessions[i].verdict = t.sessions[i].verdict
        /\ u.sessions[i].app_shifted = t.sessions[i].app_shifted
        /\ u.sessions[i].nat_applied = t.sessions[i].nat_applied
  BY DEF SameDecisions, Continues, Decision
<1> QED
  BY <1>1 DEF SameDecisions, Judgements, Shifted, Bound

LEMMA SamePool ==
  ASSUME NEW t, NEW u, SameDecisions(t, u), NEW p, PoolOK(t, p)
  PROVE  PoolOK(u, p)
<1>1. Bound(u) = Bound(t) /\ DOMAIN u.sessions = DOMAIN t.sessions
  BY SameAccounts DEF SameDecisions
<1>2. \A i \in DOMAIN t.sessions :
        /\ u.sessions[i].verdict = t.sessions[i].verdict
        /\ u.sessions[i].app_shifted = t.sessions[i].app_shifted
        /\ u.sessions[i].nat_applied = t.sessions[i].nat_applied
        /\ u.sessions[i].nat_port = t.sessions[i].nat_port
        /\ WantsNat(u.sessions[i]) = WantsNat(t.sessions[i])
  BY DEF SameDecisions, Continues, Decision, WantsNat
<1>3. \A i \in Bound(t) : i \in DOMAIN t.sessions
  BY DEF Bound
<1> QED
  BY <1>1, <1>2, <1>3 DEF PoolOK

LEMMA AgeOutInv ==
  ASSUME NEW t, TableOK(t), AllGood(t), NEW now
  PROVE  LET u == AgeOut(t, now)
         IN  AllGood(u) /\ SameDecisions(t, u)
<1> DEFINE u == AgeOut(t, now)
<1>1. /\ DOMAIN u.sessions = DOMAIN t.sessions
      /\ \A i \in DOMAIN t.sessions :
           u.sessions[i] \in {t.sessions[i], [t.sessions[i] EXCEPT !.state = "Closed"]}
  BY AgeOutOK
<1> HIDE DEF u
<1>2. ASSUME NEW s, SessionInv(s) PROVE Continues(s, s)
  BY <1>2 DEF SessionInv, Session, Continues
<1>3. ASSUME NEW i \in DOMAIN t.sessions
      PROVE  /\ SessionInv(u.sessions[i]) /\ u.sessions[i].state # "New"
             /\ Continues(t.sessions[i], u.sessions[i])
             /\ Decision(u.sessions[i]) = Decision(t.sessions[i])
  <2>1. SessionInv(t.sessions[i]) /\ t.sessions[i].state # "New"
    BY DEF AllGood
  <2>2. CASE u.sessions[i] = t.sessions[i]
    BY <1>2, <2>1, <2>2
  <2>3. CASE u.sessions[i] = [t.sessions[i] EXCEPT !.state = "Closed"]
    BY <2>1, <2>3, ClosingInv
  <2> QED
    BY <1>1, <2>2, <2>3
<1> QED
  BY <1>1, <1>3 DEF AllGood, SameDecisions, u

\* What a sweep takes out of the index is what it adds to the retired.
LEMMA AgeOutLedger ==
  ASSUME NEW t, TableOK(t), AllGood(t), NEW now, NEW c, Ledger(t, c),
         NEW d \in [Counter -> Nat],
         \A n \in Accounts \ {"sessions_retired"} : d[n] = c[n],
         d.sessions_retired = c.sessions_retired + Cardinality(Reaped(t, now))
  PROVE  Ledger(AgeOut(t, now), d)
<1> DEFINE u == AgeOut(t, now)
<1>1. /\ DOMAIN u.by_key = DOMAIN t.by_key \ Reaped(t, now)
      /\ DOMAIN u.sessions = DOMAIN t.sessions
      /\ u.sessions \in Seq(Session) /\ t.sessions \in Seq(Session)
  BY AgeOutOK DEF TableOK
<1>2. SameDecisions(t, u)
  BY AgeOutInv
<1> HIDE DEF u
<1>3. Len(u.sessions) = Len(t.sessions)
  BY <1>1
<1>4. /\ IsFiniteSet(DOMAIN t.by_key) /\ Reaped(t, now) \in SUBSET DOMAIN t.by_key
      /\ Cardinality(DOMAIN t.by_key) \in Nat
  BY FS_CardinalityType DEF TableOK, Reaped
<1>5. Cardinality(DOMAIN u.by_key) = Cardinality(DOMAIN t.by_key) - Cardinality(Reaped(t, now))
  <2>1. DOMAIN t.by_key \cap Reaped(t, now) = Reaped(t, now)
    BY <1>4
  <2>2. /\ Cardinality(DOMAIN t.by_key \ Reaped(t, now))
             = Cardinality(DOMAIN t.by_key) - Cardinality(DOMAIN t.by_key \cap Reaped(t, now))
    BY <1>4, FS_Subset, FS_Difference
  <2> QED
    BY <1>1, <2>1, <2>2
<1>6. /\ \A v : Judgements(u, v) = Judgements(t, v)
      /\ Shifted(u) = Shifted(t)
  BY <1>2, SameAccounts
<1>7. Cardinality(Reaped(t, now)) \in Nat
  BY <1>4, FS_Subset, FS_CardinalityType
<1>8. \A v \in Verdict : VerdictCounter(v) \in Accounts \ {"sessions_retired"}
  BY DEF Verdict, VerdictCounter, Accounts
<1>9. /\ d.app_shifts = c.app_shifts /\ d.sessions_created = c.sessions_created
      /\ \A v \in Verdict : d[VerdictCounter(v)] = c[VerdictCounter(v)]
  BY <1>8 DEF Accounts
<1>10. c.sessions_retired \in Nat
  BY DEF Ledger, Counter
<1>11. d.sessions_created = d.sessions_retired + Cardinality(DOMAIN u.by_key)
  BY <1>4, <1>5, <1>7, <1>9, <1>10 DEF Ledger
<1>12. Ledger(u, d)
  BY <1>3, <1>6, <1>9, <1>11 DEF Ledger
<1> QED
  BY <1>12 DEF u

\* The start of process.
LEMMA SweptInv ==
  ASSUME IInv, NEW ts \in Nat
  PROVE  /\ TableOK(Swept(ts)) /\ AllGood(Swept(ts)) /\ PoolOK(Swept(ts), nat)
         /\ Ledger(Swept(ts), Arrived(ts))
         /\ SameDecisions(flows, Swept(ts))
<1>1. Cardinality(Reaped(flows, ts)) \in Nat
  <2>1. IsFiniteSet(DOMAIN flows.by_key) /\ Reaped(flows, ts) \in SUBSET DOMAIN flows.by_key
    BY DEF IInv, TableOK, Reaped
  <2> QED
    BY <2>1, FS_Subset, FS_CardinalityType
<1>2. /\ Arrived(ts) \in [Counter -> Nat]
      /\ \A n \in Accounts \ {"sessions_retired"} : Arrived(ts)[n] = counters[n]
      /\ Arrived(ts).sessions_retired =
           counters.sessions_retired + IF SweepDue THEN Cardinality(Reaped(flows, ts)) ELSE 0
  <2>1. /\ counters \in [Counter -> Nat]
        /\ {"packets", "sessions_retired"} \subseteq Counter /\ Accounts \subseteq Counter
        /\ "packets" \notin Accounts
    BY DEF IInv, Ledger, Counter, Accounts
  <2>2. Arrived(ts) = [counters EXCEPT
          !["packets"] = counters["packets"] + 1,
          !["sessions_retired"] = counters["sessions_retired"]
             + IF SweepDue THEN Cardinality(Reaped(flows, ts)) ELSE 0]
    BY <2>1 DEF Arrived
  <2> QED
    BY <1>1, <2>1, <2>2
<1>3. CASE SweepDue
  <2>1. Swept(ts) = AgeOut(flows, ts)
    BY <1>3 DEF Swept
  <2>2. TableOK(AgeOut(flows, ts))
    BY AgeOutOK DEF IInv
  <2> QED
    BY <1>2, <1>3, <2>1, <2>2, AgeOutInv, AgeOutLedger, SamePool DEF IInv
<1>4. CASE ~SweepDue
  <2>1. Swept(ts) = flows
    BY <1>4 DEF Swept
  <2>2. \A v \in Verdict : VerdictCounter(v) \in Accounts \ {"sessions_retired"}
    BY DEF Verdict, VerdictCounter, Accounts
  <2>3. /\ Arrived(ts).app_shifts = counters.app_shifts
        /\ Arrived(ts).sessions_created = counters.sessions_created
        /\ Arrived(ts).sessions_retired = counters.sessions_retired
        /\ \A v \in Verdict : Arrived(ts)[VerdictCounter(v)] = counters[VerdictCounter(v)]
    BY <1>2, <1>4, <2>2 DEF Accounts, IInv, Ledger, Counter
  <2>4. Ledger(flows, Arrived(ts))
    BY <1>2, <2>3 DEF IInv, Ledger
  <2>5. SameDecisions(flows, flows)
    BY DEF IInv, AllGood, SessionInv, Session, SameDecisions, Continues
  <2> QED
    BY <2>1, <2>4, <2>5 DEF IInv
<1> QED
  BY <1>3, <1>4

-----------------------------------------------------------------------------
(***************************************************************************)
(* A shift moves a session from one verdict counter to another.            *)
(***************************************************************************)
LEMMA VerdictCounters ==
  /\ \A v \in Verdict : VerdictCounter(v) \in {"allowed", "denied", "dropped"}
  /\ \A v, w \in Verdict : VerdictCounter(v) = VerdictCounter(w) => v = w
BY DEF Verdict, VerdictCounter

LEMMA MovedCounts ==
  ASSUME NEW c \in [Counter -> Nat], NEW b, NEW a,
         b.verdict \in Verdict, a.verdict \in Verdict,
         c[VerdictCounter(b.verdict)] >= 1
  PROVE  LET d == Moved(c, b, a)
         IN  /\ d \in [Counter -> Nat]
             /\ \A v \in Verdict :
                  d[VerdictCounter(v)] = c[VerdictCounter(v)]
                                         - (IF v = b.verdict THEN 1 ELSE 0)
                                         + (IF v = a.verdict THEN 1 ELSE 0)
             /\ d.app_shifts = c.app_shifts + IF a.verdict = b.verdict THEN 0 ELSE 1
             /\ d.sessions_created = c.sessions_created
             /\ d.sessions_retired = c.sessions_retired
<1> DEFINE from == VerdictCounter(b.verdict)
           to   == VerdictCounter(a.verdict)
           d    == Moved(c, b, a)
<1>1. /\ {"allowed", "denied", "dropped", "app_shifts",
          "sessions_created", "sessions_retired"} \subseteq Counter
      /\ from \in {"allowed", "denied", "dropped"}
      /\ to \in {"allowed", "denied", "dropped"}
  BY VerdictCounters DEF Counter
<1>2. CASE a.verdict = b.verdict
  <2>1. d = c
    BY <1>2 DEF Moved
  <2>2. \A v \in Verdict : c[VerdictCounter(v)] \in Nat
    BY <1>1, VerdictCounters
  <2>3. c.app_shifts \in Nat
    BY <1>1
  <2> HIDE DEF d
  <2> QED
    BY <1>2, <2>1, <2>2, <2>3 DEF d
<1>3. CASE a.verdict # b.verdict
  <2>1. from # to
    BY <1>3, VerdictCounters
  <2>2. d = [c EXCEPT !["app_shifts"] = c["app_shifts"] + 1,
                      ![from] = c[from] - 1, ![to] = c[to] + 1]
    BY <1>1, <1>3, <2>1 DEF Moved
  <2> HIDE DEF from, to, d
  <2>3. /\ d \in [Counter -> Nat]
        /\ d[from] = c[from] - 1 /\ d[to] = c[to] + 1
        /\ d["app_shifts"] = c["app_shifts"] + 1
        /\ \A n \in Counter : n \notin {"app_shifts", from, to} => d[n] = c[n]
    <3>1. c[from] - 1 \in Nat /\ c[to] + 1 \in Nat /\ c["app_shifts"] + 1 \in Nat
      BY <1>1 DEF from
    <3> QED
      BY <1>1, <2>1, <2>2, <3>1
  <2>4. ASSUME NEW v \in Verdict
        PROVE  d[VerdictCounter(v)] = c[VerdictCounter(v)]
                                      - (IF v = b.verdict THEN 1 ELSE 0)
                                      + (IF v = a.verdict THEN 1 ELSE 0)
    <3>1. VerdictCounter(v) \in Counter /\ VerdictCounter(v) # "app_shifts"
      BY <1>1, VerdictCounters
    <3>2. c[VerdictCounter(v)] \in Nat
      BY <3>1
    <3>3. CASE v = b.verdict
      BY <1>3, <2>3, <3>2, <3>3 DEF from
    <3>4. CASE v = a.verdict
      BY <1>3, <2>3, <3>2, <3>4 DEF to
    <3>5. CASE v # a.verdict /\ v # b.verdict
      <4>1. VerdictCounter(v) \notin {from, to}
        BY <3>5, VerdictCounters DEF from, to
      <4> QED
        BY <2>3, <3>1, <3>2, <3>5, <4>1
    <3> QED
      BY <3>3, <3>4, <3>5
  <2>5. d.sessions_created = c.sessions_created /\ d.sessions_retired = c.sessions_retired
    BY <1>1, <2>3
  <2> QED
    BY <1>3, <2>3, <2>4, <2>5 DEF d
<1> QED
  BY <1>2, <1>3

\* The counters follow a session that a packet continues.
LEMMA ReplaceLedger ==
  ASSUME NEW t, TableOK(t), NEW c, Ledger(t, c), NEW i \in DOMAIN t.sessions,
         NEW s, SessionInv(s), SessionInv(t.sessions[i]), Continues(t.sessions[i], s),
         NEW u, u.sessions = [t.sessions EXCEPT ![i] = s], u.by_key = t.by_key
  PROVE  Ledger(u, Moved(c, t.sessions[i], s))
<1> DEFINE b == t.sessions[i]
           d == Moved(c, b, s)
<1>1. /\ DOMAIN u.sessions = DOMAIN t.sessions
      /\ Len(u.sessions) = Len(t.sessions)
      /\ u.sessions[i] = s
      /\ \A j \in DOMAIN t.sessions : j # i => u.sessions[j] = t.sessions[j]
  BY DEF TableOK
<1>2. /\ s \in Session /\ b \in Session
      /\ s.verdict \in Verdict /\ b.verdict \in Verdict
  BY DEF SessionInv, Session
<1>3. /\ s.verdict = b.verdict => (s.app_shifted <=> b.app_shifted)
      /\ s.verdict # b.verdict => s.app_shifted /\ ~b.app_shifted
  <2>1. s.app_shifted = (b.app_shifted \/ s.verdict # b.verdict)
    BY DEF Continues
  <2>2. s.app_shifted \in BOOLEAN /\ b.app_shifted \in BOOLEAN
    BY <1>2 DEF Session
  <2>3. s.verdict # b.verdict => ~b.app_shifted
    BY DEF Continues, Decision, SessionInv, Latch
  <2> HIDE DEF b
  <2> QED
    BY <2>1, <2>2, <2>3, Zenon
<1>4. ASSUME NEW v \in Verdict
      PROVE  /\ Cardinality(Judgements(u, v)) = Cardinality(Judgements(t, v))
                                                - (IF v = b.verdict THEN 1 ELSE 0)
                                                + (IF v = s.verdict THEN 1 ELSE 0)
             /\ v = b.verdict => Cardinality(Judgements(t, v)) >= 1
  <2>1. IsFiniteSet(Judgements(t, v))
    BY PositionsFinite DEF Judgements
  <2>2. Judgements(u, v) \ {i} = Judgements(t, v) \ {i}
    BY <1>1 DEF Judgements
  <2>3. (i \in Judgements(t, v) <=> v = b.verdict) /\ (i \in Judgements(u, v) <=> v = s.verdict)
    BY <1>1 DEF Judgements
  <2> QED
    BY <2>1, <2>2, <2>3, CardinalitySwap
<1>5. Cardinality(Shifted(u)) = Cardinality(Shifted(t)) + IF s.verdict = b.verdict THEN 0 ELSE 1
  <2>1. IsFiniteSet(Shifted(t)) /\ Cardinality(Shifted(t)) \in Nat
    BY PositionsFinite DEF Shifted
  <2>2. Shifted(u) \ {i} = Shifted(t) \ {i}
    BY <1>1 DEF Shifted
  <2>3. (i \in Shifted(t) <=> b.app_shifted) /\ (i \in Shifted(u) <=> s.app_shifted)
    BY <1>1 DEF Shifted
  <2>4. Cardinality(Shifted(u)) = Cardinality(Shifted(t)) - (IF i \in Shifted(t) THEN 1 ELSE 0)
                                                          + (IF i \in Shifted(u) THEN 1 ELSE 0)
    BY <2>1, <2>2, CardinalitySwap
  <2>5. CASE s.verdict = b.verdict
    BY <1>3, <2>1, <2>3, <2>4, <2>5
  <2>6. CASE s.verdict # b.verdict
    BY <1>3, <2>1, <2>3, <2>4, <2>6
  <2> QED
    BY <2>5, <2>6
<1>6. c \in [Counter -> Nat] /\ c[VerdictCounter(b.verdict)] >= 1
  BY <1>2, <1>4 DEF Ledger
<1> HIDE DEF b
<1>7. /\ d \in [Counter -> Nat]
      /\ \A v \in Verdict : d[VerdictCounter(v)] = c[VerdictCounter(v)]
                                                   - (IF v = b.verdict THEN 1 ELSE 0)
                                                   + (IF v = s.verdict THEN 1 ELSE 0)
      /\ d.app_shifts = c.app_shifts + IF s.verdict = b.verdict THEN 0 ELSE 1
      /\ d.sessions_created = c.sessions_created
      /\ d.sessions_retired = c.sessions_retired
  BY <1>2, <1>6, MovedCounts
<1> HIDE DEF d
<1>8. Ledger(u, d)
  <2>1. \A v \in Verdict : d[VerdictCounter(v)] = Cardinality(Judgements(u, v))
    BY <1>4, <1>7 DEF Ledger
  <2>2. d.app_shifts = Cardinality(Shifted(u))
    BY <1>5, <1>7 DEF Ledger
  <2>3. d.sessions_created = Len(u.sessions)
    BY <1>1, <1>7 DEF Ledger
  <2>4. d.sessions_created = d.sessions_retired + Cardinality(DOMAIN u.by_key)
    BY <1>7 DEF Ledger
  <2> QED
    BY <1>7, <2>1, <2>2, <2>3, <2>4 DEF Ledger
<1> QED
  BY <1>8 DEF b, d

\* The counters count a session that a packet opens under its last verdict.
LEMMA CreateLedger ==
  ASSUME NEW t, TableOK(t), NEW c, Ledger(t, c),
         NEW j, SessionInv(j), NEW s, SessionInv(s), s.app_shifted <=> s.verdict # j.verdict,
         KeyOf(s) \notin DOMAIN t.by_key,
         NEW names, names \cap Accounts = {"sessions_created", VerdictCounter(j.verdict)}
  PROVE  Ledger(Create(t, s), Moved(Count(c, names), j, s))
<1> DEFINE n == Len(t.sessions) + 1
           u == Create(t, s)
           e == Count(c, names)
           d == Moved(e, j, s)
<1>1. /\ s \in Session /\ j \in Session
      /\ s.verdict \in Verdict /\ j.verdict \in Verdict
  BY DEF SessionInv, Session
<1>2. u.sessions = Append(t.sessions, s) /\ DOMAIN u.by_key = DOMAIN t.by_key \cup {KeyOf(s)}
  BY <1>1, CreateOK
<1> HIDE DEF u
<1>3. /\ DOMAIN u.sessions = DOMAIN t.sessions \cup {n} /\ n \notin DOMAIN t.sessions
      /\ Len(u.sessions) = n
      /\ u.sessions[n] = s
      /\ \A i \in DOMAIN t.sessions : u.sessions[i] = t.sessions[i]
  BY <1>1, <1>2 DEF TableOK
<1> HIDE DEF n
<1>4. ASSUME NEW v \in Verdict
      PROVE  Cardinality(Judgements(u, v)) = Cardinality(Judgements(t, v))
                                             + (IF v = s.verdict THEN 1 ELSE 0)
  <2>1. IsFiniteSet(Judgements(t, v)) /\ Cardinality(Judgements(t, v)) \in Nat
    BY PositionsFinite DEF Judgements
  <2>2. Judgements(u, v) \ {n} = Judgements(t, v) \ {n}
    BY <1>3 DEF Judgements
  <2>3. n \notin Judgements(t, v) /\ (n \in Judgements(u, v) <=> v = s.verdict)
    BY <1>3 DEF Judgements
  <2> QED
    BY <2>1, <2>2, <2>3, CardinalitySwap
<1>5. Cardinality(Shifted(u)) = Cardinality(Shifted(t)) + IF s.verdict = j.verdict THEN 0 ELSE 1
  <2>1. IsFiniteSet(Shifted(t)) /\ Cardinality(Shifted(t)) \in Nat
    BY PositionsFinite DEF Shifted
  <2>2. Shifted(u) \ {n} = Shifted(t) \ {n}
    BY <1>3 DEF Shifted
  <2>3. n \notin Shifted(t) /\ (n \in Shifted(u) <=> s.app_shifted)
    BY <1>3 DEF Shifted
  <2>4. Cardinality(Shifted(u)) = Cardinality(Shifted(t)) - (IF n \in Shifted(t) THEN 1 ELSE 0)
                                                          + (IF n \in Shifted(u) THEN 1 ELSE 0)
    BY <2>1, <2>2, CardinalitySwap
  <2> QED
    BY <2>1, <2>3, <2>4
<1>6. /\ c \in [Counter -> Nat] /\ Accounts \subseteq Counter
      /\ \A v \in Verdict : VerdictCounter(v) \in Accounts \ {"sessions_created"}
  BY VerdictCounters DEF Ledger, Accounts, Counter
<1>7. /\ e \in [Counter -> Nat]
      /\ \A v \in Verdict : e[VerdictCounter(v)] = c[VerdictCounter(v)]
                                                   + (IF v = j.verdict THEN 1 ELSE 0)
      /\ e.sessions_created = c.sessions_created + 1
      /\ e.sessions_retired = c.sessions_retired
      /\ e.app_shifts = c.app_shifts
  <2>1. e \in [Counter -> Nat]
    BY <1>6 DEF Count
  <2>2. \A a \in Accounts :
          e[a] = IF a \in {"sessions_created", VerdictCounter(j.verdict)} THEN c[a] + 1 ELSE c[a]
    BY <1>6 DEF Count
  <2>3. \A a \in Accounts : c[a] \in Nat
    BY <1>6
  <2> HIDE DEF e
  <2>4. ASSUME NEW v \in Verdict
        PROVE  e[VerdictCounter(v)] = c[VerdictCounter(v)] + (IF v = j.verdict THEN 1 ELSE 0)
    BY <1>1, <1>6, <2>2, <2>3, VerdictCounters
  <2>5. VerdictCounter(j.verdict) \in {"allowed", "denied", "dropped"}
    BY <1>1, VerdictCounters
  <2>6. /\ e.sessions_created = c.sessions_created + 1
        /\ e.sessions_retired = c.sessions_retired
        /\ e.app_shifts = c.app_shifts
    BY <2>2, <2>5 DEF Accounts
  <2> QED
    BY <2>1, <2>4, <2>6
<1> HIDE DEF e
<1>8. e[VerdictCounter(j.verdict)] >= 1
  BY <1>1, <1>6, <1>7
<1>9. /\ d \in [Counter -> Nat]
      /\ \A v \in Verdict : d[VerdictCounter(v)] = e[VerdictCounter(v)]
                                                   - (IF v = j.verdict THEN 1 ELSE 0)
                                                   + (IF v = s.verdict THEN 1 ELSE 0)
      /\ d.app_shifts = e.app_shifts + IF s.verdict = j.verdict THEN 0 ELSE 1
      /\ d.sessions_created = e.sessions_created
      /\ d.sessions_retired = e.sessions_retired
  BY <1>1, <1>7, <1>8, MovedCounts
<1> HIDE DEF d
<1>10. Ledger(u, d)
  <2>1. \A v \in Verdict : d[VerdictCounter(v)] = Cardinality(Judgements(u, v))
    <3>1. \A v \in Verdict : c[VerdictCounter(v)] \in Nat
      BY <1>6
    <3> QED
      BY <1>4, <1>7, <1>9, <3>1 DEF Ledger
  <2>2. d.app_shifts = Cardinality(Shifted(u))
    BY <1>5, <1>7, <1>9 DEF Ledger
  <2>3. d.sessions_created = Len(u.sessions)
    BY <1>3, <1>7, <1>9 DEF Ledger, n
  <2>4. Cardinality(DOMAIN u.by_key) = Cardinality(DOMAIN t.by_key) + 1
        /\ Cardinality(DOMAIN t.by_key) \in Nat
    <3>1. IsFiniteSet(DOMAIN t.by_key)
      BY DEF TableOK
    <3>2. Cardinality(DOMAIN t.by_key \cup {KeyOf(s)}) = Cardinality(DOMAIN t.by_key) + 1
      BY <3>1, FS_AddElement
    <3> QED
      BY <1>2, <3>1, <3>2, FS_CardinalityType
  <2>5. c.sessions_created \in Nat /\ c.sessions_retired \in Nat
    BY <1>6 DEF Accounts
  <2>6. d.sessions_created = d.sessions_retired + Cardinality(DOMAIN u.by_key)
    BY <1>7, <1>9, <2>4, <2>5 DEF Ledger
  <2> QED
    BY <1>9, <2>1, <2>2, <2>3, <2>6 DEF Ledger
<1> QED
  BY <1>10 DEF u, e, d

-----------------------------------------------------------------------------
(***************************************************************************)
(* The pool.                                                               *)
(***************************************************************************)
\* A packet that continues a session leaves its binding alone.
LEMMA ReplacePool ==
  ASSUME NEW t, TableOK(t), NEW p, PoolOK(t, p), NEW i \in DOMAIN t.sessions,
         NEW s, SessionInv(s), SessionInv(t.sessions[i]), Continues(t.sessions[i], s),
         NEW u, u.sessions = [t.sessions EXCEPT ![i] = s]
  PROVE  PoolOK(u, p)
<1>1. /\ DOMAIN u.sessions = DOMAIN t.sessions
      /\ u.sessions[i] = s
      /\ \A k \in DOMAIN t.sessions : k # i => u.sessions[k] = t.sessions[k]
  BY DEF TableOK
<1>2. s.nat_applied = t.sessions[i].nat_applied /\ s.nat_port = t.sessions[i].nat_port
  BY DEF Continues
<1>3. Bound(u) = Bound(t)
  BY <1>1, <1>2 DEF Bound
<1>4. \A k \in Bound(t) : u.sessions[k].nat_port = t.sessions[k].nat_port
  BY <1>1, <1>2 DEF Bound
<1> QED
  BY <1>3, <1>4 DEF PoolOK

\* A new session takes the next port of the pool, or the pool was drained, or it was
\* not to be translated.
LEMMA CreatePool ==
  ASSUME NEW t, TableOK(t), PoolOK(t, nat),
         NEW j, SessionInv(j), ~j.nat_applied,
         NEW s, SessionInv(s), Continues(Translated(j), s), KeyOf(s) \notin DOMAIN t.by_key
  PROVE  PoolOK(Create(t, s), IF Translated(j).nat_applied THEN Allocated(nat) ELSE nat)
<1> DEFINE n == Len(t.sessions) + 1
           x == Translated(j)
           u == Create(t, s)
<1>1. /\ SessionInv(x)
      /\ x \in {j, [j EXCEPT !.nat_applied = TRUE, !.nat_port = nat.next_port]}
      /\ x.nat_applied <=> WantsNat(j) /\ CanAllocate(nat)
      /\ x.nat_applied => x.nat_port = nat.next_port
  BY TranslatedInv DEF PoolOK
<1> HIDE DEF x
<1>3. u.sessions = Append(t.sessions, s)
  BY CreateOK DEF SessionInv
<1> HIDE DEF u
<1>4. /\ DOMAIN u.sessions = DOMAIN t.sessions \cup {n} /\ n \notin DOMAIN t.sessions
      /\ u.sessions[n] = s
      /\ \A i \in DOMAIN t.sessions : u.sessions[i] = t.sessions[i]
  BY <1>3 DEF TableOK, SessionInv
<1> HIDE DEF n
<1>5. s.nat_applied = x.nat_applied /\ s.nat_port = x.nat_port
  BY DEF Continues, x
<1>6. /\ nat.in_use \in Nat /\ nat.next_port \in FirstPort .. LastPort
      /\ FirstPort \in Nat /\ LastPort \in Nat
  BY NatPoolAssumption DEF PoolOK, Pool
<1>7. IsFiniteSet(Bound(t)) /\ n \notin Bound(t) /\ Bound(t) \subseteq DOMAIN t.sessions
  BY <1>4, PositionsFinite DEF Bound
<1>8. CASE x.nat_applied
  <2> DEFINE p == Allocated(nat)
  <2>1. nat.in_use < LastPort - FirstPort
    BY <1>1, <1>8 DEF CanAllocate
  <2>2. /\ p = [next_port |-> nat.next_port + 1, in_use |-> nat.in_use + 1]
        /\ p \in Pool
        /\ p.next_port = FirstPort + p.in_use /\ p.in_use <= LastPort - FirstPort
        /\ p.next_port = nat.next_port + 1 /\ p.in_use = nat.in_use + 1
    BY <1>6, <2>1 DEF Allocated, PoolOK, Pool
  <2> HIDE DEF p
  <2>3. Bound(u) = Bound(t) \cup {n}
    BY <1>4, <1>5, <1>8 DEF Bound
  <2>4. p.in_use = Cardinality(Bound(u))
    BY <1>7, <2>2, <2>3, FS_AddElement DEF PoolOK
  <2>5. /\ s.nat_port = nat.next_port
        /\ \A i \in Bound(t) : u.sessions[i].nat_port = t.sessions[i].nat_port
        /\ \A i \in Bound(t) : u.sessions[i].nat_port \in FirstPort .. nat.next_port - 1
    BY <1>1, <1>4, <1>5, <1>7, <1>8 DEF PoolOK
  <2>6. \A i \in Bound(u) : u.sessions[i].nat_port \in FirstPort .. p.next_port - 1
    BY <1>4, <1>6, <2>2, <2>3, <2>5
  <2>7. \A i, k \in Bound(u) : i # k => u.sessions[i].nat_port # u.sessions[k].nat_port
    <3>1. \A i, k \in Bound(t) : i # k => u.sessions[i].nat_port # u.sessions[k].nat_port
      BY <2>5 DEF PoolOK
    <3>2. \A i \in Bound(t) : u.sessions[i].nat_port # nat.next_port
      BY <1>6, <2>5
    <3> QED
      BY <1>4, <2>3, <2>5, <3>1, <3>2
  <2> QED
    BY <1>8, <2>2, <2>4, <2>6, <2>7 DEF PoolOK, p, u, x
<1>9. CASE ~x.nat_applied
  <2>1. Bound(u) = Bound(t)
    BY <1>4, <1>5, <1>9 DEF Bound
  <2>2. \A i \in Bound(t) : u.sessions[i] = t.sessions[i]
    BY <1>4, <1>7
  <2>3. PoolOK(u, nat)
    BY <2>1, <2>2 DEF PoolOK
  <2> QED
    BY <1>9, <2>3 DEF u, x
<1> QED
  BY <1>8, <1>9

-----------------------------------------------------------------------------
(***************************************************************************)
(* The steps.                                                              *)
(***************************************************************************)
LEMMA InitIInv == Init => IInv
<1> SUFFICES ASSUME Init PROVE IInv
  OBVIOUS
<1>1. /\ TableOK(flows)
      /\ DOMAIN flows.sessions = {} /\ Len(flows.sessions) = 0 /\ DOMAIN flows.by_key = {}
  BY EmptyTableOK DEF Init, EmptyTable
<1>2. (\A v : Judgements(flows, v) = {}) /\ Shifted(flows) = {} /\ Bound(flows) = {}
  BY <1>1 DEF Judgements, Shifted, Bound
<1>3. Cardinality({}) = 0
  BY FS_EmptySet
<1>4. \A v \in Verdict : VerdictCounter(v) \in Counter
  BY VerdictCounters DEF Counter
<1>5. \A n \in Counter : counters[n] = 0
  BY DEF Init
<1>6. Ledger(flows, counters)
  <2>1. counters \in [Counter -> Nat]
    BY DEF Init
  <2>2. {"app_shifts", "sessions_created", "sessions_retired"} \subseteq Counter
    BY DEF Counter
  <2>3. \A v \in Verdict : counters[VerdictCounter(v)] = 0
    BY <1>4, <1>5
  <2>4. counters.app_shifts = 0 /\ counters.sessions_created = 0 /\ counters.sessions_retired = 0
    BY <1>5, <2>2
  <2>5. /\ \A v : Cardinality(Judgements(flows, v)) = 0
        /\ Cardinality(Shifted(flows)) = 0 /\ Cardinality(DOMAIN flows.by_key) = 0
    BY <1>1, <1>2, <1>3
  <2>6. \A v \in Verdict : counters[VerdictCounter(v)] = Cardinality(Judgements(flows, v))
    BY <2>3, <2>5
  <2>7. /\ counters.app_shifts = Cardinality(Shifted(flows))
        /\ counters.sessions_created = Len(flows.sessions)
        /\ counters.sessions_created =
             counters.sessions_retired + Cardinality(DOMAIN flows.by_key)
    BY <1>1, <2>4, <2>5
  <2> QED
    BY <2>1, <2>6, <2>7 DEF Ledger
<1>7. PoolOK(flows, nat)
  BY <1>1, <1>2, <1>3, NatPoolAssumption DEF Init, FreshPool, Pool, PoolOK
<1> QED
  BY <1>1, <1>6, <1>7 DEF Init, IInv, AllGood

\* A frame stopped before the table, or refused by it, counts no session.
LEMMA StoppedNames == \A names \in Unparsed : names \cap Accounts = {}
<1>1. \A names \in Stopped : names \cap Accounts = {}
  BY DEF Stopped, Decoders!Stopped, Accounts
<1> QED
  BY <1>1, EngineAssumption

LEMMA StopFrameInv ==
  ASSUME IInv, NEW names \in Unparsed, NEW ts \in Times, StopFrame(names, ts)
  PROVE  IInv'
<1>1. ts \in Nat /\ names \cap Accounts = {}
  BY EngineAssumption, StoppedNames
<1>2. Ledger(Swept(ts), Count(Arrived(ts), names))
  BY <1>1, SweptInv, CountInv
<1> QED
  BY <1>1, <1>2, SweptInv DEF StopFrame, IInv

LEMMA RefuseInv ==
  ASSUME IInv, NEW m \in Segments, NEW ts \in Times, RefuseOutOfState(m, ts)
  PROVE  IInv'
<1>1. ts \in Nat /\ (Parsed(m) \cup {"out_of_state"}) \cap Accounts = {}
  BY EngineAssumption DEF Parsed, Accounts
<1>2. Ledger(Swept(ts), Count(Arrived(ts), Parsed(m) \cup {"out_of_state"}))
  BY <1>1, SweptInv, CountInv
<1> QED
  BY <1>1, <1>2, SweptInv DEF RefuseOutOfState, IInv

\* The session that a packet opens.
LEMMA OpenedSession ==
  ASSUME IInv, NEW m \in Segments, NEW ts \in Times, MayOpen(m)
  PROVE  LET j == Judged(NewSession(m, ts))
             s == Applied(Translated(j), m, ts, FALSE)
         IN  /\ SessionInv(j) /\ ~j.nat_applied
             /\ SessionInv(s) /\ Continues(Translated(j), s) /\ s.state # "New"
             /\ s.app_shifted <=> s.verdict # j.verdict
             /\ KeyOf(s) = MakeKey(m.src, m.dst, m.proto)
<1> DEFINE j == Judged(NewSession(m, ts))
           x == Translated(j)
           s == Applied(x, m, ts, FALSE)
<1>1. m \in Segment /\ ts \in Nat
  BY EngineAssumption
<1>2. /\ SessionInv(j)
      /\ j.state = "New" /\ ~j.nat_applied /\ ~j.app_shifted /\ ~j.app_latched
      /\ j.init = m.src /\ j.resp = m.dst /\ j.proto = m.proto
  BY <1>1, JudgedInv
<1> HIDE DEF j
<1>3. /\ SessionInv(x)
      /\ x \in {j, [j EXCEPT !.nat_applied = TRUE, !.nat_port = nat.next_port]}
  BY <1>2, TranslatedInv DEF IInv, PoolOK
<1> HIDE DEF x
<1>4. /\ x.state = j.state /\ x.app_shifted = j.app_shifted /\ x.verdict = j.verdict
      /\ x.init = j.init /\ x.resp = j.resp /\ x.proto = j.proto
  BY <1>2, <1>3 DEF SessionInv, Session
<1>5. SessionInv(s) /\ Continues(x, s) /\ s.state # "New"
  <2>1. m.proto = x.proto /\ (x.state = "New" => ~FALSE /\ MayOpen(m)) /\ FALSE \in BOOLEAN
    BY <1>2, <1>4
  <2> QED
    BY <1>1, <1>3, <2>1, AppliedInv
<1> HIDE DEF s
<1>6. s.app_shifted <=> s.verdict # j.verdict
  BY <1>2, <1>4, <1>5 DEF Continues
<1>7. KeyOf(s) = MakeKey(m.src, m.dst, m.proto)
  BY <1>2, <1>4, <1>5 DEF Continues, KeyOf
<1> QED
  BY <1>2, <1>5, <1>6, <1>7 DEF j, x, s

LEMMA OpenInv ==
  ASSUME IInv, NEW m \in Segments, NEW ts \in Times, OpenSession(m, ts)
  PROVE  /\ IInv'
         /\ \E s : flows' = Create(Swept(ts), s) /\ s \in Session
                  /\ KeyOf(s) \notin DOMAIN Swept(ts).by_key
<1> DEFINE T == Swept(ts)
           j == Judged(NewSession(m, ts))
           x == Translated(j)
           s == Applied(x, m, ts, FALSE)
           names == Parsed(m) \cup {"sessions_created", VerdictCounter(j.verdict)}
<1>1. /\ flows' = Create(T, s)
      /\ nat' = IF x.nat_applied THEN Allocated(nat) ELSE nat
      /\ counters' = Moved(Count(Arrived(ts), names), j, s)
      /\ last_ts' = ts /\ phase' = phase
      /\ Lookup(T, m) = kNoSession /\ MayOpen(m)
  BY DEF OpenSession
<1>2. ts \in Nat /\ Parsed(m) \cap Accounts = {}
  BY EngineAssumption DEF Parsed, Accounts
<1>3. TableOK(T) /\ AllGood(T) /\ PoolOK(T, nat) /\ Ledger(T, Arrived(ts))
  BY <1>2, SweptInv
<1> HIDE DEF T
<1>4. /\ SessionInv(j) /\ ~j.nat_applied
      /\ SessionInv(s) /\ Continues(x, s) /\ s.state # "New"
      /\ s.app_shifted <=> s.verdict # j.verdict
      /\ KeyOf(s) = MakeKey(m.src, m.dst, m.proto)
  BY <1>1, OpenedSession
<1> HIDE DEF j, s
<1>5. s \in Session /\ KeyOf(s) \notin DOMAIN T.by_key
  BY <1>1, <1>3, <1>4, LookupMisses DEF SessionInv
<1>6. names \cap Accounts = {"sessions_created", VerdictCounter(j.verdict)}
  <2>1. VerdictCounter(j.verdict) \in Accounts
    BY <1>4, VerdictCounters DEF SessionInv, Session, Accounts
  <2> QED
    BY <1>2, <2>1 DEF Accounts
<1> HIDE DEF names
<1>7. TableOK(flows') /\ flows'.sessions = Append(T.sessions, s)
  BY <1>1, <1>3, <1>5, CreateOK
<1>8. AllGood(flows')
  BY <1>3, <1>4, <1>5, <1>7 DEF AllGood, TableOK
<1>9. Ledger(flows', counters')
  BY <1>1, <1>3, <1>4, <1>5, <1>6, CreateLedger
<1>10. PoolOK(flows', nat')
  BY <1>1, <1>3, <1>4, <1>5, CreatePool
<1> QED
  BY <1>1, <1>2, <1>5, <1>7, <1>8, <1>9, <1>10 DEF IInv, T

LEMMA ContinueInv ==
  ASSUME IInv, NEW m \in Segments, NEW ts \in Times, ContinueSession(m, ts)
  PROVE  /\ IInv'
         /\ \E i \in DOMAIN flows.sessions, s \in Session :
              /\ flows'.sessions = [Swept(ts).sessions EXCEPT ![i] = s]
              /\ flows'.by_key = Swept(ts).by_key
              /\ Continues(Swept(ts).sessions[i], s)
<1> DEFINE T == Swept(ts)
           i == Lookup(T, m)
           b == T.sessions[i]
           dir == ToInitiator(b, m)
           s == Applied(b, m, ts, dir)
           k == MakeKey(m.src, m.dst, m.proto)
<1>1. /\ flows' = [T EXCEPT !.sessions[i] = s]
      /\ nat' = nat
      /\ counters' = Moved(Count(Arrived(ts), Parsed(m)), b, s)
      /\ last_ts' = ts /\ phase' = phase
      /\ i # kNoSession
  BY DEF ContinueSession
<1>2. m \in Segment /\ ts \in Nat /\ Parsed(m) \cap Accounts = {}
  BY EngineAssumption DEF Parsed, Accounts
<1>3. /\ TableOK(T) /\ AllGood(T) /\ PoolOK(T, nat) /\ Ledger(T, Arrived(ts))
      /\ DOMAIN T.sessions = DOMAIN flows.sessions
  BY <1>2, SweptInv DEF SameDecisions
<1> HIDE DEF T
<1>4. /\ k \in DOMAIN T.by_key /\ i = T.by_key[k]
      /\ i \in DOMAIN T.sessions /\ KeyOf(b) = k
  BY <1>1, <1>3, LookupFinds
<1> HIDE DEF i
<1>5. SessionInv(b) /\ b.state # "New" /\ dir \in BOOLEAN
  BY <1>3, <1>4 DEF AllGood, ToInitiator
<1>6. m.proto = b.proto
  <2>1. /\ m.src \in Endpoint /\ m.dst \in Endpoint /\ m.proto \in Proto
        /\ b.init \in Endpoint /\ b.resp \in Endpoint /\ b.proto \in Proto
    BY <1>2, <1>5 DEF Segment, SessionInv, Session
  <2>2. k.proto = m.proto
    BY <2>1, MakeKeyFaithful
  <2>3. KeyOf(b).proto = b.proto
    BY <2>1, MakeKeyFaithful DEF KeyOf
  <2> QED
    BY <1>4, <2>2, <2>3
<1> HIDE DEF b, dir, k
<1>7. SessionInv(s) /\ Continues(b, s) /\ s.state # "New"
  BY <1>2, <1>5, <1>6, AppliedInv
<1> HIDE DEF s
<1>8. s \in Session /\ KeyOf(s) = k
  BY <1>4, <1>7 DEF SessionInv, Continues, KeyOf
<1>9. /\ TableOK(flows')
      /\ flows'.sessions = [T.sessions EXCEPT ![i] = s]
      /\ flows'.by_key = T.by_key
  BY <1>1, <1>3, <1>4, <1>8, ReplaceOK
<1>10. AllGood(flows')
  BY <1>3, <1>4, <1>7, <1>9 DEF AllGood, TableOK
<1>11. Ledger(flows', counters')
  <2>1. Ledger(T, Count(Arrived(ts), Parsed(m)))
    BY <1>2, <1>3, CountInv
  <2> QED
    BY <1>1, <1>3, <1>4, <1>5, <1>7, <1>9, <2>1, ReplaceLedger DEF b
<1>12. PoolOK(flows', nat')
  <2>1. /\ i \in DOMAIN T.sessions /\ SessionInv(T.sessions[i])
        /\ Continues(T.sessions[i], s)
    BY <1>4, <1>5, <1>7 DEF b
  <2>2. PoolOK(flows', nat)
    BY <1>3, <1>7, <1>9, <2>1, ReplacePool
  <2> QED
    BY <1>1, <2>2
<1>13. IInv'
  BY <1>1, <1>2, <1>9, <1>10, <1>11, <1>12 DEF IInv
<1> QED
  BY <1>3, <1>4, <1>7, <1>8, <1>9, <1>13 DEF b, T

LEMMA FinishInv == ASSUME IInv, Finish PROVE IInv'
<1>1. TableOK(AgeOut(flows, last_ts))
  BY AgeOutOK DEF IInv
<1>2. AllGood(AgeOut(flows, last_ts)) /\ SameDecisions(flows, AgeOut(flows, last_ts))
  BY AgeOutInv DEF IInv
<1>3. Cardinality(Reaped(flows, last_ts)) \in Nat
  <2>1. IsFiniteSet(DOMAIN flows.by_key) /\ Reaped(flows, last_ts) \in SUBSET DOMAIN flows.by_key
    BY DEF IInv, TableOK, Reaped
  <2> QED
    BY <2>1, FS_Subset, FS_CardinalityType
<1>4. /\ counters' \in [Counter -> Nat]
      /\ \A n \in Accounts \ {"sessions_retired"} : counters'[n] = counters[n]
      /\ counters'.sessions_retired =
           counters.sessions_retired + Cardinality(Reaped(flows, last_ts))
  <2>1. /\ counters \in [Counter -> Nat]
        /\ "sessions_retired" \in Counter /\ Accounts \subseteq Counter
    BY DEF IInv, Ledger, Counter, Accounts
  <2>2. counters' = [counters EXCEPT !["sessions_retired"] =
                       counters["sessions_retired"] + Cardinality(Reaped(flows, last_ts))]
    BY DEF Finish
  <2> QED
    BY <1>3, <2>1, <2>2
<1>5. Ledger(AgeOut(flows, last_ts), counters')
  BY <1>4, AgeOutLedger DEF IInv
<1>6. PoolOK(AgeOut(flows, last_ts), nat)
  BY <1>2, SamePool DEF IInv
<1> QED
  BY <1>1, <1>2, <1>5, <1>6 DEF Finish, IInv

LEMMA NextIInv == IInv /\ [Next]_vars => IInv'
<1> SUFFICES ASSUME IInv, [Next]_vars PROVE IInv'
  OBVIOUS
<1>1. ASSUME NEW ts \in Times, NEW names \in Unparsed, StopFrame(names, ts) PROVE IInv'
  BY <1>1, StopFrameInv
<1>2. ASSUME NEW ts \in Times, NEW m \in Segments, RefuseOutOfState(m, ts) PROVE IInv'
  BY <1>2, RefuseInv
<1>3. ASSUME NEW ts \in Times, NEW m \in Segments, OpenSession(m, ts) PROVE IInv'
  BY <1>3, OpenInv
<1>4. ASSUME NEW ts \in Times, NEW m \in Segments, ContinueSession(m, ts) PROVE IInv'
  BY <1>4, ContinueInv
<1>5. CASE Finish
  BY <1>5, FinishInv
<1>6. CASE UNCHANGED vars
  BY <1>6 DEF vars, IInv
<1> QED
  BY <1>1, <1>2, <1>3, <1>4, <1>5, <1>6 DEF Next

LEMMA Invariance == Spec => []IInv
BY InitIInv, NextIInv, PTL DEF Spec

-----------------------------------------------------------------------------
(***************************************************************************)
(* What every capture keeps true.                                          *)
(***************************************************************************)
\* The key of a session of the table holds its two endpoints and its protocol.
LEMMA IndexedKeys ==
  ASSUME TableOK(flows), NEW k \in DOMAIN flows.by_key
  PROVE  LET s == flows.sessions[flows.by_key[k]]
         IN  k \in Key /\ {k.a, k.b} = {s.init, s.resp} /\ k.proto = s.proto
<1> DEFINE s == flows.sessions[flows.by_key[k]]
<1>1. s \in Session /\ k = KeyOf(s)
  BY SessionAt DEF TableOK
<1> HIDE DEF s
<1>2. s.init \in Endpoint /\ s.resp \in Endpoint /\ s.proto \in Proto
  BY <1>1 DEF Session
<1>3. k = MakeKey(s.init, s.resp, s.proto)
  BY <1>1 DEF KeyOf
<1> DEFINE made == MakeKey(s.init, s.resp, s.proto)
<1>4. made \in Key /\ {made.a, made.b} = {s.init, s.resp} /\ made.proto = s.proto
  BY <1>2, MakeKeyFaithful
<1>5. k = made
  BY <1>3
<1> HIDE DEF made
<1>6. k \in Key /\ {k.a, k.b} = {s.init, s.resp} /\ k.proto = s.proto
  BY <1>4, <1>5
<1> QED
  BY <1>6 DEF s

\* The table, the pool and the counters of engine.h keep their shapes.
THEOREM TypeCorrect == Spec => []TypeOK
<1>1. IInv => TypeOK
  <2> SUFFICES ASSUME IInv PROVE TypeOK
    OBVIOUS
  <2>1. TableOK(flows)
    BY DEF IInv
  <2>2. DOMAIN flows.by_key \subseteq Key
    BY <2>1, IndexedKeys
  <2> QED
    BY <2>1, <2>2 DEF IInv, TableOK, Ledger, PoolOK, TypeOK, All
<1> QED
  BY <1>1, Invariance, PTL

\* The index leads to the session that its key is made of, to no session twice,
\* and to every session that is not over (flow.h:210-219).
THEOREM IndexStaysFaithful == Spec => []IndexIsFaithful
<1>1. IInv => IndexIsFaithful
  <2> SUFFICES ASSUME IInv PROVE IndexIsFaithful
    OBVIOUS
  <2>1. TableOK(flows)
    BY DEF IInv
  <2>2. \A k \in DOMAIN flows.by_key :
          LET s == flows.sessions[flows.by_key[k]]
          IN  {k.a, k.b} = {s.init, s.resp} /\ k.proto = s.proto
    BY <2>1, IndexedKeys
  <2>3. \A k, l \in DOMAIN flows.by_key : flows.by_key[k] = flows.by_key[l] => k = l
    <3>1. \A k \in DOMAIN flows.by_key : k = KeyOf(flows.sessions[flows.by_key[k]])
      BY <2>1 DEF TableOK
    <3> QED
      BY <3>1
  <2>4. \A i \in All : Live(i) => Indexed(i)
    BY <2>1 DEF TableOK, All, Live, Indexed
  <2> QED
    BY <2>2, <2>3, <2>4 DEF IndexIsFaithful
<1> QED
  BY <1>1, Invariance, PTL

\* The two directions of a conversation are one live session (flow.h:26-30).
THEOREM ConversationsAreSingle == Spec => []OneLiveSessionPerConversation
<1>1. IInv => OneLiveSessionPerConversation
  <2> SUFFICES ASSUME IInv, NEW i \in All, NEW j \in All,
                      Live(i), Live(j),
                      flows.sessions[i].proto = flows.sessions[j].proto,
                      {flows.sessions[i].init, flows.sessions[i].resp}
                        = {flows.sessions[j].init, flows.sessions[j].resp}
               PROVE  i = j
    BY DEF OneLiveSessionPerConversation
  <2>0. /\ flows.sessions[i].proto = flows.sessions[j].proto
        /\ {flows.sessions[i].init, flows.sessions[i].resp}
             = {flows.sessions[j].init, flows.sessions[j].resp}
    OBVIOUS
  <2>1. TableOK(flows)
    BY DEF IInv
  <2>2. flows.sessions[i] \in Session /\ flows.sessions[j] \in Session
    BY <2>1, SessionAt DEF All
  <2>3. KeyOf(flows.sessions[i]) = KeyOf(flows.sessions[j])
    <3>1. /\ flows.sessions[i].init \in Endpoint /\ flows.sessions[i].resp \in Endpoint
          /\ flows.sessions[j].init \in Endpoint /\ flows.sessions[j].resp \in Endpoint
      BY <2>2 DEF Session
    <3>2. \A proto : MakeKey(flows.sessions[i].init, flows.sessions[i].resp, proto)
                     = MakeKey(flows.sessions[j].init, flows.sessions[j].resp, proto)
      BY <2>0, <3>1, MakeKeyOfPair
    <3> QED
      BY <2>0, <3>2 DEF KeyOf
  <2>4. /\ flows.by_key[KeyOf(flows.sessions[i])] = i
        /\ flows.by_key[KeyOf(flows.sessions[j])] = j
    BY <2>1 DEF TableOK, All, Live
  <2> QED
    BY <2>3, <2>4
<1> QED
  BY <1>1, Invariance, PTL

\* In strict mode the state machine calls nothing established that has not cost
\* a handshake's packets (engine.h:45-51).
THEOREM EstablishedHadHandshake == Spec => []HandshakeSeen
<1>1. IInv => HandshakeSeen
  BY DEF IInv, AllGood, SessionInv, Handshake, HandshakeSeen, All
<1> QED
  BY <1>1, Invariance, PTL

\* The verdict counters and app_shifts are those of the sessions (engine.cpp:143-149,
\* 218-234), so that no decrement takes one below zero.
THEOREM VerdictsStayAccounted == Spec => []VerdictsAccounted
<1>1. IInv => VerdictsAccounted
  <2> SUFFICES ASSUME IInv PROVE VerdictsAccounted
    OBVIOUS
  <2>1. \A v : With(v) = Judgements(flows, v)
    BY DEF With, All, Judgements
  <2>2. /\ VerdictCounter("Allow") = "allowed"
        /\ VerdictCounter("Deny") = "denied"
        /\ VerdictCounter("Drop") = "dropped"
    BY DEF VerdictCounter
  <2>3. \A v \in Verdict : counters[VerdictCounter(v)] = Cardinality(With(v))
    BY <2>1 DEF IInv, Ledger
  <2>4. counters.app_shifts = Cardinality({i \in All : flows.sessions[i].app_shifted})
    BY DEF IInv, Ledger, Shifted, All
  <2> QED
    BY <2>2, <2>3, <2>4 DEF Verdict, VerdictsAccounted
<1> QED
  BY <1>1, Invariance, PTL

\* Sessions created are those in the index and those retired (engine.cpp:30-32).
THEOREM SessionsStayAccounted == Spec => []SessionsAccounted
<1>1. IInv => SessionsAccounted
  BY DEF IInv, Ledger, SessionsAccounted
<1> QED
  BY <1>1, Invariance, PTL

\* Rule and verdict are those that the rule base gives for what is known of the
\* session, whatever happened in between (engine.cpp:198-209).
THEOREM DecisionsFollowPolicy == Spec => []DecisionFollowsPolicy
<1>1. IInv => DecisionFollowsPolicy
  <2> SUFFICES ASSUME IInv, NEW i \in All
               PROVE  LET s == flows.sessions[i]
                      IN  [rule |-> s.matched_rule, verdict |-> s.verdict]
                            = Evaluate(ZoneFor(s.init.ip), ZoneFor(s.resp.ip), s.proto,
                                       s.resp.port, IF s.app_latched THEN s.app ELSE NoApp)
    BY DEF DecisionFollowsPolicy
  <2>1. Decided(flows.sessions[i])
    BY DEF IInv, AllGood, SessionInv, All
  <2> QED
    BY <2>1 DEF Decided
<1> QED
  BY <1>1, Invariance, PTL

\* A session that lost its rule is over (engine.cpp:236-239).
THEOREM LostRuleIsOver == Spec => []LostRuleStaysClosed
<1>1. IInv => LostRuleStaysClosed
  BY DEF IInv, AllGood, SessionInv, Latch, LostRuleStaysClosed, All
<1> QED
  BY <1>1, Invariance, PTL

\* However long kMaxL7Bytes claims to wait, the first payload latches the application
\* (engine.cpp:170-196).
THEOREM TheWaitIsNeverTaken == Spec => []NeverWaits
<1>1. IInv => NeverWaits
  BY DEF IInv, AllGood, SessionInv, Latch, NeverWaits, All
<1> QED
  BY <1>1, Invariance, PTL

\* No two sessions share a translated port, and each port is of the pool
\* (nat.h:29-32).
THEOREM BindingsStayDistinct == Spec => []NatBindingsDistinct
<1>1. IInv => NatBindingsDistinct
  <2> SUFFICES ASSUME IInv PROVE NatBindingsDistinct
    OBVIOUS
  <2>1. PoolOK(flows, nat)
    BY DEF IInv
  <2>2. /\ nat.in_use \in Nat /\ nat.next_port \in FirstPort .. LastPort
        /\ FirstPort \in Nat /\ LastPort \in Nat
    BY <2>1, NatPoolAssumption DEF PoolOK, Pool
  <2>3. nat.next_port - 1 <= LastPort
    BY <2>2
  <2>4. \A i \in Bound(flows) : flows.sessions[i].nat_port \in FirstPort .. LastPort
    <3>1. \A x \in FirstPort .. nat.next_port - 1 : x \in FirstPort .. LastPort
      BY <2>2, <2>3
    <3> QED
      BY <2>1, <3>1 DEF PoolOK
  <2>5. \A i, j \in Bound(flows) :
          i # j => flows.sessions[i].nat_port # flows.sessions[j].nat_port
    BY <2>1 DEF PoolOK
  <2> QED
    BY <2>4, <2>5 DEF NatBindingsDistinct, Bound, All
<1> QED
  BY <1>1, Invariance, PTL

\* Only allowed sessions from trust to untrust are translated, and the pool counts each
\* that packets can still match (engine.cpp:151-163).
THEOREM BindingsFollowPolicy == Spec => []NatFollowsPolicy
<1>1. IInv => NatFollowsPolicy
  <2> SUFFICES ASSUME IInv PROVE NatFollowsPolicy
    OBVIOUS
  <2> DEFINE matchable == {i \in All : Indexed(i) /\ flows.sessions[i].nat_applied}
  <2>1. \A i \in All : Binding(flows.sessions[i])
    BY DEF IInv, AllGood, SessionInv, All
  <2>2. TableOK(flows) /\ PoolOK(flows, nat)
    BY DEF IInv
  <2>3. IsFiniteSet(Bound(flows)) /\ matchable \subseteq Bound(flows)
    BY <2>2, PositionsFinite DEF Bound, All
  <2>4. Cardinality(matchable) <= Cardinality(Bound(flows))
    BY <2>3, FS_Subset
  <2>5. Cardinality(matchable) <= nat.in_use
    BY <2>2, <2>4 DEF PoolOK
  <2> HIDE DEF matchable
  <2> QED
    BY <2>1, <2>5 DEF Binding, All, NatFollowsPolicy, matchable
<1> QED
  BY <1>1, Invariance, PTL

-----------------------------------------------------------------------------
(***************************************************************************)
(* What a step may never do.                                               *)
(***************************************************************************)
\* How a table may grow old: sessions continue, and the index forgets some of them
\* and learns only new ones.
Succeeds(t, u) ==
  /\ \A i \in DOMAIN t.sessions : /\ i \in DOMAIN u.sessions
                                  /\ Continues(t.sessions[i], u.sessions[i])
  /\ \A k \in DOMAIN u.by_key :
       u.by_key[k] \in DOMAIN t.sessions => /\ k \in DOMAIN t.by_key
                                            /\ t.by_key[k] = u.by_key[k]

\* The sweep that may open the handling of a frame, and the one that ends it all.
LEMMA AgeOutSucceeds ==
  ASSUME NEW t, TableOK(t), AllGood(t), NEW now
  PROVE  Succeeds(t, AgeOut(t, now))
<1> DEFINE u == AgeOut(t, now)
<1>1. /\ DOMAIN u.by_key = DOMAIN t.by_key \ Reaped(t, now)
      /\ \A k \in DOMAIN u.by_key : u.by_key[k] = t.by_key[k]
  BY AgeOutOK
<1>2. SameDecisions(t, u)
  BY AgeOutInv
<1> HIDE DEF u
<1>3. Succeeds(t, u)
  BY <1>1, <1>2 DEF Succeeds, SameDecisions
<1> QED
  BY <1>3 DEF u

LEMMA ContinuesItself == ASSUME NEW s \in Session PROVE Continues(s, s)
BY DEF Session, Continues

LEMMA SucceedsItself == ASSUME NEW t, TableOK(t) PROVE Succeeds(t, t)
BY SessionAt, ContinuesItself DEF Succeeds

LEMMA SweptSucceeds ==
  ASSUME IInv, NEW ts
  PROVE  Succeeds(flows, Swept(ts))
<1>1. CASE SweepDue
  BY <1>1, AgeOutSucceeds DEF Swept, IInv
<1>2. CASE ~SweepDue
  BY <1>2, SucceedsItself DEF Swept, IInv
<1> QED
  BY <1>1, <1>2

LEMMA ContinuesOn ==
  ASSUME NEW s \in Session, NEW t \in Session, NEW u \in Session,
         Continues(s, t), Decision(t) = Decision(s), Continues(t, u)
  PROVE  Continues(s, u)
<1>1. t.verdict = s.verdict /\ t.app_shifted = s.app_shifted
  BY DEF Decision
<1> QED
  BY <1>1 DEF Continues

\* One packet after the sweep: no session but one is touched, or one is new.
LEMMA OpenSucceeds ==
  ASSUME IInv, NEW m \in Segments, NEW ts \in Times, OpenSession(m, ts)
  PROVE  Succeeds(flows, flows')
<1> DEFINE T == Swept(ts)
<1>1. ts \in Nat
  BY EngineAssumption
<1>2. TableOK(T) /\ SameDecisions(flows, T) /\ Succeeds(flows, T)
  BY <1>1, SweptInv, SweptSucceeds
<1> HIDE DEF T
<1>3. PICK s : flows' = Create(T, s) /\ s \in Session /\ KeyOf(s) \notin DOMAIN T.by_key
  BY OpenInv DEF T
<1>4. /\ DOMAIN T.sessions = 1 .. Len(T.sessions) /\ Len(T.sessions) \in Nat
      /\ DOMAIN flows.sessions = DOMAIN T.sessions
  BY <1>2 DEF TableOK, SameDecisions
<1>5. /\ flows'.sessions = Append(T.sessions, s)
      /\ DOMAIN flows'.by_key = DOMAIN T.by_key \cup {KeyOf(s)}
      /\ flows'.by_key[KeyOf(s)] = Len(T.sessions) + 1
      /\ \A k \in DOMAIN T.by_key : flows'.by_key[k] = T.by_key[k]
  BY <1>3 DEF Create
<1>6. \A i \in DOMAIN T.sessions : /\ i \in DOMAIN flows'.sessions
                                   /\ flows'.sessions[i] = T.sessions[i]
  BY <1>2, <1>3, <1>4, <1>5 DEF TableOK
<1>7. Len(T.sessions) + 1 \notin DOMAIN T.sessions
  BY <1>4
<1> QED
  BY <1>2, <1>4, <1>5, <1>6, <1>7 DEF Succeeds

LEMMA ContinueSucceeds ==
  ASSUME IInv, NEW m \in Segments, NEW ts \in Times, ContinueSession(m, ts)
  PROVE  Succeeds(flows, flows')
<1> DEFINE T == Swept(ts)
<1>1. ts \in Nat
  BY EngineAssumption
<1>2. TableOK(T) /\ SameDecisions(flows, T) /\ Succeeds(flows, T)
  BY <1>1, SweptInv, SweptSucceeds
<1> HIDE DEF T
<1>3. PICK i \in DOMAIN flows.sessions, s \in Session :
        /\ flows'.sessions = [T.sessions EXCEPT ![i] = s]
        /\ flows'.by_key = T.by_key
        /\ Continues(T.sessions[i], s)
  BY ContinueInv DEF T
<1>4. TableOK(flows) /\ TableOK(flows')
  BY ContinueInv DEF IInv
<1>5. /\ DOMAIN T.sessions = DOMAIN flows.sessions
      /\ DOMAIN flows'.sessions = DOMAIN T.sessions
      /\ flows'.sessions[i] = s
      /\ \A j \in DOMAIN T.sessions : j # i => flows'.sessions[j] = T.sessions[j]
  BY <1>2, <1>3 DEF SameDecisions, TableOK
<1>6. flows.sessions[i] \in Session /\ T.sessions[i] \in Session /\ s \in Session
  BY <1>2, <1>4, <1>5, SessionAt
<1>7. Continues(flows.sessions[i], s)
  BY <1>2, <1>3, <1>6, ContinuesOn DEF SameDecisions
<1> QED
  BY <1>2, <1>3, <1>5, <1>7 DEF Succeeds

LEMMA StepSucceeds == ASSUME IInv, Next PROVE Succeeds(flows, flows')
<1>1. ASSUME NEW ts \in Times, NEW names \in Unparsed, StopFrame(names, ts)
      PROVE  Succeeds(flows, flows')
  BY <1>1, SweptSucceeds DEF StopFrame
<1>2. ASSUME NEW ts \in Times, NEW m \in Segments, RefuseOutOfState(m, ts)
      PROVE  Succeeds(flows, flows')
  BY <1>2, SweptSucceeds DEF RefuseOutOfState
<1>3. CASE Finish
  BY <1>3, AgeOutSucceeds DEF Finish, IInv
<1> QED
  BY <1>1, <1>2, <1>3, OpenSucceeds, ContinueSucceeds DEF Next

\* A session is decided again at most once, as its application is latched, and
\* never after (appid.h:17-21, engine.cpp:170-209).
THEOREM DecisionsAreFinal == Spec => DecidedAtMostTwice
<1> DEFINE A == \A i \in All :
                  LET s == flows.sessions[i]
                      t == flows.sessions[i]'
                  IN  /\ s.app_latched => t.app_latched
                      /\ Decision(s) # Decision(t) => ~s.app_latched /\ t.app_latched
<1>1. IInv /\ [Next]_vars => [A]_vars
  BY StepSucceeds DEF Succeeds, Continues, All
<1> QED
  BY <1>1, Invariance, PTL DEF Spec, DecidedAtMostTwice

\* No step reopens a closed session or puts one back into the index
\* (flow.h:213-218).
THEOREM ClosedStaysFinal == Spec => ClosedIsFinal
<1> DEFINE A == \A i \in All : /\ ~Live(i)    => ~Live(i)'
                               /\ ~Indexed(i) => ~Indexed(i)'
<1>1. IInv /\ [Next]_vars => [A]_vars
  <2> SUFFICES ASSUME IInv, Next, NEW i \in All
               PROVE  (~Live(i) => ~Live(i)') /\ (~Indexed(i) => ~Indexed(i)')
    OBVIOUS
  <2>1. Succeeds(flows, flows')
    BY StepSucceeds
  <2>2. ~Live(i) => ~Live(i)'
    BY <2>1 DEF Succeeds, Continues, All, Live
  <2>3. ~Indexed(i) => ~Indexed(i)'
    BY <2>1 DEF Succeeds, All, Indexed
  <2> QED
    BY <2>2, <2>3
<1> QED
  BY <1>1, Invariance, PTL DEF Spec, ClosedIsFinal

-----------------------------------------------------------------------------
\* What the last pass leaves in the index is open and within its timeout
\* (engine.h:84-87): no frame is handled after it.
THEOREM LastPassIsThorough == Spec => []FinishLeavesOnlyLive
<1>1. Init => FinishLeavesOnlyLive
  BY DEF Init, FinishLeavesOnlyLive
<1>2. IInv /\ FinishLeavesOnlyLive /\ [Next]_vars => FinishLeavesOnlyLive'
  <2> SUFFICES ASSUME IInv, FinishLeavesOnlyLive, [Next]_vars PROVE FinishLeavesOnlyLive'
    OBVIOUS
  <2>1. CASE Finish
    <3> DEFINE u == AgeOut(flows, last_ts)
    <3>1. /\ DOMAIN u.by_key = DOMAIN flows.by_key \ Reaped(flows, last_ts)
          /\ \A k \in DOMAIN u.by_key : u.by_key[k] = flows.by_key[k]
          /\ TableOK(flows) /\ TableOK(u)
      BY AgeOutOK DEF IInv
    <3>2. ASSUME NEW k \in DOMAIN u.by_key
          PROVE  LET s == u.sessions[u.by_key[k]]
                 IN  s.state # "Closed" /\ last_ts <= s.last_seen + ForSession(s)
      <4> DEFINE i == flows.by_key[k]
                 s == flows.sessions[i]
      <4>1. k \in DOMAIN flows.by_key /\ ~Expired(s, last_ts) /\ i \in DOMAIN flows.sessions
        BY <3>1, <3>2 DEF Reaped, TableOK
      <4>2. i \notin {flows.by_key[l] : l \in Reaped(flows, last_ts)}
        <5>1. \A l \in DOMAIN flows.by_key : l = KeyOf(flows.sessions[flows.by_key[l]])
          BY <3>1 DEF TableOK
        <5> QED
          BY <3>1, <3>2, <5>1 DEF Reaped
      <4>3. u.by_key[k] = i /\ u.sessions[i] = s
        BY <3>1, <3>2, <4>1, <4>2 DEF AgeOut
      <4>4. s \in Session
        BY <3>1, <4>1, SessionAt
      <4>5. s.last_seen \in Nat /\ ForSession(s) \in Nat /\ last_ts \in Nat
        BY <4>4, TimeoutsAssumption DEF Session, ForSession, IInv
      <4> HIDE DEF s, i, u
      <4>6. s.state # "Closed" /\ last_ts <= s.last_seen + ForSession(s)
        BY <4>1, <4>5 DEF Expired, Idle
      <4> QED
        BY <4>3, <4>6
    <3> QED
      BY <2>1, <3>2 DEF Finish, FinishLeavesOnlyLive, All, Live, Indexed
  <2>2. CASE UNCHANGED vars
    BY <2>2 DEF vars, FinishLeavesOnlyLive, All, Live, Indexed
  <2>3. CASE Next /\ ~Finish
    <3>1. phase' = "reading"
      BY <2>3 DEF Next, Reading, StopFrame, RefuseOutOfState, OpenSession, ContinueSession
    <3> QED
      BY <3>1 DEF FinishLeavesOnlyLive
  <2> QED
    BY <2>1, <2>2, <2>3
<1> QED
  BY <1>1, <1>2, Invariance, PTL DEF Spec
-----------------------------------------------------------------------------
(***************************************************************************)
(* Every frame ends in one place.  A packet of a session is a pair of the  *)
(* session and a number, so that a frame adds one element to the set of    *)
(* those pairs, or one to a counter, and nothing takes any away.           *)
(***************************************************************************)
StopCounter == {"arp", "ipv6", "vlan", "other_l3", "short_header", "bad_version", "bad_ihl",
                "bad_length", "fragments", "other_l4", "out_of_state"}

FrameCounter == StopCounter \cup {"packets"}

Accounted(t, c) == /\ IsFiniteSet(Carried(t))
                   /\ c.packets = Stops(c) + Cardinality(Carried(t))

\* The counters read here are numbers, and their sum is read from nothing else.
LEMMA StopsOfSame ==
  ASSUME NEW c, NEW d, \A n \in StopCounter : d[n] = c[n]
  PROVE  Stops(d) = Stops(c)
BY DEF Stops, StopCounter

LEMMA StopsIsNat == ASSUME NEW c \in [Counter -> Nat] PROVE Stops(c) \in Nat /\ c.packets \in Nat
<1>1. StopCounter \subseteq Counter /\ "packets" \in Counter
  BY DEF StopCounter, Counter
<1>2. \A n \in StopCounter : c[n] \in Nat
  BY <1>1
<1> QED
  BY <1>1, <1>2 DEF Stops, StopCounter

\* A frame that bumps one of them, whatever else it bumps.
LEMMA StopsOnce ==
  ASSUME NEW c \in [Counter -> Nat], NEW names, NEW why \in StopCounter,
         names \cap FrameCounter = {why}
  PROVE  Stops(Count(c, names)) = Stops(c) + 1 /\ Count(c, names).packets = c.packets
<1> DEFINE d == Count(c, names)
<1>1. FrameCounter \subseteq Counter /\ "packets" \notin StopCounter
  BY DEF StopCounter, FrameCounter, Counter
<1>2. \A n \in FrameCounter : d[n] = IF n = why THEN c[n] + 1 ELSE c[n]
  BY <1>1 DEF Count
<1>3. \A n \in StopCounter : c[n] \in Nat
  BY <1>1 DEF FrameCounter
<1> HIDE DEF d
<1>4. Stops(d) = Stops(c) + 1
  BY <1>2, <1>3 DEF Stops, StopCounter, FrameCounter
<1>5. d.packets = c.packets
  BY <1>1, <1>2 DEF FrameCounter
<1> QED
  BY <1>4, <1>5 DEF d

\* A frame that bumps none of them.
LEMMA StopsNever ==
  ASSUME NEW c \in [Counter -> Nat], NEW names, names \cap FrameCounter = {}
  PROVE  \A n \in FrameCounter : Count(c, names)[n] = c[n]
BY DEF Count, FrameCounter, StopCounter, Counter

\* A shift is of no account here.
LEMMA MovedApart ==
  ASSUME NEW c \in [Counter -> Nat], NEW b, NEW a, b.verdict \in Verdict, a.verdict \in Verdict
  PROVE  \A n \in FrameCounter : Moved(c, b, a)[n] = c[n]
<1>1. /\ VerdictCounter(b.verdict) \in Counter \ FrameCounter
      /\ VerdictCounter(a.verdict) \in Counter \ FrameCounter
      /\ "app_shifts" \in Counter \ FrameCounter /\ FrameCounter \subseteq Counter
  BY VerdictCounters DEF Counter, FrameCounter, StopCounter
<1> QED
  BY <1>1 DEF Moved

\* One frame more has arrived.
LEMMA ArrivedCounts ==
  ASSUME IInv, NEW ts \in Nat
  PROVE  /\ Arrived(ts) \in [Counter -> Nat]
         /\ Arrived(ts).packets = counters.packets + 1
         /\ \A n \in StopCounter : Arrived(ts)[n] = counters[n]
<1>1. Arrived(ts) \in [Counter -> Nat]
  BY SweptInv DEF Ledger
<1>2. counters \in [Counter -> Nat]
  BY DEF IInv, Ledger
<1>3. /\ "packets" \in Counter /\ "sessions_retired" \in Counter /\ StopCounter \subseteq Counter
      /\ "packets" \notin StopCounter /\ "sessions_retired" \notin StopCounter
  BY DEF Counter, StopCounter
<1> QED
  BY <1>1, <1>2, <1>3 DEF Arrived

-----------------------------------------------------------------------------
\* A packet of a session is counted in one of its directions, once.
LEMMA AppliedCountsOne ==
  ASSUME NEW s \in Session, NEW m \in Segment, NEW ts \in Nat, NEW dir \in BOOLEAN
  PROVE  PacketsOf(Applied(s, m, ts, dir)) = PacketsOf(s) + 1
<1> DEFINE t == Touched(s, ts, dir)
           u == Advanced(t, m, dir)
<1>1. t \in Session /\ PacketsOf(t) = PacketsOf(s) + 1
  <2>1. s.pkts_c2s \in Nat /\ s.pkts_s2c \in Nat
    BY DEF Session
  <2>2. t = IF dir THEN [s EXCEPT !.last_seen = ts, !.pkts_s2c = s.pkts_s2c + 1]
                   ELSE [s EXCEPT !.last_seen = ts, !.pkts_c2s = s.pkts_c2s + 1]
    BY DEF Touched
  <2>3. /\ t.pkts_c2s = IF dir THEN s.pkts_c2s ELSE s.pkts_c2s + 1
        /\ t.pkts_s2c = IF dir THEN s.pkts_s2c + 1 ELSE s.pkts_s2c
    BY DEF Touched, Session
  <2> HIDE DEF t
  <2>4. s.pkts_c2s + 1 \in Nat /\ s.pkts_s2c + 1 \in Nat
    BY <2>1
  <2>5. t \in Session
    BY <2>2, <2>4 DEF Session
  <2>6. PacketsOf(t) = PacketsOf(s) + 1
    BY <2>1, <2>3 DEF PacketsOf
  <2> QED
    BY <2>5, <2>6
<1> HIDE DEF t
<1>2. u \in Session /\ PacketsOf(u) = PacketsOf(t)
  <2>1. m.flags \in SUBSET TcpFlag
    BY DEF Segment
  <2>2. Moves(t, u)
    BY <1>1, <2>1, TcpAdvanceMoves, UdpAdvanceMoves DEF Advanced
  <2> HIDE DEF u
  <2> QED
    BY <1>1, <2>2 DEF Moves, Session, PacketsOf
<1> HIDE DEF u
<1>3. PacketsOf(Identified(u, m, dir)) = PacketsOf(u)
  <2>1. ASSUME NEW n, NEW application
        PROVE  PacketsOf(Latched([u EXCEPT !.l7_bytes_seen = n], application)) = PacketsOf(u)
    BY <1>2 DEF Latched, PacketsOf, Session
  <2>2. ASSUME NEW n
        PROVE  PacketsOf([u EXCEPT !.l7_bytes_seen = n]) = PacketsOf(u)
    BY <1>2 DEF PacketsOf, Session
  <2>3. \E n, application :
          Identified(u, m, dir) \in {u, [u EXCEPT !.l7_bytes_seen = n],
                                     Latched([u EXCEPT !.l7_bytes_seen = n], application)}
    <3> DEFINE n == u.l7_bytes_seen + m.payload.size
               found == Classify(m.payload, u.proto, IF dir THEN u.resp.port ELSE m.dst.port)
    <3>1. \/ Identified(u, m, dir) = u
          \/ Identified(u, m, dir) = Latched([u EXCEPT !.l7_bytes_seen = n], found.application)
          \/ Identified(u, m, dir) = Latched([u EXCEPT !.l7_bytes_seen = n], "unknown")
          \/ Identified(u, m, dir) = [u EXCEPT !.l7_bytes_seen = n]
      BY DEF Identified
    <3> HIDE DEF n, found
    <3> QED
      BY <3>1
  <2> QED
    BY <2>1, <2>2, <2>3
<1> QED
  BY <1>1, <1>2, <1>3 DEF Applied, t, u

\* Marking a session leaves its packets; so does a sweep, with all of them.
LEMMA SweptCarries ==
  ASSUME NEW t, TableOK(t), NEW now
  PROVE  Carried(AgeOut(t, now)) = Carried(t)
<1> DEFINE u == AgeOut(t, now)
<1>1. /\ DOMAIN u.sessions = DOMAIN t.sessions
      /\ \A i \in DOMAIN t.sessions :
           u.sessions[i] \in {t.sessions[i], [t.sessions[i] EXCEPT !.state = "Closed"]}
  BY AgeOutOK
<1> HIDE DEF u
<1>2. ASSUME NEW i \in DOMAIN t.sessions
      PROVE  PacketsOf(u.sessions[i]) = PacketsOf(t.sessions[i])
  <2> DEFINE s == t.sessions[i]
  <2>1. s \in Session
    BY SessionAt
  <2> HIDE DEF s
  <2>2. PacketsOf([s EXCEPT !.state = "Closed"]) = PacketsOf(s)
    BY <2>1 DEF PacketsOf, Session
  <2>3. u.sessions[i] = s \/ u.sessions[i] = [s EXCEPT !.state = "Closed"]
    BY <1>1 DEF s
  <2> QED
    BY <2>2, <2>3 DEF s
<1> QED
  BY <1>1, <1>2 DEF Carried, u

LEMMA CarriedBy ==
  ASSUME NEW t, NEW p
  PROVE  p \in Carried(t) <=>
           \E i \in DOMAIN t.sessions : \E n \in 1 .. PacketsOf(t.sessions[i]) : p = <<i, n>>
BY DEF Carried

\* One packet more of a session is one pair more.
LEMMA OneMoreCarried ==
  ASSUME NEW t, NEW u, IsFiniteSet(Carried(t)), NEW i \in DOMAIN u.sessions,
         DOMAIN u.sessions = DOMAIN t.sessions \cup {i},
         \A j \in DOMAIN t.sessions \ {i} : PacketsOf(u.sessions[j]) = PacketsOf(t.sessions[j]),
         NEW n \in Nat, n = IF i \in DOMAIN t.sessions THEN PacketsOf(t.sessions[i]) ELSE 0,
         PacketsOf(u.sessions[i]) = n + 1
  PROVE  IsFiniteSet(Carried(u)) /\ Cardinality(Carried(u)) = Cardinality(Carried(t)) + 1
<1>1. <<i, n + 1>> \notin Carried(t)
  BY CarriedBy
<1>2. Carried(u) = Carried(t) \cup {<<i, n + 1>>}
  <2>1. 1 .. n + 1 = (1 .. n) \cup {n + 1}
    OBVIOUS
  <2>2. ASSUME NEW p
        PROVE  p \in Carried(u) <=> p \in Carried(t) \/ p = <<i, n + 1>>
    <3>1. CASE \E k : p = <<i, k>>
      <4>1. PICK k : p = <<i, k>>
        BY <3>1
      <4>2. p \in Carried(u) <=> k \in 1 .. n + 1
        BY <4>1, CarriedBy
      <4>3. p \in Carried(t) <=> k \in 1 .. n
        BY <4>1, CarriedBy
      <4>4. p = <<i, n + 1>> <=> k = n + 1
        BY <4>1
      <4> QED
        BY <2>1, <4>2, <4>3, <4>4
    <3>2. CASE ~\E k : p = <<i, k>>
      <4>1. p \in Carried(u) <=>
              \E j \in DOMAIN t.sessions \ {i} : \E k \in 1 .. PacketsOf(u.sessions[j]) : p = <<j, k>>
        BY <3>2, CarriedBy
      <4>2. p \in Carried(t) <=>
              \E j \in DOMAIN t.sessions \ {i} : \E k \in 1 .. PacketsOf(t.sessions[j]) : p = <<j, k>>
        BY <3>2, CarriedBy
      <4> QED
        BY <3>2, <4>1, <4>2
    <3> QED
      BY <3>1, <3>2
  <2> QED
    BY <2>2
<1> QED
  BY <1>1, <1>2, FS_AddElement

-----------------------------------------------------------------------------
LEMMA AccountedSwept ==
  ASSUME IInv, Accounted(flows, counters), NEW ts \in Nat
  PROVE  /\ Carried(Swept(ts)) = Carried(flows)
         /\ IsFiniteSet(Carried(Swept(ts))) /\ Cardinality(Carried(Swept(ts))) \in Nat
         /\ Stops(Arrived(ts)) \in Nat
         /\ Arrived(ts).packets = Stops(Arrived(ts)) + Cardinality(Carried(Swept(ts))) + 1
<1>1. Carried(Swept(ts)) = Carried(flows)
  BY SweptCarries DEF Swept, IInv
<1>2. Cardinality(Carried(flows)) \in Nat
  BY FS_CardinalityType DEF Accounted
<1>3. Stops(Arrived(ts)) = Stops(counters) /\ Stops(counters) \in Nat
  BY ArrivedCounts, StopsOfSame, StopsIsNat DEF IInv, Ledger
<1> QED
  BY <1>1, <1>2, <1>3, ArrivedCounts DEF Accounted

\* A stopped frame is in one counter.
LEMMA StoppedOnce ==
  \A names \in Unparsed : \E why \in StopCounter : names \cap FrameCounter = {why}
<1>1. ASSUME NEW names \in Stopped
      PROVE  \E why \in StopCounter : names \cap FrameCounter = {why}
  <2>1. CASE names \in {{"short_header"}, {"arp"}, {"ipv6"}, {"vlan"}, {"other_l3"}}
    BY <2>1 DEF StopCounter, FrameCounter
  <2>2. CASE names \in {{"ipv4", why} : why \in {"short_header", "bad_version", "bad_ihl", "bad_length"}}
    BY <2>2 DEF StopCounter, FrameCounter
  <2>3. CASE names \in {{"ipv4", why} \cup sum :
                          why \in {"fragments", "short_header", "bad_length", "other_l4"},
                          sum \in {{}, {"bad_checksum"}}}
    <3>1. PICK why \in {"fragments", "short_header", "bad_length", "other_l4"},
               sum \in {{}, {"bad_checksum"}} : names = {"ipv4", why} \cup sum
      BY <2>3
    <3> QED
      BY <3>1 DEF StopCounter, FrameCounter
  <2> QED
    BY <1>1, <2>1, <2>2, <2>3 DEF Stopped, Decoders!Stopped
<1> QED
  BY <1>1, EngineAssumption

LEMMA StoppedAccounted ==
  ASSUME IInv, Accounted(flows, counters), NEW ts \in Nat, NEW names,
         NEW why \in StopCounter, names \cap FrameCounter = {why},
         flows' = Swept(ts), counters' = Count(Arrived(ts), names)
  PROVE  Accounted(flows', counters')
<1>1. /\ Stops(counters') = Stops(Arrived(ts)) + 1
      /\ counters'.packets = Arrived(ts).packets
  BY ArrivedCounts, StopsOnce
<1> QED
  BY <1>1, AccountedSwept DEF Accounted

\* A frame that a session has is in none, and in one direction of the session.
LEMMA CarriedAccounted ==
  ASSUME IInv, Accounted(flows, counters), NEW ts \in Nat, NEW names,
         names \cap FrameCounter = {}, NEW b, NEW a,
         b.verdict \in Verdict, a.verdict \in Verdict,
         counters' = Moved(Count(Arrived(ts), names), b, a),
         IsFiniteSet(Carried(flows')),
         Cardinality(Carried(flows')) = Cardinality(Carried(Swept(ts))) + 1
  PROVE  Accounted(flows', counters')
<1> DEFINE c == Count(Arrived(ts), names)
<1>1. Arrived(ts) \in [Counter -> Nat]
  BY ArrivedCounts
<1>2. c \in [Counter -> Nat]
  BY <1>1 DEF Count
<1>3. \A n \in FrameCounter : c[n] = Arrived(ts)[n]
  BY <1>1, StopsNever
<1> HIDE DEF c
<1>4. \A n \in FrameCounter : counters'[n] = c[n]
  BY <1>2, MovedApart DEF c
<1>5. \A n \in FrameCounter : counters'[n] = Arrived(ts)[n]
  BY <1>3, <1>4
<1>6. Stops(counters') = Stops(Arrived(ts)) /\ counters'.packets = Arrived(ts).packets
  BY <1>5, StopsOfSame DEF FrameCounter
<1> QED
  BY <1>6, AccountedSwept DEF Accounted

LEMMA OpenedAccounted ==
  ASSUME IInv, Accounted(flows, counters), NEW m \in Segments, NEW ts \in Times,
         OpenSession(m, ts)
  PROVE  Accounted(flows', counters')
<1> DEFINE T == Swept(ts)
           j == Judged(NewSession(m, ts))
           x == Translated(j)
           s == Applied(x, m, ts, FALSE)
           names == Parsed(m) \cup {"sessions_created", VerdictCounter(j.verdict)}
<1>1. /\ flows' = Create(T, s)
      /\ counters' = Moved(Count(Arrived(ts), names), j, s)
      /\ MayOpen(m)
  BY DEF OpenSession
<1>2. m \in Segment /\ ts \in Nat
  BY EngineAssumption
<1>3. SessionInv(j) /\ SessionInv(s)
  BY <1>1, OpenedSession
<1>4. j.verdict \in Verdict /\ s.verdict \in Verdict /\ j \in Session
  BY <1>3 DEF SessionInv, Session
<1>5. PacketsOf(j) = 0
  BY DEF Judged, NewSession, PacketsOf
<1> HIDE DEF j
<1>6. x \in Session /\ PacketsOf(x) = 0
  <2>1. /\ SessionInv(x)
        /\ x \in {j, [j EXCEPT !.nat_applied = TRUE, !.nat_port = nat.next_port]}
    BY <1>2, <1>3, TranslatedInv, JudgedInv DEF IInv, PoolOK, j
  <2> HIDE DEF x
  <2> QED
    BY <1>4, <1>5, <2>1 DEF SessionInv, Session, PacketsOf
<1> HIDE DEF x
<1>7. PacketsOf(s) = 0 + 1
  BY <1>2, <1>6, AppliedCountsOne
<1> HIDE DEF s
<1>8. names \cap FrameCounter = {}
  BY <1>4, VerdictCounters DEF Parsed, FrameCounter, StopCounter
<1> HIDE DEF names
<1>9. /\ TableOK(T) /\ IsFiniteSet(Carried(T))
  BY <1>2, SweptInv, AccountedSwept
<1> HIDE DEF T
<1>10. flows'.sessions = Append(T.sessions, s)
  BY <1>1 DEF Create
<1>11. /\ DOMAIN flows'.sessions = DOMAIN T.sessions \cup {Len(T.sessions) + 1}
       /\ Len(T.sessions) + 1 \notin DOMAIN T.sessions
       /\ flows'.sessions[Len(T.sessions) + 1] = s
       /\ \A i \in DOMAIN T.sessions : flows'.sessions[i] = T.sessions[i]
  BY <1>9, <1>10 DEF TableOK
<1>12. /\ IsFiniteSet(Carried(flows'))
       /\ Cardinality(Carried(flows')) = Cardinality(Carried(T)) + 1
  BY <1>7, <1>9, <1>11, OneMoreCarried
<1> QED
  BY <1>1, <1>2, <1>4, <1>8, <1>12, CarriedAccounted DEF T

LEMMA ContinuedAccounted ==
  ASSUME IInv, Accounted(flows, counters), NEW m \in Segments, NEW ts \in Times,
         ContinueSession(m, ts)
  PROVE  Accounted(flows', counters')
<1> DEFINE T == Swept(ts)
           i == Lookup(T, m)
           b == T.sessions[i]
           s == Applied(b, m, ts, ToInitiator(b, m))
<1>1. /\ flows' = [T EXCEPT !.sessions[i] = s]
      /\ counters' = Moved(Count(Arrived(ts), Parsed(m)), b, s)
      /\ i # kNoSession
  BY DEF ContinueSession
<1>2. m \in Segment /\ ts \in Nat /\ Parsed(m) \cap FrameCounter = {}
  BY EngineAssumption DEF Parsed, FrameCounter, StopCounter
<1>3. TableOK(T) /\ IsFiniteSet(Carried(T)) /\ TableOK(flows')
  BY <1>2, SweptInv, AccountedSwept, ContinueInv DEF IInv
<1> HIDE DEF T
<1>4. i \in DOMAIN T.sessions
  BY <1>1, <1>3, LookupFinds
<1> HIDE DEF i
<1>5. b \in Session /\ PacketsOf(b) \in Nat
  BY <1>3, <1>4, SessionAt DEF Session, PacketsOf
<1>6. PacketsOf(s) = PacketsOf(b) + 1
  BY <1>2, <1>5, AppliedCountsOne DEF ToInitiator
<1>7. flows'.sessions = [T.sessions EXCEPT ![i] = s]
  BY <1>1, <1>3 DEF TableOK
<1>8. /\ DOMAIN flows'.sessions = DOMAIN T.sessions
      /\ flows'.sessions[i] = s
      /\ \A j \in DOMAIN T.sessions \ {i} : flows'.sessions[j] = T.sessions[j]
  BY <1>3, <1>4, <1>7 DEF TableOK
<1>9. s.verdict \in Verdict /\ b.verdict \in Verdict
  <2>1. s \in Session
    BY <1>3, <1>4, <1>8, SessionAt
  <2> QED
    BY <1>5, <2>1 DEF Session
<1> HIDE DEF b, s
<1>10. /\ IsFiniteSet(Carried(flows'))
       /\ Cardinality(Carried(flows')) = Cardinality(Carried(T)) + 1
  BY <1>3, <1>4, <1>5, <1>6, <1>8, OneMoreCarried DEF b
<1> QED
  BY <1>1, <1>2, <1>9, <1>10, CarriedAccounted DEF T

LEMMA FinishAccounted ==
  ASSUME IInv, Accounted(flows, counters), Finish
  PROVE  Accounted(flows', counters')
<1>1. Carried(flows') = Carried(flows)
  BY SweptCarries DEF Finish, IInv
<1>2. \A n \in FrameCounter : counters'[n] = counters[n]
  BY DEF Finish, IInv, Ledger, FrameCounter, StopCounter, Counter
<1>3. Stops(counters') = Stops(counters) /\ counters'.packets = counters.packets
  BY <1>2, StopsOfSame DEF FrameCounter
<1> QED
  BY <1>1, <1>3 DEF Accounted

\* Every frame of every capture is in the counters or in the sessions, once: nothing is
\* stopped without a reason, let through without a session or counted at both ends
\* (engine.h:12-56, engine.cpp:24-242).
THEOREM FramesStayAccounted == Spec => []EveryPacketAccounted
<1>1. Init => Accounted(flows, counters)
  <2> SUFFICES ASSUME Init PROVE Accounted(flows, counters)
    OBVIOUS
  <2>1. Carried(flows) = {}
    BY CarriedBy DEF Init, EmptyTable
  <2>2. \A n \in Counter : counters[n] = 0
    BY DEF Init
  <2>3. FrameCounter \subseteq Counter
    BY DEF FrameCounter, StopCounter, Counter
  <2>4. Stops(counters) = 0 /\ counters.packets = 0
    BY <2>2, <2>3 DEF Stops, FrameCounter, StopCounter
  <2> QED
    BY <2>1, <2>4, FS_EmptySet DEF Accounted
<1>2. IInv /\ Accounted(flows, counters) /\ [Next]_vars => Accounted(flows, counters)'
  <2> SUFFICES ASSUME IInv, Accounted(flows, counters), [Next]_vars
               PROVE  Accounted(flows', counters')
    BY DEF Accounted, Carried, Stops, PacketsOf
  <2>1. ASSUME NEW ts \in Times, NEW names \in Unparsed, StopFrame(names, ts)
        PROVE  Accounted(flows', counters')
    BY <2>1, StoppedOnce, StoppedAccounted, EngineAssumption DEF StopFrame
  <2>2. ASSUME NEW ts \in Times, NEW m \in Segments, RefuseOutOfState(m, ts)
        PROVE  Accounted(flows', counters')
    <3>1. "out_of_state" \in StopCounter
      BY DEF StopCounter
    <3>2. (Parsed(m) \cup {"out_of_state"}) \cap FrameCounter = {"out_of_state"}
      BY DEF Parsed, FrameCounter, StopCounter
    <3> QED
      BY <2>2, <3>1, <3>2, StoppedAccounted, EngineAssumption DEF RefuseOutOfState
  <2>3. ASSUME NEW ts \in Times, NEW m \in Segments, OpenSession(m, ts)
        PROVE  Accounted(flows', counters')
    BY <2>3, OpenedAccounted
  <2>4. ASSUME NEW ts \in Times, NEW m \in Segments, ContinueSession(m, ts)
        PROVE  Accounted(flows', counters')
    BY <2>4, ContinuedAccounted
  <2>5. CASE Finish
    BY <2>5, FinishAccounted
  <2>6. CASE UNCHANGED vars
    BY <2>6 DEF vars
  <2> QED
    BY <2>1, <2>2, <2>3, <2>4, <2>5, <2>6 DEF Next
<1>3. Accounted(flows, counters) => EveryPacketAccounted
  BY DEF Accounted, EveryPacketAccounted
<1> QED
  BY <1>1, <1>2, <1>3, Invariance, PTL DEF Spec
=============================================================================
