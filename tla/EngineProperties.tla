-------------------------- MODULE EngineProperties --------------------------
(***************************************************************************)
(* What the pipeline must keep true over a capture: the invariants, the    *)
(* steps that must never happen and what must eventually happen.           *)
(***************************************************************************)
EXTENDS Engine

Live(i)    == flows.sessions[i].state # "Closed"
Indexed(i) == \E k \in DOMAIN flows.by_key : flows.by_key[k] = i
All        == DOMAIN flows.sessions
With(v)    == {i \in All : flows.sessions[i].verdict = v}

-----------------------------------------------------------------------------
(***************************************************************************)
(* Types.                                                                  *)
(***************************************************************************)
\* The table, the pool and the counters keep their shapes, and the index holds
\* positions of the vector.
TypeOK ==
  /\ flows.sessions \in Seq(Session)
  /\ DOMAIN flows.by_key \subseteq Key
  /\ \A k \in DOMAIN flows.by_key : flows.by_key[k] \in All
  /\ flows = [sessions |-> flows.sessions, by_key |-> flows.by_key]
  /\ nat \in Pool
  /\ counters \in [Counter -> Nat]
  /\ last_ts \in Nat
  /\ phase \in {"reading", "done"}

-----------------------------------------------------------------------------
(***************************************************************************)
(* The session table.                                                      *)
(***************************************************************************)
\* The index and the vector agree (flow.h:210-219): an entry's key is made of
\* the endpoints of the session it points at, whichever way its packets flow; no
\* two entries share a session; and only Closed sessions are out of the index.
IndexIsFaithful ==
  /\ \A k \in DOMAIN flows.by_key :
       LET s == flows.sessions[flows.by_key[k]]
       IN  {k.a, k.b} = {s.init, s.resp} /\ k.proto = s.proto
  /\ \A k, l \in DOMAIN flows.by_key : flows.by_key[k] = flows.by_key[l] => k = l
  /\ \A i \in All : Live(i) => Indexed(i)

\* Two live sessions are never the two directions of one conversation
\* (flow.h:26-30), nor the same one twice: a tuple is reused only after the
\* session that held it is over.
OneLiveSessionPerConversation ==
  \A i, j \in All :
    LET s == flows.sessions[i]
        t == flows.sessions[j]
    IN  /\ i # j /\ Live(i) /\ Live(j)
        /\ s.proto = t.proto
        => {s.init, s.resp} # {t.init, t.resp}

\* Nothing the firewall calls established in strict mode lacks a handshake's
\* worth of packets: the initiator's SYN and ACK, the responder's SYN+ACK
\* (engine.h:45-51, "the number that makes the firewall stateful").
HandshakeSeen ==
  \A i \in All :
    LET s == flows.sessions[i]
    IN  ~Midstream /\ s.proto = "tcp" /\ s.state \in {"Established", "FinSeen", "Closing"}
        => s.pkts_c2s >= 2 /\ s.pkts_s2c >= 1

\* The last aging pass leaves in the index only sessions that are open and
\* within their timeout at the last timestamp (engine.h:84-87).
FinishLeavesOnlyLive ==
  phase = "done" =>
    \A i \in All :
      LET s == flows.sessions[i]
      IN  Indexed(i) => Live(i) /\ last_ts <= s.last_seen + ForSession(s)

-----------------------------------------------------------------------------
(***************************************************************************)
(* The accounts.  show stats prints the counters beside the sessions they  *)
(* are about, and each is kept by increments and decrements spread over    *)
(* the pipeline (engine.h:12-56).                                          *)
(***************************************************************************)
\* The reasons for which the engine stops a frame, and the packets it has let a session
\* have, one after the other: pairs of a session and the number of a packet of it.
Stops(c) == c.arp + c.ipv6 + c.vlan + c.other_l3
            + c.short_header + c.bad_version + c.bad_ihl + c.bad_length
            + c.fragments + c.other_l4 + c.out_of_state

PacketsOf(s) == s.pkts_c2s + s.pkts_s2c

Carried(t) == UNION {{i} \X (1 .. PacketsOf(t.sessions[i])) : i \in DOMAIN t.sessions}

\* Every frame of the capture ends in exactly one place: a counter of why it was
\* stopped, or one direction of one session (engine.h:12-56).
EveryPacketAccounted == counters.packets = Stops(counters) + Cardinality(Carried(flows))

\* Every session is counted under the verdict it has now, and every session that
\* shifted once.
VerdictsAccounted ==
  /\ counters.allowed = Cardinality(With("Allow"))
  /\ counters.denied  = Cardinality(With("Deny"))
  /\ counters.dropped = Cardinality(With("Drop"))
  /\ counters.app_shifts = Cardinality({i \in All : flows.sessions[i].app_shifted})

\* Every session created is still in the index or has been retired, once.
SessionsAccounted ==
  /\ counters.sessions_created = Len(flows.sessions)
  /\ counters.sessions_created =
       counters.sessions_retired + Cardinality(DOMAIN flows.by_key)

-----------------------------------------------------------------------------
(***************************************************************************)
(* Policy and App-ID.                                                      *)
(***************************************************************************)
\* The rule and the verdict of a session are those of the rule base for what is
\* known of it: for no application before one is latched, for it after
\* (engine.cpp:198-209), whatever happened in between.
DecisionFollowsPolicy ==
  \A i \in All :
    LET s == flows.sessions[i]
    IN  [rule |-> s.matched_rule, verdict |-> s.verdict]
          = Evaluate(ZoneFor(s.init.ip), ZoneFor(s.resp.ip), s.proto, s.resp.port,
                     IF s.app_latched THEN s.app ELSE NoApp)

\* A session that has lost its rule is torn down for good, not merely marked
\* (engine.cpp:236-239).
LostRuleStaysClosed ==
  \A i \in All :
    LET s == flows.sessions[i]
    IN  s.app_shifted /\ s.verdict # "Allow" => s.state = "Closed"

-----------------------------------------------------------------------------
(***************************************************************************)
(* Source NAT.                                                             *)
(***************************************************************************)
\* No two sessions of a capture share a translated port, and every binding is
\* inside the pool (nat.h:29-32).
NatBindingsDistinct ==
  \A i, j \in All :
    LET s == flows.sessions[i]
        t == flows.sessions[j]
    IN  /\ s.nat_applied => s.nat_port \in FirstPort .. LastPort
        /\ i # j /\ s.nat_applied /\ t.nat_applied => s.nat_port # t.nat_port

\* Only outbound traffic that was allowed has a binding: a session that is translated
\* and not allowed has lost its rule since, and none was bound to be dropped
\* (engine.cpp:151-157).  And the pool counts the port of every session that packets
\* can still match, so that it cannot hand out more of them than it has.
NatFollowsPolicy ==
  /\ \A i \in All :
       LET s == flows.sessions[i]
       IN  s.nat_applied => /\ NatEnabled
                            /\ s.from_zone = "Trust" /\ s.to_zone = "Untrust"
                            /\ s.verdict = "Allow" \/ s.app_shifted
  /\ Cardinality({i \in All : Indexed(i) /\ flows.sessions[i].nat_applied}) <= nat.in_use

-----------------------------------------------------------------------------
(***************************************************************************)
(* What a step may never do.                                               *)
(***************************************************************************)
Decision(s) == <<s.matched_rule, s.verdict, s.app, s.app_shifted>>

\* After its first packet a session is decided once more at most, in the step that
\* latches its application, and then never again (appid.h:17-21).
DecidedAtMostTwice ==
  [][\A i \in All :
       LET s == flows.sessions[i]
           t == flows.sessions[i]'
       IN  /\ s.app_latched => t.app_latched
           /\ Decision(s) # Decision(t) => ~s.app_latched /\ t.app_latched]_vars

\* Closed is final, and a session out of the index never comes back into it, so
\* that a later packet on its tuple starts a new one (flow.h:213-218).
ClosedIsFinal ==
  [][\A i \in All : /\ ~Live(i)    => ~Live(i)'
                    /\ ~Indexed(i) => ~Indexed(i)']_vars

-----------------------------------------------------------------------------
\* A sweep leaves nothing behind: whatever was Closed, or idle past its timeout
\* at the sweep's time, is out of the index after the packet that ran it, even
\* when that packet is one of the session's own (engine.cpp:30-32).
SweepReaps ==
  [][SweepDue /\ counters'.packets # counters.packets =>
       \A i \in All :
         LET s == flows.sessions[i]
         IN  ~Live(i) \/ last_ts' > s.last_seen + ForSession(s) => ~Indexed(i)']_vars

\* "Retires sessions idle past their timeout" (flow.h:210): a session that is not
\* over leaves the index only when its timeout has passed since it began.
RetiredOnlyWhenIdle ==
  [][\A i \in All :
       LET s == flows.sessions[i]
       IN  Live(i) /\ Indexed(i) /\ ~Indexed(i)'
             => last_ts' > s.first_seen + ForSession(s)]_vars

-----------------------------------------------------------------------------
(***************************************************************************)
(* The abstract ledger.  A session is settled when its application is      *)
(* latched, and listed while the index has it.                             *)
(***************************************************************************)
Entry(s) == [parties |-> {s.init, s.resp}, proto |-> s.proto, verdict |-> s.verdict,
             settled |-> s.app_latched, over |-> s.state = "Closed"]

Abstract == INSTANCE SessionLedger
  WITH entries <- [i \in All |-> Entry(flows.sessions[i])],
       listed  <- {flows.by_key[k] : k \in DOMAIN flows.by_key},
       done    <- phase = "done"

\* The pipeline keeps the promises of the ledger: every frame, with the sweep before
\* it, is one of its steps (engine.cpp:30-242); retiring a session unlists it, "but the
\* record itself stays in the vector" (flow.h:213-214).
ImplementsLedger == Abstract!Spec

-----------------------------------------------------------------------------
(***************************************************************************)
(* What must eventually happen.                                            *)
(***************************************************************************)
\* A closed session does not stay matchable: a sweep, or the last one, takes it
\* out of the index.
ClosedIsReaped ==
  \A i \in 1..MaxPackets :
    (i \in All /\ ~Live(i)) ~> ~Indexed(i)

-----------------------------------------------------------------------------
(***************************************************************************)
(* What the documentation says and the code does not do.                   *)
(***************************************************************************)
\* "it is two more fields on the session, created with it and reclaimed with it"
\* (nat.h:21-22): only sessions that are not over hold a port of the pool.
NatReclaimedWithSession ==
  nat.in_use = Cardinality({i \in All : flows.sessions[i].nat_applied /\ Indexed(i)})

\* "Turns on source NAT for allowed trust -> untrust sessions" (engine.h:78), and
\* allocate "Takes the next free port.  Returns false when the pool is exhausted"
\* (nat.h:47): an allowed outbound session is untranslated only when every port of the
\* pool is bound.
OutboundIsTranslated ==
  \A i \in All :
    LET s == flows.sessions[i]
    IN  NatEnabled /\ WantsNat(s) /\ ~s.nat_applied
          => \A port \in FirstPort .. LastPort :
               \E j \in All : flows.sessions[j].nat_applied /\ flows.sessions[j].nat_port = port

\* kMaxL7Bytes is the "payload bytes to wait for before giving up on identifying a
\* session" (engine.h:100), and an established session with too few of them reads
\* insufficient-data (appid.h:35-38, docs/design.md:53-54): it is not called unknown
\* before they are there.
GivesUpAfterTheWait ==
  \A i \in All :
    LET s == flows.sessions[i]
    IN  s.state = "Established" /\ s.app_latched /\ s.app = "unknown"
          => s.l7_bytes_seen >= kMaxL7Bytes

\* What the code does instead, whatever kMaxL7Bytes is: the first payload latches the
\* session, for classify calls exhausted whatever it does not recognise, a preamble cut
\* in two included (appid.cpp:188-193), so that the wait is never taken.
NeverWaits ==
  \A i \in All :
    LET s == flows.sessions[i] IN s.app_latched <=> s.l7_bytes_seen > 0
=============================================================================
