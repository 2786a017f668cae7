------------------------------- MODULE Engine -------------------------------
(***************************************************************************)
(* The pipeline of engine.cpp, driven by the loop of main.cpp over one     *)
(* capture: every frame is counted, sweeps the table when a sweep is due,  *)
(* and is refused, opens a session or continues one.  One action is one    *)
(* call of Engine::process, from its first line to whichever return it     *)
(* takes; Finish is the last call, when the capture is exhausted.          *)
(*                                                                         *)
(* Frames are given decoded, as the decoders hand them on: those that the  *)
(* engine stops before the flow table are the set of counters they bump,   *)
(* the others a record of endpoints, protocol, flags and payload.          *)
(***************************************************************************)
EXTENDS FlowTable, NatPool

CONSTANTS Midstream,        \* set_midstream
          kSweepInterval,   \* packets between aging sweeps
          kMaxL7Bytes,      \* payload bytes to wait for an identification
          Segments,         \* frames that reach the flow table
          Unparsed,         \* frames that do not
          Times,            \* capture timestamps
          ClockStepsBack,   \* may a timestamp be below the one before it?
          MaxPackets        \* the length of the capture, at most

VARIABLES flows,      \* the FlowTable
          nat,        \* the NatPool
          counters,   \* the Counters
          last_ts,    \* main: the timestamp of the last frame
          phase       \* "reading" the capture or "done"

vars == <<flows, nat, counters, last_ts, phase>>

Counter == {"packets", "ipv4", "arp", "ipv6", "vlan", "other_l3",
            "short_header", "bad_version", "bad_ihl", "bad_length", "bad_checksum",
            "fragments", "other_l4", "sessions_created", "sessions_retired",
            "allowed", "denied", "dropped", "app_shifts", "out_of_state"}

Segment == [src : Endpoint, dst : Endpoint, proto : Proto, flags : SUBSET TcpFlag,
            payload : Payload, checksum_ok : BOOLEAN]

\* The frames that the decoders stop, by the counters they bump.
Decoders == INSTANCE Decode
Stopped  == Decoders!Stopped

ASSUME EngineAssumption ==
  /\ Midstream \in BOOLEAN /\ ClockStepsBack \in BOOLEAN
  /\ kSweepInterval \in Nat \ {0} /\ kMaxL7Bytes \in Nat /\ MaxPackets \in Nat
  /\ Times \subseteq Nat
  /\ Segments \subseteq Segment /\ Unparsed \subseteq Stopped

-----------------------------------------------------------------------------
(***************************************************************************)
(* The start of process: count the frame, sweep if it is its turn.         *)
(***************************************************************************)
Reading(ts) == /\ phase = "reading"
               /\ counters.packets < MaxPackets
               /\ ts \in Times
               /\ ClockStepsBack \/ ts >= last_ts

SweepDue == (counters.packets + 1) % kSweepInterval = 0

Swept(ts) == IF SweepDue THEN AgeOut(flows, ts) ELSE flows

\* A slip to notice: the sessions a sweep retires are not counted.
SweepUncounted(ts) == [counters EXCEPT !.packets = @ + 1]

Arrived(ts) ==
  [counters EXCEPT !.packets = @ + 1,
                   !.sessions_retired =
                      @ + IF SweepDue THEN Cardinality(Reaped(flows, ts)) ELSE 0]

Count(c, names) == [n \in Counter |-> IF n \in names THEN c[n] + 1 ELSE c[n]]

Parsed(m) == {"ipv4"} \cup IF m.checksum_ok THEN {} ELSE {"bad_checksum"}

-----------------------------------------------------------------------------
(***************************************************************************)
(* What handle_l4 does to a session.                                       *)
(***************************************************************************)
MayOpen(m) == m.proto = "tcp" => PureSyn(m.flags) \/ Midstream

VerdictCounter(verdict) ==
  CASE verdict = "Allow" -> "allowed"
    [] verdict = "Deny"  -> "denied"
    [] verdict = "Drop"  -> "dropped"

\* The first evaluation, before the application is known.
Judged(s) ==
  LET from     == ZoneFor(s.init.ip)
      to       == ZoneFor(s.resp.ip)
      decision == Evaluate(from, to, s.proto, s.resp.port, NoApp)
  IN  [s EXCEPT !.from_zone = from, !.to_zone = to,
                !.matched_rule = decision.rule, !.verdict = decision.verdict]

WantsNat(s) == s.verdict = "Allow" /\ s.from_zone = "Trust" /\ s.to_zone = "Untrust"

Translated(s) ==
  IF WantsNat(s) /\ CanAllocate(nat)
    THEN [s EXCEPT !.nat_applied = TRUE, !.nat_port = nat.next_port]
    ELSE s

Advanced(s, m, to_initiator) ==
  IF m.proto = "tcp" THEN TcpAdvance(s, m.flags, to_initiator) ELSE UdpAdvance(s)

\* Slips to notice: a session that lost its rule is marked and not torn down; and
\* the verdict of the second evaluation is taken without its rule.
MarkedOnly(s, application) ==
  LET after == Evaluate(s.from_zone, s.to_zone, s.proto, s.resp.port, application)
  IN  [s EXCEPT !.app = application, !.app_latched = TRUE,
                !.matched_rule = after.rule, !.verdict = after.verdict,
                !.app_shifted = @ \/ after.verdict # s.verdict]

VerdictOnly(s, application) ==
  [MarkedOnly(s, application) EXCEPT !.matched_rule = s.matched_rule]

\* The second evaluation, once the application is latched; a session whose
\* verdict it changes has shifted, and is closed if it lost its rule.
Latched(s, application) ==
  LET after   == Evaluate(s.from_zone, s.to_zone, s.proto, s.resp.port, application)
      shifted == after.verdict # s.verdict
  IN  [s EXCEPT !.app = application, !.app_latched = TRUE,
                !.matched_rule = after.rule, !.verdict = after.verdict,
                !.app_shifted = @ \/ shifted,
                !.state = IF shifted /\ after.verdict # "Allow" THEN "Closed" ELSE @]

Identified(s, m, to_initiator) ==
  LET result == Classify(m.payload, s.proto, IF to_initiator THEN s.resp.port ELSE m.dst.port)
      seen   == [s EXCEPT !.l7_bytes_seen = @ + m.payload.size]
  IN  IF s.app_latched \/ m.payload.size = 0 THEN s
      ELSE IF result.application # NoApp THEN Latched(seen, result.application)
      ELSE IF result.exhausted \/ seen.l7_bytes_seen >= kMaxL7Bytes THEN Latched(seen, "unknown")
      ELSE seen

Applied(s, m, ts, to_initiator) ==
  Identified(Advanced(Touched(s, ts, to_initiator), m, to_initiator), m, to_initiator)

\* A slip to notice: a session that shifts is counted twice.
CountedTwice(c, before, after) ==
  IF before.verdict = after.verdict THEN c
  ELSE [c EXCEPT !.app_shifts = @ + 1, ![VerdictCounter(after.verdict)] = @ + 1]

\* The verdict counters count sessions: a shift moves one across.
Moved(c, before, after) ==
  IF before.verdict = after.verdict THEN c
  ELSE [c EXCEPT !.app_shifts = @ + 1,
                 ![VerdictCounter(before.verdict)] = @ - 1,
                 ![VerdictCounter(after.verdict)]  = @ + 1]

-----------------------------------------------------------------------------
Init == /\ flows = EmptyTable
        /\ nat = FreshPool
        /\ counters = [n \in Counter |-> 0]
        /\ last_ts = 0
        /\ phase = "reading"

\* A frame stopped before the flow table.
StopFrame(names, ts) ==
  /\ Reading(ts)
  /\ flows' = Swept(ts)
  /\ counters' = Count(Arrived(ts), names)
  /\ last_ts' = ts
  /\ UNCHANGED <<nat, phase>>

\* A packet of no known session that may not start one.
RefuseOutOfState(m, ts) ==
  /\ Reading(ts)
  /\ Lookup(Swept(ts), m) = kNoSession
  /\ ~MayOpen(m)
  /\ flows' = Swept(ts)
  /\ counters' = Count(Arrived(ts), Parsed(m) \cup {"out_of_state"})
  /\ last_ts' = ts
  /\ UNCHANGED <<nat, phase>>

\* The only place a session is born.
OpenSession(m, ts) ==
  LET judged     == Judged(NewSession(m, ts))
      translated == Translated(judged)
      opened     == Applied(translated, m, ts, FALSE)
  IN  /\ Reading(ts)
      /\ Lookup(Swept(ts), m) = kNoSession
      /\ MayOpen(m)
      /\ flows' = Create(Swept(ts), opened)
      /\ nat' = IF translated.nat_applied THEN Allocated(nat) ELSE nat
      /\ counters' = Moved(Count(Arrived(ts), Parsed(m) \cup
                                   {"sessions_created", VerdictCounter(judged.verdict)}),
                           judged, opened)
      /\ last_ts' = ts
      /\ UNCHANGED phase

\* A packet of a session the index still holds, Closed and unswept included.
ContinueSession(m, ts) ==
  LET i      == Lookup(Swept(ts), m)
      before == Swept(ts).sessions[i]
      after  == Applied(before, m, ts, ToInitiator(before, m))
  IN  /\ Reading(ts)
      /\ i # kNoSession
      /\ flows' = [Swept(ts) EXCEPT !.sessions[i] = after]
      /\ counters' = Moved(Count(Arrived(ts), Parsed(m)), before, after)
      /\ last_ts' = ts
      /\ UNCHANGED <<nat, phase>>

\* The capture is exhausted: a last aging pass at the last timestamp.
Finish ==
  /\ phase = "reading"
  /\ flows' = AgeOut(flows, last_ts)
  /\ counters' = [counters EXCEPT !.sessions_retired = @ + Cardinality(Reaped(flows, last_ts))]
  /\ phase' = "done"
  /\ UNCHANGED <<nat, last_ts>>

Next == \/ \E ts \in Times :
             \/ \E names \in Unparsed : StopFrame(names, ts)
             \/ \E m \in Segments : \/ RefuseOutOfState(m, ts)
                                    \/ OpenSession(m, ts)
                                    \/ ContinueSession(m, ts)
        \/ Finish

Spec == Init /\ [][Next]_vars

\* A capture has an end: main's loop reaches it and calls finish.
FairSpec == Spec /\ WF_vars(Finish)
=============================================================================
