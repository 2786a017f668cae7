------------------------------ MODULE FlowTable ------------------------------
(***************************************************************************)
(* The session table of flow.h and flow.cpp: the vector of every session   *)
(* ever created and the index of those a packet can still match.  A table  *)
(* is a record of both; its operations are operators that return it        *)
(* changed.  A session's identity is its position in the vector, and       *)
(* kNoSession is 0.  An endpoint is an (address, port) pair.  Byte counts  *)
(* and the SNI are left out: nothing reads them.                           *)
(***************************************************************************)
EXTENDS AppId, TcpState

CONSTANTS syn_us, established_tcp_us, established_udp_us, closing_us   \* Timeouts

ASSUME TimeoutsAssumption == {syn_us, established_tcp_us, established_udp_us,
                              closing_us} \subseteq Nat

Endpoint == [ip : Ip, port : Port]

kNoSession == 0

-----------------------------------------------------------------------------
(***************************************************************************)
(* FiveTuple::make: the two endpoints sorted, each compared as a unit, so  *)
(* that both directions of a conversation have one key.                    *)
(***************************************************************************)
\* A slip to notice: addresses and ports sorted each on their own.
SortedApart(src, dst, proto) ==
  [a |-> [ip   |-> IF src.ip <= dst.ip THEN src.ip ELSE dst.ip,
          port |-> IF src.port <= dst.port THEN src.port ELSE dst.port],
   b |-> [ip   |-> IF src.ip <= dst.ip THEN dst.ip ELSE src.ip,
          port |-> IF src.port <= dst.port THEN dst.port ELSE src.port],
   proto |-> proto]

SrcFirst(src, dst) ==
  src.ip < dst.ip \/ (src.ip = dst.ip /\ src.port <= dst.port)

MakeKey(src, dst, proto) ==
  IF SrcFirst(src, dst) THEN [a |-> src, b |-> dst, proto |-> proto]
                        ELSE [a |-> dst, b |-> src, proto |-> proto]

Key == [a : Endpoint, b : Endpoint, proto : Proto]

KeyOf(s) == MakeKey(s.init, s.resp, s.proto)

-----------------------------------------------------------------------------
Session == [init : Endpoint, resp : Endpoint, proto : Proto,
            state : SessionState, fin_from_initiator : BOOLEAN,
            first_seen : Nat, last_seen : Nat,
            from_zone : Zone, to_zone : Zone, matched_rule : Nat, verdict : Verdict,
            app : App \cup {NoApp}, app_latched : BOOLEAN, l7_bytes_seen : Nat,
            app_shifted : BOOLEAN,
            nat_applied : BOOLEAN, nat_port : Nat,
            pkts_c2s : Nat, pkts_s2c : Nat]

EmptyTable == [sessions |-> <<>>, by_key |-> <<>>]

\* FlowTable::create fills in the endpoints, the protocol and the times; the
\* rest are the defaults of struct Session.
NewSession(m, ts) ==
  [init |-> m.src, resp |-> m.dst, proto |-> m.proto,
   state |-> "New", fin_from_initiator |-> FALSE, first_seen |-> ts, last_seen |-> ts,
   from_zone |-> "Any", to_zone |-> "Any", matched_rule |-> kDefaultDeny, verdict |-> "Deny",
   app |-> NoApp, app_latched |-> FALSE, l7_bytes_seen |-> 0, app_shifted |-> FALSE,
   nat_applied |-> FALSE, nat_port |-> 0, pkts_c2s |-> 0, pkts_s2c |-> 0]

Lookup(table, m) ==
  LET key == MakeKey(m.src, m.dst, m.proto)
  IN  IF key \in DOMAIN table.by_key THEN table.by_key[key] ELSE kNoSession

\* Direction comes from the session: the key has thrown it away.
ToInitiator(s, m) == m.dst = s.init

\* A slip to notice: the position taken after push_back.
CreateOffByOne(table, s) ==
  [sessions |-> Append(table.sessions, s),
   by_key   |-> [k \in DOMAIN table.by_key \cup {KeyOf(s)} |->
                   IF k = KeyOf(s) THEN Len(table.sessions) + 2 ELSE table.by_key[k]]]

\* push_back, and the index entry that points at the new position.
Create(table, s) ==
  LET key == KeyOf(s)
  IN  [sessions |-> Append(table.sessions, s),
       by_key   |-> [k \in DOMAIN table.by_key \cup {key} |->
                       IF k = key THEN Len(table.sessions) + 1 ELSE table.by_key[k]]]

\* A slip to notice: return traffic is not counted.
TouchedOneWay(s, ts, to_initiator) ==
  [s EXCEPT !.last_seen = ts, !.pkts_c2s = IF to_initiator THEN @ ELSE @ + 1]

\* The clock is the capture's, and it is not made to move forward.
Touched(s, ts, to_initiator) ==
  IF to_initiator THEN [s EXCEPT !.last_seen = ts, !.pkts_s2c = @ + 1]
                  ELSE [s EXCEPT !.last_seen = ts, !.pkts_c2s = @ + 1]

-----------------------------------------------------------------------------
(***************************************************************************)
(* Aging.                                                                  *)
(***************************************************************************)
ForSession(s) ==
  CASE s.state \in {"New", "SynSeen", "SynAckSeen"} -> syn_us
    [] s.state = "Established" -> IF s.proto = "udp" THEN established_udp_us
                                  ELSE established_tcp_us
    [] s.state \in {"FinSeen", "Closing"} -> closing_us
    [] OTHER -> 0

Idle(s, now) == IF now >= s.last_seen THEN now - s.last_seen ELSE 0

\* Slips to notice: Closed sessions left to idle out like the others, and the
\* limit itself taken for past it.
IdleOnly(s, now) == Idle(s, now) > ForSession(s)

AtTheLimit(s, now) == s.state = "Closed" \/ Idle(s, now) >= ForSession(s)

Expired(s, now) == s.state = "Closed" \/ Idle(s, now) > ForSession(s)

Reaped(table, now) ==
  {k \in DOMAIN table.by_key : Expired(table.sessions[table.by_key[k]], now)}

\* A slip to notice: the index entry goes, the session is not marked.
ErasedOnly(table, now) ==
  [table EXCEPT !.by_key = [k \in DOMAIN @ \ Reaped(table, now) |-> @[k]]]

\* Retiring removes the key and marks the session; the record stays.
AgeOut(table, now) ==
  LET reaped  == Reaped(table, now)
      retired == {table.by_key[k] : k \in reaped}
  IN  [sessions |-> [i \in DOMAIN table.sessions |->
                       IF i \in retired THEN [table.sessions[i] EXCEPT !.state = "Closed"]
                       ELSE table.sessions[i]],
       by_key   |-> [k \in DOMAIN table.by_key \ reaped |-> table.by_key[k]]]
=============================================================================
