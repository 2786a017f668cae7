------------------------------- MODULE Report -------------------------------
(***************************************************************************)
(* What the program shows of the engine's state: show sessions, the detail *)
(* of one and show stats (cli.cpp), and the tiles, the table and the cards *)
(* of the HTML report (report.cpp).  The same facts are told by counters   *)
(* in one place and by sessions in another.  Text, layout and escaping are *)
(* left out, as is what is shown of bytes and of the SNI.                  *)
(***************************************************************************)
EXTENDS EngineProperties

CONSTANT TimeWrap    \* timestamps are unsigned, 2^64 in the code

ASSUME ReportAssumption == TimeWrap \in Nat \ {0} /\ Times \subseteq 0 .. TimeWrap - 1

IsPlaceholder(s) == ~s.app_latched

AppDisplay(s) ==
  CASE s.app_latched -> s.app
    [] ~s.app_latched /\ s.state \in {"New", "SynSeen", "SynAckSeen"} -> "incomplete"
    [] OTHER -> "insufficient-data"

RuleAt(index) == IF index \in DOMAIN Rules THEN {Rules[index]} ELSE {}

Malformed(c) == c.short_header + c.bad_version + c.bad_ihl + c.bad_length

Duration(s) == (s.last_seen - s.first_seen) % TimeWrap

-----------------------------------------------------------------------------
\* A row of the tables; rule is the rule named, or nothing for the default deny.
Row(s) == [app |-> AppDisplay(s), placeholder |-> IsPlaceholder(s),
           from |-> s.from_zone, to |-> s.to_zone, source |-> s.init, destination |-> s.resp,
           state |-> s.state, rule |-> RuleAt(s.matched_rule), action |-> s.verdict,
           app_id_shift |-> s.app_shifted]

Rows == [i \in All |-> Row(flows.sessions[i])]

\* --session: nothing for a number that is no session's.
Detail(id) ==
  IF id \notin All THEN {}
  ELSE LET s == flows.sessions[id]
       IN  {[row |-> Row(s), nat |-> IF s.nat_applied THEN {s.nat_port} ELSE {},
             c2s |-> s.pkts_c2s, s2c |-> s.pkts_s2c, duration |-> Duration(s)]}

\* A slip to notice: what was dropped is not among the refused.
DeniedOnly ==
  [packets |-> counters.packets, sessions |-> counters.sessions_created,
   allowed |-> counters.allowed, refused |-> counters.denied,
   shifts |-> counters.app_shifts, out_of_state |-> counters.out_of_state,
   malformed |-> Malformed(counters)]

Tiles ==
  [packets |-> counters.packets, sessions |-> counters.sessions_created,
   allowed |-> counters.allowed, refused |-> counters.denied + counters.dropped,
   shifts |-> counters.app_shifts, out_of_state |-> counters.out_of_state,
   malformed |-> Malformed(counters)]

Stats ==
  [packets |-> counters.packets, malformed |-> Malformed(counters),
   sessions |-> counters.sessions_created, active |-> Cardinality(DOMAIN flows.by_key),
   retired |-> counters.sessions_retired,
   allow |-> counters.allowed, deny |-> counters.denied, drop |-> counters.dropped,
   shifts |-> counters.app_shifts]

\* The sessions that shifted have a card that explains them; the cards about nothing but
\* a server name are left out, with the names.
Cards == {i \in All : flows.sessions[i].app_shifted}

-----------------------------------------------------------------------------
\* The totals of the tiles and of show stats are those of the rows beside them.
TotalsAddUp ==
  LET rows(action) == Cardinality({i \in All : Rows[i].action = action})
  IN  /\ Tiles.sessions = Stats.active + Stats.retired
      /\ Tiles.sessions = Tiles.allowed + Tiles.refused
      /\ Tiles.allowed = rows("Allow") /\ Stats.allow = rows("Allow")
      /\ Stats.deny = rows("Deny") /\ Stats.drop = rows("Drop")
      /\ Tiles.shifts = Cardinality({i \in All : Rows[i].app_id_shift})
      /\ Tiles.shifts = Cardinality(Cards)

\* A row names the rule whose action it shows, or the default deny and that it denies;
\* it shows a placeholder for an application only of a session without payload; and no
\* session is shown to last longer than the capture.
RowsAreConsistent ==
  \A i \in All :
    LET row == Rows[i]
        s   == flows.sessions[i]
    IN  /\ \A rule \in row.rule : rule.action = row.action
        /\ row.rule = {} => row.action = "Deny"
        /\ row.placeholder <=> row.app \in {"incomplete", "insufficient-data"}
        /\ row.placeholder <=> s.l7_bytes_seen = 0
        /\ row.app = "incomplete" => row.state \in {"New", "SynSeen", "SynAckSeen"}
        /\ ~ClockStepsBack => \A shown \in Detail(i) : shown.duration <= last_ts

\* One part of what is shown does not contradict another, at any time (cli.cpp:116-126,
\* report.cpp:186-197 and report.cpp:212-227).
ReportAgrees == TotalsAddUp /\ RowsAreConsistent
=============================================================================
