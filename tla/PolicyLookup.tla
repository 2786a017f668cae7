---------------------------- MODULE PolicyLookup ----------------------------
(***************************************************************************)
(* The rule base at work: once main runs, the engine asks the zone of an   *)
(* address and the rule of some traffic, and zone_for and evaluate go      *)
(* through the tables from their first entry on.  One step is one turn of  *)
(* either loop.                                                            *)
(***************************************************************************)
EXTENDS PolicyLoad

CONSTANTS Addresses,   \* what zone_for may be asked: [ip]
          Traffic      \* what evaluate may be asked: [from, to, proto, port, app]

ASSUME LookupAssumption ==
  /\ Addresses \subseteq [ip : Base!Ip]
  /\ Traffic \subseteq [from : Base!Zone, to : Base!Zone, proto : Base!Proto,
                        port : Base!Port, app : STRING]

VARIABLES inside,     \* "nothing", or the call: "zone_for" until it is "zone_found",
                      \* "evaluate" until it is "rule_found"
          asked,      \* its arguments
          turn,       \* entries of the table that are behind
          best,       \* best_prefix and best_zone
          decision    \* what evaluate returned

lookup == <<inside, asked, turn, best, decision>>

NoRoute == [prefix |-> -1, zone |-> "Any"]
NoMatch == [rule |-> Base!kDefaultDeny, verdict |-> "Deny"]

-----------------------------------------------------------------------------
LookupInit == /\ Init /\ inside = "nothing" /\ asked = <<>> /\ turn = 0
              /\ best = NoRoute /\ decision = NoMatch

\* One call at a time, from main's thread, which makes none before it runs.
Call(f, args) ==
  /\ status = "running" /\ inside \notin {"zone_for", "evaluate"}
  /\ inside' = f /\ asked' = args /\ turn' = 0 /\ best' = NoRoute /\ decision' = NoMatch
  /\ UNCHANGED vars

AskZone == \E args \in Addresses : Call("zone_for", args)
AskRule == \E args \in Traffic : Call("evaluate", args)

\* A slip to notice: the last route that contains the address wins.
LastContaining(route) ==
  IF Base!Contains(route, asked.ip)
    THEN [prefix |-> route.prefix, zone |-> route.zone] ELSE best

Better(route) ==
  IF Base!Contains(route, asked.ip) /\ route.prefix > best.prefix
    THEN [prefix |-> route.prefix, zone |-> route.zone] ELSE best

ZoneTurn ==
  /\ inside = "zone_for"
  /\ IF turn < Len(zones)
       THEN turn' = turn + 1 /\ best' = Better(zones[turn + 1]) /\ UNCHANGED inside
       ELSE inside' = "zone_found" /\ UNCHANGED <<turn, best>>
  /\ UNCHANGED <<vars, asked, decision>>

\* What sends the loop of evaluate on to the next rule, test by test.
PassedOver(r) ==
  \/ r.from # "Any" /\ r.from # asked.from
  \/ r.to # "Any" /\ r.to # asked.to
  \/ r.services # {} /\ \A s \in r.services : ~Base!ServiceMatches(s, asked.proto, asked.port)
  \/ r.applications # {} /\ asked.app # Base!NoApp /\ asked.app \notin r.applications

\* Past the last rule there is the implicit deny.
RuleTurn ==
  /\ inside = "evaluate"
  /\ IF turn < Len(rules) /\ PassedOver(rules[turn + 1])
       THEN turn' = turn + 1 /\ UNCHANGED <<inside, decision>>
       ELSE /\ inside' = "rule_found" /\ UNCHANGED turn
            /\ decision' = IF turn = Len(rules) THEN NoMatch
                           ELSE [rule |-> turn + 1, verdict |-> rules[turn + 1].action]
  /\ UNCHANGED <<vars, asked, best>>

LookupNext == \/ Next /\ UNCHANGED lookup
              \/ AskZone \/ AskRule \/ ZoneTurn \/ RuleTurn

LookupSpec == LookupInit /\ [][LookupNext]_<<vars, lookup>>

-----------------------------------------------------------------------------
\* The routes that contain an address, no other of them with a longer prefix.
Longest(ip) == {i \in Base!Covering(ip) :
                  \A j \in Base!Covering(ip) : zones[j].prefix <= zones[i].prefix}

\* "Longest prefix wins" (policy.cpp:214-215): the zone found is that of a route with
\* the longest prefix, wherever in the base it stands, and Any when none contains the
\* address.  (Of one network declared in two zones either may answer here; see README.)
\* And the first rule to match decides, provisionally while there is no
\* application (policy.cpp:244-259).  So it is on every base that runs.
LookupsFindTheBest ==
  /\ inside = "zone_found" =>
       IF Longest(asked.ip) = {} THEN best.zone = "Any"
       ELSE \E i \in Longest(asked.ip) : best.zone = zones[i].zone
  /\ inside = "rule_found" =>
       decision = Base!Evaluate(asked.from, asked.to, asked.proto, asked.port, asked.app)
=============================================================================
