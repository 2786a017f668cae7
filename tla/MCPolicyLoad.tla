---------------------------- MODULE MCPolicyLoad ----------------------------
(***************************************************************************)
(* Small policy texts for TLC.  Addresses are four octets of one bit.      *)
(***************************************************************************)
EXTENDS PolicyLookup

\* The networks of the texts, as words: before the slash, and after.
Networks == << <<"0.0.0.0", "0">>, <<"0.1.0.0", "2">>, <<"0.1.1.1", "2">>, <<"0.1.1", "3">>,
               <<"0.2.0.0", "3">>, <<"1.0.0.0", "5">>, <<"1.0.0.0", "4">> >>

Cidr(net) == net[1] \o "/" \o net[2]

Halved == [w \in {"tcp/80", "udp/53", "tcp/any", "tcp/0", "icmp/80"} |->
             CASE w = "tcp/80" -> <<"tcp", "80">>    [] w = "udp/53" -> <<"udp", "53">>
               [] w = "tcp/any" -> <<"tcp", "any">>  [] w = "tcp/0" -> <<"tcp", "0">>
               [] w = "icmp/80" -> <<"icmp", "80">>]

Listed == [w \in {"tcp/80,udp/53", "udp/53,any", "tcp/80,tcp/0", "web-browsing,ssl", ","} |->
             CASE w = "tcp/80,udp/53" -> {"tcp/80", "udp/53"}  [] w = "udp/53,any" -> {"udp/53", "any"}
               [] w = "tcp/80,tcp/0" -> {"tcp/80", "tcp/0"}
               [] w = "web-browsing,ssl" -> {"web-browsing", "ssl"}  [] w = "," -> {}]

Numbers == [w \in {"0", "1", "2", "3", "4", "5", "53", "80"} |->
              CASE w = "0" -> 0 [] w = "1" -> 1 [] w = "2" -> 2 [] w = "3" -> 3
                [] w = "4" -> 4 [] w = "5" -> 5 [] w = "53" -> 53 [] w = "80" -> 80]

Dotted == [w \in {Networks[k][1] : k \in DOMAIN Networks} |->
             CASE w = "0.0.0.0" -> <<"0", "0", "0", "0">>  [] w = "0.1.0.0" -> <<"0", "1", "0", "0">>
               [] w = "0.1.1.1" -> <<"0", "1", "1", "1">>  [] w = "0.1.1" -> <<"0", "1", "1">>
               [] w = "0.2.0.0" -> <<"0", "2", "0", "0">>  [] w = "1.0.0.0" -> <<"1", "0", "0", "0">>]

MCWord ==
  DOMAIN Halved \cup DOMAIN Listed \cup DOMAIN Numbers \cup DOMAIN Dotted
    \cup {Cidr(Networks[k]) : k \in DOMAIN Networks}
    \cup {"zone", "rule", "from", "to", "service", "application", "action", "web", "ssl",
          "web-browsing", "tcp", "udp", "icmp", "trust", "untrust", "dmz", "any", "allow",
          "deny", "drop", "wibble"}

MCCommas == [w \in MCWord |-> IF w \in DOMAIN Listed THEN Listed[w] ELSE {w}]
MCDots   == [w \in MCWord |-> IF w \in DOMAIN Dotted THEN Dotted[w] ELSE <<w>>]
MCNumber == [w \in MCWord |-> IF w \in DOMAIN Numbers THEN Numbers[w] ELSE 0]
MCSlash  ==
  [w \in MCWord |->
     IF w \in DOMAIN Halved THEN Halved[w]
     ELSE IF \E k \in DOMAIN Networks : w = Cidr(Networks[k])
     THEN Networks[CHOOSE k \in DOMAIN Networks : w = Cidr(Networks[k])]
     ELSE <<w>>]

-----------------------------------------------------------------------------
ZoneText(name, net) == <<"zone", name, Cidr(Networks[net])>>
RuleText(pairs)     == <<"rule", "web">> \o pairs

GoodLines ==
  {<<>>, ZoneText("untrust", 1), ZoneText("trust", 2), ZoneText("dmz", 3), ZoneText("any", 7),
   RuleText(<<>>),
   RuleText(<<"from", "trust", "to", "untrust", "service", "tcp/80,udp/53", "action", "allow">>),
   RuleText(<<"service", "tcp/80", "service", "udp/53,any", "action", "deny", "action", "drop">>),
   RuleText(<<"service", ",", "application", "web-browsing,ssl", "action", "allow">>),
   RuleText(<<"service", "tcp/any", "application", "any", "action">>)}

BadLines ==
  {<<"wibble">>, <<"rule">>, <<"zone", "trust">>, <<"zone", "wibble", Cidr(Networks[1])>>,
   ZoneText("trust", 4), ZoneText("trust", 5), ZoneText("trust", 6), <<"zone", "trust", "0.0.0.0">>,
   RuleText(<<"from", "wibble", "action", "allow">>),
   RuleText(<<"action", "allow", "service", "tcp/80,tcp/0">>),
   RuleText(<<"service", "icmp/80">>), RuleText(<<"wibble", "any">>)}

\* The built-in policy has zones and rules too; a file has up to three lines, of which
\* one at most is bad.
MCBuiltin == <<ZoneText("trust", 2), ZoneText("untrust", 1), <<>>,
               RuleText(<<"from", "trust", "to", "untrust", "service", "any", "action", "allow">>)>>

MCFiles ==
  {<<>>} \cup {<<x>> : x \in GoodLines \cup BadLines}
    \cup {<<x, y>> : x \in GoodLines, y \in GoodLines \cup BadLines}
    \cup {<<x, y, z>> : x \in GoodLines, y \in GoodLines \cup BadLines, z \in GoodLines}

\* Addresses in each network of the texts, at both ends of one and outside them, and
\* traffic that each rule of the texts takes or passes over: on its port and another, with
\* and without an application, from the zone it names and not.
MCAddresses == {[ip |-> 3], [ip |-> 4], [ip |-> 7], [ip |-> 8], [ip |-> 9]}
MCTraffic   ==
  [from : {"Trust", "Untrust"}, to : {"Untrust"}, proto : {"tcp"}, port : {80}, app : {"", "ssl", "ssh"}]
    \cup [from : {"Trust"}, to : {"Untrust"}, proto : {"udp"}, port : {53, 80}, app : {"", "dns"}]
=============================================================================
