----------------------------- MODULE PolicyLoad -----------------------------
(***************************************************************************)
(* Where the rule base comes from: Policy::parse, called on the built-in   *)
(* text when the engine is made and on a file when main is given one, and  *)
(* what main does if it fails.  A text is a sequence of lines and a line   *)
(* the sequence of its words, its comment stripped.  What the string       *)
(* helpers make of a word are facts of the word, given as constants.       *)
(***************************************************************************)
EXTENDS Integers, Sequences, FiniteSets, FiniteSetsExt

CONSTANTS AddressBits, \* bits of an address, 32 in the code
          Octets,      \* values of an octet of one, 256 in the code
          Word,        \* the words of the texts and their parts
          Commas,      \* split(word, ','), as a set
          Dots,        \* split(word, '.')
          Slash,       \* what is before and after the first '/', or the word
          Number,      \* strtol: 0 for what does not begin with a number
          Builtin,     \* the text of load_default
          Files        \* texts of policy files

ASSUME PolicyLoadAssumption ==
  /\ AddressBits \in Nat /\ Octets \in Nat
  /\ 2^AddressBits = Octets * Octets * Octets * Octets
  /\ Word \subseteq STRING
  /\ Commas \in [Word -> SUBSET Word]
  /\ Dots \in [Word -> Seq(Word)] /\ Slash \in [Word -> Seq(Word)]
  /\ Number \in [Word -> Int]
  /\ Files \cup {Builtin} \subseteq Seq(Seq(Word))

VARIABLES policy_path,   \* the --policy argument: "absent", "unreadable" or "readable"
          file,          \* the text a readable one holds
          call,          \* the call that parse is in: "load_default" or "load_file"
          lineno,        \* lines it has been through
          pair,          \* the keyword it is at in a rule line, or 0 between lines
          rule,          \* the rule it is building
          zones, rules,  \* the Policy
          status         \* "parsing", "loaded", "failed", then "running" or "exited"

vars  == <<policy_path, file, call, lineno, pair, rule, zones, rules, status>>
given == <<policy_path, file>>

\* The operators of Policy on the tables as they are.
Base == INSTANCE Policy WITH Routes <- zones, Rules <- rules

-----------------------------------------------------------------------------
(***************************************************************************)
(* The words of a line.                                                    *)
(***************************************************************************)
ZoneNamed    == [trust |-> "Trust", untrust |-> "Untrust", dmz |-> "Dmz", any |-> "Any"]
VerdictNamed == [allow |-> "Allow", deny |-> "Deny", drop |-> "Drop"]

\* A slip to notice: the bound of a prefix is off by one.
CidrLoose(word) ==
  /\ Len(Slash[word]) = 2
  /\ Len(Dots[Slash[word][1]]) = 4
  /\ \A k \in 1..4 : Number[Dots[Slash[word][1]][k]] \in 0 .. Octets - 1
  /\ Number[Slash[word][2]] \in 0 .. AddressBits + 1

IsCidr(word) ==
  /\ Len(Slash[word]) = 2
  /\ Len(Dots[Slash[word][1]]) = 4
  /\ \A k \in 1..4 : Number[Dots[Slash[word][1]][k]] \in 0 .. Octets - 1
  /\ Number[Slash[word][2]] \in 0 .. AddressBits

RouteOf(name, word) ==
  LET octet(k) == Number[Dots[Slash[word][1]][k]]
      shifted(addr, k) == addr * Octets + octet(k)
  IN  [network |-> shifted(shifted(shifted(octet(1), 2), 3), 4),
       prefix  |-> Number[Slash[word][2]],
       zone    |-> ZoneNamed[name]]

IsService(word) ==
  \/ word = "any"
  \/ /\ Len(Slash[word]) = 2
     /\ Slash[word][1] \in Base!Proto
     /\ Slash[word][2] = "any" \/ Number[Slash[word][2]] \in Base!Port \ {0}

\* A service that is "any" is protocol 0 and port 0.
ServiceOf(word) ==
  IF word = "any" THEN [proto |-> Base!NoProto, port |-> 0]
  ELSE [proto |-> Slash[word][1],
        port  |-> IF Slash[word][2] = "any" THEN 0 ELSE Number[Slash[word][2]]]

ServicesOf(value) == IF value = "any" THEN {} ELSE {ServiceOf(w) : w \in Commas[value]}
AppsOf(value)     == IF value = "any" THEN {} ELSE Commas[value]

IsPair(key, value) ==
  \/ key \in {"from", "to"} /\ value \in DOMAIN ZoneNamed
  \/ key = "service" /\ (value = "any" \/ \A w \in Commas[value] : IsService(w))
  \/ key = "application"
  \/ key = "action" /\ value \in DOMAIN VerdictNamed

\* A keyword given again overrides, but lists add up.
WithPair(r, key, value) ==
  CASE key = "from"        -> [r EXCEPT !.from = ZoneNamed[value]]
    [] key = "to"          -> [r EXCEPT !.to = ZoneNamed[value]]
    [] key = "service"     -> [r EXCEPT !.services = @ \cup ServicesOf(value)]
    [] key = "application" -> [r EXCEPT !.applications = @ \cup AppsOf(value)]
    [] key = "action"      -> [r EXCEPT !.action = VerdictNamed[value]]

DefaultRule == [from |-> "Any", to |-> "Any", services |-> {}, applications |-> {},
                action |-> "Deny"]

IsZoneLine(line) == /\ Len(line) = 3 /\ line[1] = "zone"
                    /\ line[2] \in DOMAIN ZoneNamed /\ IsCidr(line[3])

IsRuleHead(line) == Len(line) >= 2 /\ line[1] = "rule"

\* The keywords of a rule line that have a value.
Pairs(line) == {i \in 3 .. Len(line) - 1 : i % 2 = 1}

IsRuleLine(line) == IsRuleHead(line) /\ \A i \in Pairs(line) : IsPair(line[i], line[i + 1])

WellFormed(line) == line = <<>> \/ IsZoneLine(line) \/ IsRuleLine(line)

ASSUME BuiltinAssumption == \A k \in DOMAIN Builtin : WellFormed(Builtin[k])

-----------------------------------------------------------------------------
(***************************************************************************)
(* parse, one step per line and per keyword of a rule.                     *)
(***************************************************************************)
Init == /\ policy_path \in {"absent", "unreadable", "readable"}
        /\ file \in Files /\ call = "load_default" /\ lineno = 0 /\ pair = 0 /\ rule = DefaultRule
        /\ zones = <<>> /\ rules = <<>> /\ status = "parsing"

text  == IF call = "load_default" THEN Builtin ELSE file
token == text[lineno + 1]

AtLine == status = "parsing" /\ pair = 0 /\ lineno < Len(text)
AtPair == status = "parsing" /\ pair > 0

EndLine == lineno' = lineno + 1 /\ pair' = 0

SkipLine == AtLine /\ token = <<>> /\ EndLine /\ UNCHANGED <<given, call, rule, zones, rules, status>>

ZoneLine ==
  /\ AtLine /\ IsZoneLine(token)
  /\ zones' = Append(zones, RouteOf(token[2], token[3]))
  /\ EndLine
  /\ UNCHANGED <<given, call, rule, rules, status>>

\* A slip to notice: the rule is not made anew for each line.
RuleReused ==
  /\ AtLine /\ IsRuleHead(token)
  /\ pair' = 3
  /\ UNCHANGED <<given, call, lineno, rule, zones, rules, status>>

RuleHead ==
  /\ AtLine /\ IsRuleHead(token)
  /\ pair' = 3 /\ rule' = DefaultRule
  /\ UNCHANGED <<given, call, lineno, zones, rules, status>>

Pair ==
  /\ AtPair /\ pair < Len(token) /\ IsPair(token[pair], token[pair + 1])
  /\ rule' = WithPair(rule, token[pair], token[pair + 1])
  /\ pair' = pair + 2
  /\ UNCHANGED <<given, call, lineno, zones, rules, status>>

\* A last word without its value is left unread.
RuleEnd ==
  /\ AtPair /\ pair >= Len(token)
  /\ rules' = Append(rules, rule)
  /\ EndLine
  /\ UNCHANGED <<given, call, rule, zones, status>>

\* parse returns false in the middle of the text, with what it had by then.
BadLine ==
  /\ \/ AtLine /\ token # <<>> /\ ~IsZoneLine(token) /\ ~IsRuleHead(token)
     \/ AtPair /\ pair < Len(token) /\ ~IsPair(token[pair], token[pair + 1])
  /\ status' = "failed"
  /\ UNCHANGED <<given, call, lineno, pair, rule, zones, rules>>

EndOfText ==
  /\ status = "parsing" /\ pair = 0 /\ lineno = Len(text)
  /\ status' = "loaded"
  /\ UNCHANGED <<given, call, lineno, pair, rule, zones, rules>>

-----------------------------------------------------------------------------
(***************************************************************************)
(* main: the engine comes with the built-in policy, whether or not it      *)
(* parsed; a file replaces it.                                             *)
(***************************************************************************)
Parsed(by) == call = by /\ status \in {"loaded", "failed"}

LoadFile ==
  /\ policy_path = "readable" /\ Parsed("load_default")
  /\ call' = "load_file" /\ lineno' = 0 /\ pair' = 0 /\ status' = "parsing"
  /\ zones' = <<>> /\ rules' = <<>>
  /\ UNCHANGED <<given, rule>>

\* A slip to notice: main does not look at what load_file returned.
RunAnyway ==
  /\ \/ policy_path = "absent" /\ Parsed("load_default")
     \/ Parsed("load_file")
  /\ status' = "running"
  /\ UNCHANGED <<given, call, lineno, pair, rule, zones, rules>>

Run ==
  /\ \/ policy_path = "absent" /\ Parsed("load_default")
     \/ Parsed("load_file") /\ status = "loaded"
  /\ status' = "running"
  /\ UNCHANGED <<given, call, lineno, pair, rule, zones, rules>>

\* A file that does not open, or does not parse.
Refuse ==
  /\ \/ policy_path = "unreadable" /\ Parsed("load_default")
     \/ Parsed("load_file") /\ status = "failed"
  /\ status' = "exited"
  /\ UNCHANGED <<given, call, lineno, pair, rule, zones, rules>>

Next == \/ SkipLine \/ ZoneLine \/ RuleHead \/ Pair \/ RuleEnd \/ BadLine \/ EndOfText
        \/ LoadFile \/ Run \/ Refuse

\* parse and main run on one thread.
Spec == Init /\ [][Next]_vars

-----------------------------------------------------------------------------
(***************************************************************************)
(* What a text means, whatever order it is read in.                        *)
(***************************************************************************)
\* The places before end where a keyword of a rule line stands.
Under(line, key, end) == {i \in Pairs(line) : i < end /\ line[i] = key}

LastValue(line, key, end, default) ==
  IF Under(line, key, end) = {} THEN default
  ELSE line[1 + Max(Under(line, key, end))]

\* The rule that a line means by what it says before a place.
MeaningBefore(line, end) ==
  [from   |-> ZoneNamed[LastValue(line, "from", end, "any")],
   to     |-> ZoneNamed[LastValue(line, "to", end, "any")],
   action |-> VerdictNamed[LastValue(line, "action", end, "deny")],
   services     |-> UNION {ServicesOf(line[i + 1]) : i \in Under(line, "service", end)},
   applications |-> UNION {AppsOf(line[i + 1]) : i \in Under(line, "application", end)}]

Meaning(line) == MeaningBefore(line, Len(line))

\* The lines up to a place that declare a zone, and those that declare a rule: the
\* table has as many entries, one for each line and in their order.
ZoneLines(n) == {k \in 1 .. n : IsZoneLine(text[k])}
RuleLines(n) == {k \in 1 .. n : IsRuleHead(text[k])}

ZonesDeclared(n) ==
  /\ Len(zones) = Cardinality(ZoneLines(n))
  /\ \A k \in ZoneLines(n) :
       zones[Cardinality(ZoneLines(k))] = RouteOf(text[k][2], text[k][3])

RulesDeclared(n) ==
  /\ Len(rules) = Cardinality(RuleLines(n))
  /\ \A k \in RuleLines(n) : rules[Cardinality(RuleLines(k))] = Meaning(text[k])

-----------------------------------------------------------------------------
\* Every rule base there ever is has the types that the engine takes for granted of
\* it, the partial ones included.
BaseIsTyped == zones \in Seq(Base!RouteType) /\ rules \in Seq(Base!RuleType)

\* A partial rule base never decides a packet: main runs on a text only if each of its
\* lines is well formed, and on the text it was asked for (main.cpp:91-97).
OnlyWholeTextRuns ==
  status = "running" => /\ policy_path = IF call = "load_file" THEN "readable" ELSE "absent"
                        /\ \A k \in DOMAIN text : WellFormed(text[k])

\* What runs is what the text says: its zone lines and its rule lines, in their order,
\* and nothing of the policy that was there before (policy.cpp:135-137).
LoadedIsDeclared ==
  status = "running" => ZonesDeclared(Len(text)) /\ RulesDeclared(Len(text))
=============================================================================
