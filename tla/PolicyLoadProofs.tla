-------------------------- MODULE PolicyLoadProofs --------------------------
(***************************************************************************)
(* For every policy text: the rule base has the types that the engine      *)
(* takes for granted, a partial one never runs, what runs is what the text *)
(* declares, and the lookups find in it what Policy says they do.          *)
(***************************************************************************)
EXTENDS PolicyLookup, FiniteSetTheorems, TLAPS

Address  == 0 .. 2^AddressBits - 1
Port     == 0..65535
Zones    == {"Any", "Trust", "Untrust", "Dmz"}
Protos   == {"tcp", "udp", "none"}
Verdicts == {"Allow", "Deny", "Drop"}
Prefix   == 0 .. AddressBits
Services == [proto : Protos, port : Port]

Routes    == [network : Address, prefix : Prefix, zone : Zones]
LineRules == [from : Zones, to : Zones, services : SUBSET Services,
              applications : SUBSET STRING, action : Verdicts]

\* The types of Policy do not depend on its tables.
LEMMA TypesAreFixed == /\ Base!RouteType = Routes
                       /\ Base!RuleType = LineRules
                       /\ BaseIsTyped <=> zones \in Seq(Routes) /\ rules \in Seq(LineRules)
  BY DEF BaseIsTyped, Base!RouteType, Base!RuleType, Base!Ip, Base!Zone, Base!Verdict, Base!Port,
         Base!Proto, Base!NoProto,
         Routes, LineRules, Services, Address, Port, Zones, Protos, Verdicts, Prefix

-----------------------------------------------------------------------------
(***************************************************************************)
(* What is made of a word has its type.                                    *)
(***************************************************************************)
\* One octet more makes an address one octet longer.
LEMMA ShiftedIn ==
  ASSUME NEW O \in Nat, NEW M \in Nat, NEW a \in 0 .. M - 1, NEW b \in 0 .. O - 1
  PROVE  a * O + b \in 0 .. M * O - 1
<1>1. a * O \in Nat /\ M * O \in Nat /\ (M - 1) * O \in Int
  BY SMT
<1>2. a <= M - 1
  BY SMT
<1>3. a * O <= (M - 1) * O
  BY <1>2, SMT
<1>4. (M - 1) * O = M * O - O
  BY SMT
<1> QED
  BY <1>1, <1>3, <1>4, SMT

LEMMA RouteTyped ==
  ASSUME NEW name \in DOMAIN ZoneNamed, NEW word \in Word, IsCidr(word)
  PROVE  RouteOf(name, word) \in Routes
<1> DEFINE o(k) == Number[Dots[Slash[word][1]][k]]
<1>1. \A k \in 1..4 : o(k) \in 0 .. Octets - 1
  BY DEF IsCidr
<1>2. Octets \in Nat /\ Octets * Octets \in Nat /\ Octets * Octets * Octets \in Nat
  BY PolicyLoadAssumption, SMT
<1>3. o(1) \in 0 .. Octets - 1 /\ o(2) \in 0 .. Octets - 1
      /\ o(3) \in 0 .. Octets - 1 /\ o(4) \in 0 .. Octets - 1
  BY <1>1
<1> HIDE DEF o
<1>4. o(1) * Octets + o(2) \in 0 .. Octets * Octets - 1
  BY <1>2, <1>3, ShiftedIn
<1>5. (o(1) * Octets + o(2)) * Octets + o(3) \in 0 .. Octets * Octets * Octets - 1
  BY <1>2, <1>3, <1>4, ShiftedIn
<1>6. ((o(1) * Octets + o(2)) * Octets + o(3)) * Octets + o(4) \in Address
  <2>1. 2^AddressBits = Octets * Octets * Octets * Octets
    BY PolicyLoadAssumption
  <2>2. ((o(1) * Octets + o(2)) * Octets + o(3)) * Octets + o(4)
          \in 0 .. Octets * Octets * Octets * Octets - 1
    BY <1>2, <1>3, <1>5, ShiftedIn
  <2> QED
    BY <2>1, <2>2 DEF Address
<1>7. RouteOf(name, word) =
        [network |-> ((o(1) * Octets + o(2)) * Octets + o(3)) * Octets + o(4),
         prefix |-> Number[Slash[word][2]], zone |-> ZoneNamed[name]]
  BY DEF RouteOf, o
<1>8. Number[Slash[word][2]] \in Prefix
  BY DEF IsCidr, Prefix
<1>9. ZoneNamed[name] \in Zones
  BY DEF ZoneNamed, Zones
<1> QED
  BY <1>6, <1>7, <1>8, <1>9 DEF Routes

LEMMA ServiceTyped ==
  ASSUME NEW word \in Word, IsService(word)
  PROVE  ServiceOf(word) \in Services
<1>1. CASE word = "any"
  <2>1. ServiceOf(word) = [proto |-> "none", port |-> 0]
    BY <1>1 DEF ServiceOf, Base!NoProto
  <2>2. "none" \in Protos /\ 0 \in Port
    BY DEF Protos, Port
  <2> QED
    BY <2>1, <2>2 DEF Services
<1>2. CASE word # "any"
  <2>1. Slash[word][1] \in Protos
    BY <1>2 DEF IsService, Base!Proto, Protos
  <2> DEFINE port == IF Slash[word][2] = "any" THEN 0 ELSE Number[Slash[word][2]]
  <2>2. port \in Port
    <3>1. Slash[word][2] = "any" \/ Number[Slash[word][2]] \in Base!Port \ {0}
      BY <1>2 DEF IsService
    <3>2. Base!Port = Port /\ 0 \in Port
      BY DEF Base!Port, Port
    <3> QED
      BY <3>1, <3>2
  <2>3. ServiceOf(word) = [proto |-> Slash[word][1], port |-> port]
    BY <1>2 DEF ServiceOf
  <2> QED
    BY <2>1, <2>2, <2>3 DEF Services
<1> QED
  BY <1>1, <1>2

\* A keyword with an acceptable value leaves a rule a rule.
LEMMA PairTyped ==
  ASSUME NEW r \in LineRules, NEW key, NEW value \in Word, IsPair(key, value)
  PROVE  WithPair(r, key, value) \in LineRules
<1>0. key \in {"from", "to", "service", "application", "action"}
  BY DEF IsPair
<1>1. CASE key \in {"from", "to"}
  <2>1. value \in DOMAIN ZoneNamed
    BY <1>1 DEF IsPair
  <2>2. ZoneNamed[value] \in Zones
    BY <2>1 DEF ZoneNamed, Zones
  <2> QED
    BY <1>1, <2>2 DEF WithPair, LineRules
<1>2. CASE key = "service"
  <2>1. value = "any" \/ \A w \in Commas[value] : IsService(w)
    BY <1>2 DEF IsPair
  <2>2. Commas[value] \subseteq Word
    BY PolicyLoadAssumption
  <2>3. ServicesOf(value) \in SUBSET Services
    <3>1. CASE value = "any"
      BY <3>1 DEF ServicesOf
    <3>2. CASE value # "any"
      <4>1. \A w \in Commas[value] :
              ServiceOf(w) \in Services
        BY <2>1, <2>2, <3>2, ServiceTyped
      <4>2. ServicesOf(value) = {ServiceOf(w) : w \in Commas[value]}
        BY <3>2 DEF ServicesOf
      <4> QED
        BY <4>1, <4>2
    <3> QED
      BY <3>1, <3>2
  <2>4. WithPair(r, key, value) = [r EXCEPT !.services = @ \cup ServicesOf(value)]
    BY <1>2 DEF WithPair
  <2> QED
    BY <2>3, <2>4 DEF LineRules
<1>3. CASE key = "application"
  <2>1. AppsOf(value) \in SUBSET STRING
    BY PolicyLoadAssumption DEF AppsOf
  <2>2. WithPair(r, key, value) = [r EXCEPT !.applications = @ \cup AppsOf(value)]
    BY <1>3 DEF WithPair
  <2> QED
    BY <2>1, <2>2 DEF LineRules
<1>4. CASE key = "action"
  <2>1. VerdictNamed[value] \in Verdicts
    BY <1>4 DEF IsPair, VerdictNamed, Verdicts
  <2>2. WithPair(r, key, value) = [r EXCEPT !.action = VerdictNamed[value]]
    BY <1>4 DEF WithPair
  <2> QED
    BY <2>1, <2>2 DEF LineRules
<1> QED
  BY <1>0, <1>1, <1>2, <1>3, <1>4

-----------------------------------------------------------------------------
(***************************************************************************)
(* The inductive invariant: what has been read is well formed, and the     *)
(* rule being built is a rule.                                             *)
(***************************************************************************)
Arguments == /\ policy_path \in {"absent", "unreadable", "readable"}
             /\ file \in Files
             /\ call \in {"load_default", "load_file"}
             /\ call = "load_file" => policy_path = "readable"

\* Where parse is in the text.
Position == /\ lineno \in 0 .. Len(text)
            /\ pair \in Nat
            /\ pair > 0 => /\ lineno < Len(text)
                          /\ pair >= 3 /\ pair % 2 = 1
                          /\ IsRuleHead(token)

\* What it has been through.
ReadWell == /\ \A k \in 1 .. lineno : WellFormed(text[k])
            /\ pair > 0 => \A i \in Pairs(token) : i < pair => IsPair(token[i], token[i + 1])

\* How far a call has come when it has ended.
Outcome == /\ status \in {"parsing", "loaded", "failed", "running", "exited"}
           /\ status \in {"loaded", "running"} => lineno = Len(text)
           /\ call = "load_default" => status # "failed"
           /\ status = "running" /\ call = "load_default" => policy_path = "absent"

Tables == zones \in Seq(Routes) /\ rules \in Seq(LineRules) /\ rule \in LineRules

IInv == Arguments /\ Position /\ ReadWell /\ Outcome /\ Tables

\* Lines and words are as the constants say.
LEMMA TextTyped ==
  ASSUME Arguments
  PROVE  /\ text \in Seq(Seq(Word)) /\ Len(text) \in Nat
         /\ \A k \in 1 .. Len(text) : text[k] \in Seq(Word) /\ Len(text[k]) \in Nat
<1>1. text \in Seq(Seq(Word))
  BY PolicyLoadAssumption DEF Arguments, text
<1> QED
  BY <1>1

\* A line that has a keyword of each kind is of no other.
LEMMA RuleLineOnly ==
  ASSUME NEW line, IsRuleHead(line), WellFormed(line)
  PROVE  IsRuleLine(line)
  BY DEF IsRuleHead, WellFormed, IsZoneLine

LEMMA InitIInv == Init => IInv
<1> SUFFICES ASSUME Init PROVE IInv
  OBVIOUS
<1>1. Arguments
  BY DEF Init, Arguments
<1>2. Len(text) \in Nat
  BY <1>1, TextTyped
<1>3. Position /\ ReadWell /\ Outcome
  BY <1>2 DEF Init, Position, ReadWell, Outcome
<1>4. DefaultRule \in LineRules
  BY DEF DefaultRule, LineRules, Zones, Verdicts
<1>5. Tables
  BY <1>4 DEF Init, Tables
<1> QED
  BY <1>1, <1>3, <1>5 DEF IInv

-----------------------------------------------------------------------------
\* A whole line has been read, and it is well formed.
LEMMA LineRead ==
  ASSUME IInv, EndLine, UNCHANGED <<given, call, status>>, status = "parsing",
         lineno < Len(text), WellFormed(token)
  PROVE  Arguments' /\ Position' /\ ReadWell' /\ Outcome'
<1>1. text' = text
  BY DEF text, given
<1>2. Len(text) \in Nat
  BY TextTyped DEF IInv
<1>3. Arguments'
  BY DEF IInv, Arguments, given
<1>4. Position'
  BY <1>1, <1>2 DEF IInv, Position, EndLine
<1>5. ReadWell'
  <2>1. \A k \in 1 .. lineno + 1 : k \in 1 .. lineno \/ k = lineno + 1
    BY DEF IInv, Position
  <2> QED
    BY <1>1, <2>1 DEF IInv, ReadWell, EndLine, token
<1>6. Outcome'
  BY DEF IInv, Outcome
<1> QED
  BY <1>3, <1>4, <1>5, <1>6

LEMMA ZoneLineIInv == IInv /\ ZoneLine => IInv'
<1> SUFFICES ASSUME IInv, ZoneLine PROVE IInv'
  OBVIOUS
<1>1. token \in Seq(Word) /\ Len(token) = 3
  BY TextTyped DEF IInv, Position, ZoneLine, AtLine, IsZoneLine, token
<1>2. token[2] \in DOMAIN ZoneNamed /\ token[3] \in Word /\ IsCidr(token[3])
  <2>1. token[3] \in Word
    BY <1>1
  <2> QED
    BY <2>1 DEF ZoneLine, IsZoneLine
<1>3. RouteOf(token[2], token[3]) \in Routes
  BY <1>2, RouteTyped
<1>4. Tables'
  BY <1>3 DEF IInv, Tables, ZoneLine
<1>5. WellFormed(token)
  BY DEF ZoneLine, WellFormed
<1>6. Arguments' /\ Position' /\ ReadWell' /\ Outcome'
  BY <1>5, LineRead DEF ZoneLine, AtLine
<1> QED
  BY <1>4, <1>6 DEF IInv

LEMMA SkipLineIInv == IInv /\ SkipLine => IInv'
<1> SUFFICES ASSUME IInv, SkipLine PROVE IInv'
  OBVIOUS
<1>1. WellFormed(token)
  BY DEF SkipLine, WellFormed
<1>2. Arguments' /\ Position' /\ ReadWell' /\ Outcome'
  BY <1>1, LineRead DEF SkipLine, AtLine
<1> QED
  BY <1>2 DEF IInv, Tables, SkipLine

LEMMA RuleHeadIInv == IInv /\ RuleHead => IInv'
<1> SUFFICES ASSUME IInv, RuleHead PROVE IInv'
  OBVIOUS
<1>1. text' = text /\ token' = token
  BY DEF RuleHead, text, token, given
<1>2. Arguments' /\ Outcome'
  BY <1>1 DEF IInv, Arguments, Outcome, RuleHead, AtLine, given
<1>3. Position'
  BY <1>1 DEF IInv, Position, RuleHead, AtLine
<1>4. ReadWell'
  BY <1>1 DEF IInv, ReadWell, RuleHead, Pairs
<1>5. DefaultRule \in LineRules
  BY DEF DefaultRule, LineRules, Zones, Verdicts
<1>6. Tables'
  BY <1>5 DEF IInv, Tables, RuleHead
<1> QED
  BY <1>2, <1>3, <1>4, <1>6 DEF IInv

LEMMA PairIInv == IInv /\ Pair => IInv'
<1> SUFFICES ASSUME IInv, Pair PROVE IInv'
  OBVIOUS
<1>1. text' = text /\ token' = token
  BY DEF Pair, text, token, given
<1>2. Arguments' /\ Outcome'
  BY <1>1 DEF IInv, Arguments, Outcome, Pair, given
<1>3. Position'
  BY <1>1 DEF IInv, Position, Pair, AtPair
<1>4. token \in Seq(Word) /\ Len(token) \in Nat
  BY TextTyped DEF IInv, Position, Pair, AtPair, token
<1>5. pair \in 1 .. Len(token) /\ pair + 1 \in 1 .. Len(token)
  BY <1>4 DEF IInv, Position, Pair, AtPair
<1>6. ReadWell'
  <2>1. ASSUME NEW i \in Pairs(token), i < pair + 2 PROVE IsPair(token[i], token[i + 1])
    <3>1. i \in Nat /\ i % 2 = 1 /\ pair \in Nat /\ pair % 2 = 1
      BY <1>4 DEF Pairs, IInv, Position, Pair, AtPair
    <3>2. i < pair \/ i = pair
      BY <2>1, <3>1, SMT
    <3> QED
      BY <2>1, <3>2 DEF IInv, ReadWell, Pair, AtPair
  <2> QED
    BY <1>1, <2>1 DEF IInv, ReadWell, Pair
<1>7. Tables'
  <2>1. token[pair + 1] \in Word
    BY <1>4, <1>5
  <2>2. WithPair(rule, token[pair], token[pair + 1]) \in LineRules
    BY <2>1, PairTyped DEF IInv, Tables, Pair
  <2> QED
    BY <2>2 DEF IInv, Tables, Pair
<1> QED
  BY <1>2, <1>3, <1>6, <1>7 DEF IInv

\* A rule line whose keywords have all been accepted is well formed.
LEMMA RuleEndIInv == IInv /\ RuleEnd => IInv'
<1> SUFFICES ASSUME IInv, RuleEnd PROVE IInv'
  OBVIOUS
<1>1. \A i \in Pairs(token) : i < pair
  BY TextTyped DEF IInv, Position, RuleEnd, AtPair, Pairs, token
<1>2. WellFormed(token)
  BY <1>1 DEF IInv, Position, ReadWell, RuleEnd, AtPair, WellFormed, IsRuleLine
<1>3. lineno < Len(text)
  BY DEF IInv, Position, RuleEnd, AtPair
<1>4. Arguments' /\ Position' /\ ReadWell' /\ Outcome'
  BY <1>2, <1>3, LineRead DEF RuleEnd, AtPair
<1>5. Tables'
  BY DEF IInv, Tables, RuleEnd
<1> QED
  BY <1>4, <1>5 DEF IInv

\* The built-in text has no bad line.
LEMMA BadLineIInv == IInv /\ BadLine => IInv'
<1> SUFFICES ASSUME IInv, BadLine PROVE IInv'
  OBVIOUS
<1>1. text' = text /\ token' = token
  BY DEF BadLine, text, token, given
<1>2. lineno < Len(text) /\ status = "parsing"
  BY DEF BadLine, AtLine, AtPair, IInv, Position
<1>3. ~WellFormed(token)
  <2>1. CASE AtLine /\ token # <<>> /\ ~IsZoneLine(token) /\ ~IsRuleHead(token)
    BY <2>1 DEF WellFormed, IsRuleLine
  <2>2. CASE AtPair /\ pair < Len(token) /\ ~IsPair(token[pair], token[pair + 1])
    <3>1. pair \in Pairs(token)
      BY <2>2, TextTyped DEF Pairs, IInv, Position, AtPair, token
    <3>2. IsRuleHead(token)
      BY <2>2 DEF IInv, Position, AtPair
    <3> QED
      BY <2>2, <3>1, <3>2, RuleLineOnly DEF IsRuleLine
  <2> QED
    BY <2>1, <2>2 DEF BadLine
<1>4. call # "load_default"
  <2>1. ASSUME call = "load_default" PROVE FALSE
    <3>1. text = Builtin
      BY <2>1 DEF text
    <3>2. lineno + 1 \in DOMAIN Builtin
      BY <1>2, <3>1, TextTyped DEF IInv, Position
    <3> QED
      BY <1>3, <3>1, <3>2, BuiltinAssumption DEF token
  <2> QED
    BY <2>1
<1>5. Arguments' /\ Outcome'
  BY <1>1, <1>4 DEF IInv, Arguments, Outcome, BadLine, given
<1>6. Position' /\ ReadWell'
  BY <1>1 DEF IInv, Position, ReadWell, BadLine
<1> QED
  BY <1>5, <1>6 DEF IInv, Tables, BadLine

LEMMA LoadFileIInv == IInv /\ LoadFile => IInv'
<1> SUFFICES ASSUME IInv, LoadFile PROVE IInv'
  OBVIOUS
<1>1. Arguments'
  BY DEF IInv, Arguments, LoadFile, given
<1>2. text' = file /\ Len(file) \in Nat
  BY PolicyLoadAssumption DEF LoadFile, text, IInv, Arguments, given
<1>3. Position' /\ ReadWell' /\ Outcome'
  BY <1>2 DEF Position, ReadWell, Outcome, LoadFile
<1> QED
  BY <1>1, <1>3 DEF IInv, Tables, LoadFile

\* The steps that leave the tables and the place in the text alone.
LEMMA VerdictIInv ==
  ASSUME IInv, EndOfText \/ Run \/ Refuse \/ UNCHANGED vars
  PROVE  IInv'
<1>1. UNCHANGED <<policy_path, file, call, lineno, pair, rule, zones, rules>>
  BY DEF EndOfText, Run, Refuse, vars, given
<1>2. text' = text /\ token' = token
  BY <1>1 DEF text, token
<1>3. Arguments' /\ Position' /\ ReadWell' /\ Tables'
  BY <1>1, <1>2 DEF IInv, Arguments, Position, ReadWell, Tables
<1>4. Outcome'
  <2>1. CASE EndOfText
    BY <1>1, <1>2, <2>1 DEF IInv, Outcome, EndOfText
  <2>2. CASE Run
    BY <1>1, <1>2, <2>2 DEF IInv, Arguments, Outcome, Run, Parsed
  <2>3. CASE Refuse
    BY <1>1, <1>2, <2>3 DEF IInv, Outcome, Refuse
  <2>4. CASE UNCHANGED vars
    BY <1>1, <1>2, <2>4 DEF IInv, Outcome, vars
  <2> QED
    BY <2>1, <2>2, <2>3, <2>4
<1> QED
  BY <1>3, <1>4 DEF IInv

LEMMA NextIInv == IInv /\ [Next]_vars => IInv'
  BY SkipLineIInv, ZoneLineIInv, RuleHeadIInv, PairIInv, RuleEndIInv, BadLineIInv, LoadFileIInv,
     VerdictIInv DEF Next

-----------------------------------------------------------------------------
\* The rule base always has the types that Policy assumes of its tables
\* (PolicyAssumption): whatever a text holds, and wherever parse stops in it.
THEOREM RuleBaseIsTyped == Spec => []BaseIsTyped
<1>1. IInv => BaseIsTyped
  BY TypesAreFixed DEF IInv, Tables
<1> QED
  BY InitIInv, NextIInv, <1>1, PTL DEF Spec

\* main never runs on a rule base that parse has left half read.
THEOREM PartialBaseNeverRuns == Spec => []OnlyWholeTextRuns
<1>1. IInv => OnlyWholeTextRuns
  <2> SUFFICES ASSUME IInv, status = "running"
               PROVE  /\ policy_path = IF call = "load_file" THEN "readable" ELSE "absent"
                      /\ \A k \in DOMAIN text : WellFormed(text[k])
    BY DEF OnlyWholeTextRuns
  <2>1. DOMAIN text = 1 .. lineno
    BY TextTyped DEF IInv, Outcome
  <2>2. policy_path = IF call = "load_file" THEN "readable" ELSE "absent"
    BY DEF IInv, Arguments, Outcome
  <2> QED
    BY <2>1, <2>2 DEF IInv, ReadWell
<1> QED
  BY InitIInv, NextIInv, <1>1, PTL DEF Spec
-----------------------------------------------------------------------------
(***************************************************************************)
(* What a line means, keyword by keyword.                                  *)
(***************************************************************************)
LEMMA MaxIs ==
  ASSUME NEW S \in SUBSET Nat, NEW m \in S, \A j \in S : m >= j
  PROVE  Max(S) = m
<1>1. \E x \in S : \A y \in S : x >= y
  OBVIOUS
<1>2. Max(S) \in S /\ \A y \in S : Max(S) >= y
  BY <1>1, Zenon DEF Max
<1>3. Max(S) >= m /\ m >= Max(S) /\ m \in Nat /\ Max(S) \in Nat
  BY <1>2
<1> QED
  BY <1>3

\* Reading a keyword and its value adds one place to those under that keyword.
LEMMA UnderNext ==
  ASSUME NEW line, NEW p \in Pairs(line), NEW key, Len(line) \in Nat
  PROVE  Under(line, key, p + 2) =
           IF line[p] = key THEN Under(line, key, p) \cup {p} ELSE Under(line, key, p)
<1>1. \A i \in Pairs(line) : i < p + 2 <=> i < p \/ i = p
  BY SMT DEF Pairs
<1> QED
  BY <1>1 DEF Under

LEMMA LastValueNext ==
  ASSUME NEW line, NEW p \in Pairs(line), NEW key, NEW default, Len(line) \in Nat
  PROVE  LastValue(line, key, p + 2, default) =
           IF line[p] = key THEN line[p + 1] ELSE LastValue(line, key, p, default)
<1>1. CASE line[p] = key
  <2>1. Under(line, key, p + 2) = Under(line, key, p) \cup {p}
    BY <1>1, UnderNext
  <2>2. Under(line, key, p + 2) \in SUBSET Nat /\ \A j \in Under(line, key, p + 2) : p >= j
    BY <2>1 DEF Under, Pairs
  <2>3. Max(Under(line, key, p + 2)) = p /\ Under(line, key, p + 2) # {}
    BY <2>1, <2>2, MaxIs
  <2>4. LastValue(line, key, p + 2, default) = line[1 + p]
    BY <2>3 DEF LastValue
  <2>5. 1 + p = p + 1
    BY DEF Pairs
  <2> QED
    BY <1>1, <2>4, <2>5
<1>2. CASE line[p] # key
  <2>1. Under(line, key, p + 2) = Under(line, key, p)
    BY <1>2, UnderNext
  <2> QED
    BY <1>2, <2>1 DEF LastValue
<1> QED
  BY <1>1, <1>2

LEMMA UnionOneMore ==
  ASSUME NEW X, NEW y
  PROVE  UNION (X \cup {y}) = (UNION X) \cup y
  OBVIOUS

\* The lists of a rule line add up.
LEMMA ListsNext ==
  ASSUME NEW line, NEW p \in Pairs(line), Len(line) \in Nat
  PROVE  /\ UNION {ServicesOf(line[i + 1]) : i \in Under(line, "service", p + 2)} =
              (UNION {ServicesOf(line[i + 1]) : i \in Under(line, "service", p)})
                \cup (IF line[p] = "service" THEN ServicesOf(line[p + 1]) ELSE {})
         /\ UNION {AppsOf(line[i + 1]) : i \in Under(line, "application", p + 2)} =
              (UNION {AppsOf(line[i + 1]) : i \in Under(line, "application", p)})
                \cup (IF line[p] = "application" THEN AppsOf(line[p + 1]) ELSE {})
<1> DEFINE S == Under(line, "service", p)
           A == Under(line, "application", p)
<1>1. Under(line, "service", p + 2) = IF line[p] = "service" THEN S \cup {p} ELSE S
  BY UnderNext
<1>2. Under(line, "application", p + 2) = IF line[p] = "application" THEN A \cup {p} ELSE A
  BY UnderNext
<1> HIDE DEF S, A
<1>3. UNION {ServicesOf(line[i + 1]) : i \in Under(line, "service", p + 2)} =
        (UNION {ServicesOf(line[i + 1]) : i \in S})
          \cup (IF line[p] = "service" THEN ServicesOf(line[p + 1]) ELSE {})
  <2>1. CASE line[p] = "service"
    <3>1. {ServicesOf(line[i + 1]) : i \in S \cup {p}} =
            {ServicesOf(line[i + 1]) : i \in S} \cup {ServicesOf(line[p + 1])}
      OBVIOUS
    <3>2. UNION {ServicesOf(line[i + 1]) : i \in S \cup {p}} =
            (UNION {ServicesOf(line[i + 1]) : i \in S}) \cup ServicesOf(line[p + 1])
      BY <3>1, UnionOneMore
    <3> QED
      BY <1>1, <2>1, <3>2
  <2>2. CASE line[p] # "service"
    BY <1>1, <2>2
  <2> QED
    BY <2>1, <2>2
<1>4. UNION {AppsOf(line[i + 1]) : i \in Under(line, "application", p + 2)} =
        (UNION {AppsOf(line[i + 1]) : i \in A})
          \cup (IF line[p] = "application" THEN AppsOf(line[p + 1]) ELSE {})
  <2>1. CASE line[p] = "application"
    <3>1. {AppsOf(line[i + 1]) : i \in A \cup {p}} =
            {AppsOf(line[i + 1]) : i \in A} \cup {AppsOf(line[p + 1])}
      OBVIOUS
    <3>2. UNION {AppsOf(line[i + 1]) : i \in A \cup {p}} =
            (UNION {AppsOf(line[i + 1]) : i \in A}) \cup AppsOf(line[p + 1])
      BY <3>1, UnionOneMore
    <3> QED
      BY <1>2, <2>1, <3>2
  <2>2. CASE line[p] # "application"
    BY <1>2, <2>2
  <2> QED
    BY <2>1, <2>2
<1> QED
  BY <1>3, <1>4 DEF S, A

\* Nothing is said before the first keyword.
LEMMA MeaningStarts ==
  ASSUME NEW line
  PROVE  MeaningBefore(line, 3) = DefaultRule
<1>1. \A key : Under(line, key, 3) = {}
  BY DEF Under, Pairs
<1>2. /\ LastValue(line, "from", 3, "any") = "any"
      /\ LastValue(line, "to", 3, "any") = "any"
      /\ LastValue(line, "action", 3, "deny") = "deny"
  BY <1>1 DEF LastValue
<1>3. ZoneNamed["any"] = "Any" /\ VerdictNamed["deny"] = "Deny"
  BY DEF ZoneNamed, VerdictNamed
<1>4. /\ UNION {ServicesOf(line[i + 1]) : i \in Under(line, "service", 3)} = {}
      /\ UNION {AppsOf(line[i + 1]) : i \in Under(line, "application", 3)} = {}
  BY <1>1
<1> QED
  BY <1>2, <1>3, <1>4 DEF MeaningBefore, DefaultRule

\* One turn of the loop of a rule line takes the meaning one keyword further.
LEMMA MeaningNext ==
  ASSUME NEW line, NEW p \in Pairs(line), Len(line) \in Nat, IsPair(line[p], line[p + 1])
  PROVE  MeaningBefore(line, p + 2) = WithPair(MeaningBefore(line, p), line[p], line[p + 1])
<1> DEFINE m == MeaningBefore(line, p)
           n == MeaningBefore(line, p + 2)
<1>1. line[p] \in {"from", "to", "service", "application", "action"}
  BY DEF IsPair
<1>2. n = [from |-> n.from, to |-> n.to, action |-> n.action,
           services |-> n.services, applications |-> n.applications]
  BY DEF MeaningBefore
<1>3. m = [from |-> m.from, to |-> m.to, action |-> m.action,
           services |-> m.services, applications |-> m.applications]
  BY DEF MeaningBefore
<1>4. /\ n.from = IF line[p] = "from" THEN ZoneNamed[line[p + 1]] ELSE m.from
      /\ n.to = IF line[p] = "to" THEN ZoneNamed[line[p + 1]] ELSE m.to
      /\ n.action = IF line[p] = "action" THEN VerdictNamed[line[p + 1]] ELSE m.action
  BY LastValueNext DEF MeaningBefore
<1>5. /\ n.services = m.services
           \cup (IF line[p] = "service" THEN ServicesOf(line[p + 1]) ELSE {})
      /\ n.applications = m.applications
           \cup (IF line[p] = "application" THEN AppsOf(line[p + 1]) ELSE {})
  <2>1. n.services = UNION {ServicesOf(line[i + 1]) : i \in Under(line, "service", p + 2)}
        /\ m.services = UNION {ServicesOf(line[i + 1]) : i \in Under(line, "service", p)}
    BY DEF MeaningBefore
  <2>2. n.applications = UNION {AppsOf(line[i + 1]) : i \in Under(line, "application", p + 2)}
        /\ m.applications = UNION {AppsOf(line[i + 1]) : i \in Under(line, "application", p)}
    BY DEF MeaningBefore
  <2>3. /\ UNION {ServicesOf(line[i + 1]) : i \in Under(line, "service", p + 2)} =
             (UNION {ServicesOf(line[i + 1]) : i \in Under(line, "service", p)})
               \cup (IF line[p] = "service" THEN ServicesOf(line[p + 1]) ELSE {})
        /\ UNION {AppsOf(line[i + 1]) : i \in Under(line, "application", p + 2)} =
             (UNION {AppsOf(line[i + 1]) : i \in Under(line, "application", p)})
               \cup (IF line[p] = "application" THEN AppsOf(line[p + 1]) ELSE {})
    BY ListsNext, Zenon
  <2> HIDE DEF m, n
  <2> QED
    BY <2>1, <2>2, <2>3, Zenon
<1> HIDE DEF m, n
<1>6. CASE line[p] = "from"
  BY <1>2, <1>3, <1>4, <1>5, <1>6 DEF WithPair, m, n
<1> QED
  BY <1>1, <1>2, <1>3, <1>4, <1>5, <1>6 DEF WithPair, m, n

\* A last word without its value says nothing.
LEMMA MeaningEnds ==
  ASSUME NEW line, NEW p \in Nat, Len(line) \in Nat, p >= Len(line)
  PROVE  MeaningBefore(line, p) = Meaning(line)
<1>1. \A key : Under(line, key, p) = Under(line, key, Len(line))
  BY DEF Under, Pairs
<1>2. \A key, default : LastValue(line, key, p, default) = LastValue(line, key, Len(line), default)
  BY <1>1 DEF LastValue
<1>3. /\ UNION {ServicesOf(line[i + 1]) : i \in Under(line, "service", p)} =
           UNION {ServicesOf(line[i + 1]) : i \in Under(line, "service", Len(line))}
      /\ UNION {AppsOf(line[i + 1]) : i \in Under(line, "application", p)} =
           UNION {AppsOf(line[i + 1]) : i \in Under(line, "application", Len(line))}
  BY <1>1
<1> QED
  BY <1>2, <1>3 DEF MeaningBefore, Meaning

-----------------------------------------------------------------------------
(***************************************************************************)
(* A table that has one entry for each of the chosen lines, in their       *)
(* order.                                                                  *)
(***************************************************************************)
UpTo(chosen, n) == {k \in 1 .. n : k \in chosen}

Lists(table, chosen, n, entry) ==
  /\ Len(table) = Cardinality(UpTo(chosen, n))
  /\ \A k \in UpTo(chosen, n) : table[Cardinality(UpTo(chosen, k))] = entry[k]

LEMMA UpToIsFinite ==
  ASSUME NEW chosen, NEW n \in Nat
  PROVE  IsFiniteSet(UpTo(chosen, n)) /\ Cardinality(UpTo(chosen, n)) \in Nat
<1>1. IsFiniteSet(1 .. n) /\ UpTo(chosen, n) \in SUBSET (1 .. n)
  BY FS_Interval DEF UpTo
<1> QED
  BY <1>1, FS_Subset, FS_CardinalityType

\* A chosen line has its place among those up to any later line.
LEMMA PlaceAmong ==
  ASSUME NEW chosen, NEW n \in Nat, NEW k \in UpTo(chosen, n)
  PROVE  Cardinality(UpTo(chosen, k)) \in 1 .. Cardinality(UpTo(chosen, n))
<1>1. k \in Nat /\ k \in UpTo(chosen, k) /\ UpTo(chosen, k) \in SUBSET UpTo(chosen, n)
  BY DEF UpTo
<1>2. Cardinality(UpTo(chosen, k)) <= Cardinality(UpTo(chosen, n))
  BY <1>1, UpToIsFinite, FS_Subset
<1>3. Cardinality(UpTo(chosen, k)) # 0
  BY <1>1, UpToIsFinite, FS_EmptySet
<1> QED
  BY <1>1, <1>2, <1>3, UpToIsFinite

LEMMA ListsNothing ==
  ASSUME NEW chosen, NEW entry
  PROVE  Lists(<<>>, chosen, 0, entry)
<1>1. UpTo(chosen, 0) = {}
  BY DEF UpTo
<1> QED
  BY <1>1, FS_EmptySet DEF Lists

LEMMA LineNotListed ==
  ASSUME NEW table, NEW chosen, NEW n \in Nat, NEW entry, n + 1 \notin chosen,
         Lists(table, chosen, n, entry)
  PROVE  Lists(table, chosen, n + 1, entry)
<1>1. UpTo(chosen, n + 1) = UpTo(chosen, n)
  BY DEF UpTo
<1> QED
  BY <1>1 DEF Lists

LEMMA LineListed ==
  ASSUME NEW S, NEW table \in Seq(S), NEW chosen, NEW n \in Nat, NEW entry, n + 1 \in chosen,
         Lists(table, chosen, n, entry)
  PROVE  Lists(Append(table, entry[n + 1]), chosen, n + 1, entry)
<1> DEFINE longer == Append(table, entry[n + 1])
<1>1. UpTo(chosen, n + 1) = UpTo(chosen, n) \cup {n + 1} /\ n + 1 \notin UpTo(chosen, n)
  BY DEF UpTo
<1>2. Cardinality(UpTo(chosen, n + 1)) = Cardinality(UpTo(chosen, n)) + 1
  BY <1>1, UpToIsFinite, FS_AddElement
<1>3. Len(table) = Cardinality(UpTo(chosen, n)) /\ Len(table) \in Nat
  BY DEF Lists
<1>4. Len(longer) = Len(table) + 1 /\ longer[Len(table) + 1] = entry[n + 1]
      /\ \A i \in 1 .. Len(table) : longer[i] = table[i]
  BY <1>3
<1> HIDE DEF longer
<1>5. ASSUME NEW k \in UpTo(chosen, n)
      PROVE  longer[Cardinality(UpTo(chosen, k))] = entry[k]
  <2>1. Cardinality(UpTo(chosen, k)) \in 1 .. Len(table)
    BY <1>3, PlaceAmong
  <2> QED
    BY <1>4, <2>1 DEF Lists
<1>6. longer[Cardinality(UpTo(chosen, n + 1))] = entry[n + 1]
  BY <1>2, <1>3, <1>4
<1>7. Lists(longer, chosen, n + 1, entry)
  BY <1>1, <1>2, <1>3, <1>4, <1>5, <1>6 DEF Lists
<1> QED
  BY <1>7 DEF longer

-----------------------------------------------------------------------------
(***************************************************************************)
(* The inductive invariant of the tables: they are what the lines behind   *)
(* declare, and the rule being built is what its line has said so far.     *)
(***************************************************************************)
Declared == /\ ZonesDeclared(lineno) /\ RulesDeclared(lineno)
            /\ pair > 0 => rule = MeaningBefore(token, pair)

DeclaredInv == IInv /\ Declared

ZoneLinesOf(lines) == {k \in Nat : IsZoneLine(lines[k])}
RuleLinesOf(lines) == {k \in Nat : IsRuleHead(lines[k])}
RoutesOf(lines)    == [k \in Nat |-> RouteOf(lines[k][2], lines[k][3])]
MeaningsOf(lines)  == [k \in Nat |-> Meaning(lines[k])]

LEMMA DeclaredAsLists ==
  ASSUME NEW n \in Nat
  PROVE  /\ ZonesDeclared(n) <=> Lists(zones, ZoneLinesOf(text), n, RoutesOf(text))
         /\ RulesDeclared(n) <=> Lists(rules, RuleLinesOf(text), n, MeaningsOf(text))
<1>1. \A k \in Nat : /\ ZoneLines(k) = UpTo(ZoneLinesOf(text), k)
                     /\ RuleLines(k) = UpTo(RuleLinesOf(text), k)
  BY DEF ZoneLines, RuleLines, UpTo, ZoneLinesOf, RuleLinesOf
<1>2. \A k \in ZoneLines(n) \cup RuleLines(n) : k \in Nat
  BY DEF ZoneLines, RuleLines
<1>3. ZonesDeclared(n) <=> Lists(zones, ZoneLinesOf(text), n, RoutesOf(text))
  BY <1>1, <1>2 DEF ZonesDeclared, Lists, RoutesOf
<1>4. RulesDeclared(n) <=> Lists(rules, RuleLinesOf(text), n, MeaningsOf(text))
  BY <1>1, <1>2 DEF RulesDeclared, Lists, MeaningsOf
<1> QED
  BY <1>3, <1>4

\* The same of the next state, in which the text is what it was.
LEMMA DeclaredAsListsNext ==
  ASSUME NEW n \in Nat, UNCHANGED text
  PROVE  /\ ZonesDeclared(n)' <=> Lists(zones', ZoneLinesOf(text), n, RoutesOf(text))
         /\ RulesDeclared(n)' <=> Lists(rules', RuleLinesOf(text), n, MeaningsOf(text))
<1>1. \A k \in Nat : /\ ZoneLines(k)' = UpTo(ZoneLinesOf(text), k)
                     /\ RuleLines(k)' = UpTo(RuleLinesOf(text), k)
  BY DEF ZoneLines, RuleLines, UpTo, ZoneLinesOf, RuleLinesOf
<1>2. \A k \in ZoneLines(n)' \cup RuleLines(n)' : k \in Nat
  BY DEF ZoneLines, RuleLines
<1>3. ZonesDeclared(n)' <=> Lists(zones', ZoneLinesOf(text), n, RoutesOf(text))
  BY <1>1, <1>2 DEF ZonesDeclared, Lists, RoutesOf
<1>4. RulesDeclared(n)' <=> Lists(rules', RuleLinesOf(text), n, MeaningsOf(text))
  BY <1>1, <1>2 DEF RulesDeclared, Lists, MeaningsOf
<1> QED
  BY <1>3, <1>4

LEMMA InitDeclared == Init => DeclaredInv
<1> SUFFICES ASSUME Init PROVE DeclaredInv
  OBVIOUS
<1>1. ZonesDeclared(0) /\ RulesDeclared(0)
  BY DeclaredAsLists, ListsNothing DEF Init
<1> QED
  BY <1>1, InitIInv DEF Init, DeclaredInv, Declared

\* The line behind which parse comes has been dealt with as it declares.
LEMMA LineDeclared ==
  ASSUME IInv, Declared, EndLine, UNCHANGED <<given, call>>,
         zones' = IF IsZoneLine(token) THEN Append(zones, RouteOf(token[2], token[3])) ELSE zones,
         rules' = IF IsRuleHead(token) THEN Append(rules, Meaning(token)) ELSE rules
  PROVE  Declared'
<1>1. lineno \in Nat /\ UNCHANGED text
  BY TextTyped DEF IInv, Position, text, given
<1>2. /\ zones \in Seq(Routes) /\ rules \in Seq(LineRules)
      /\ Lists(zones, ZoneLinesOf(text), lineno, RoutesOf(text))
      /\ Lists(rules, RuleLinesOf(text), lineno, MeaningsOf(text))
  BY <1>1, DeclaredAsLists DEF IInv, Tables, Declared
<1>3. /\ RoutesOf(text)[lineno + 1] = RouteOf(token[2], token[3])
      /\ MeaningsOf(text)[lineno + 1] = Meaning(token)
      /\ lineno + 1 \in ZoneLinesOf(text) <=> IsZoneLine(token)
      /\ lineno + 1 \in RuleLinesOf(text) <=> IsRuleHead(token)
  BY <1>1 DEF RoutesOf, MeaningsOf, ZoneLinesOf, RuleLinesOf, token
<1>4. Lists(zones', ZoneLinesOf(text), lineno + 1, RoutesOf(text))
  <2>1. CASE IsZoneLine(token)
    BY <1>1, <1>2, <1>3, <2>1, LineListed
  <2>2. CASE ~IsZoneLine(token)
    BY <1>1, <1>2, <1>3, <2>2, LineNotListed
  <2> QED
    BY <2>1, <2>2
<1>5. Lists(rules', RuleLinesOf(text), lineno + 1, MeaningsOf(text))
  <2>1. CASE IsRuleHead(token)
    BY <1>1, <1>2, <1>3, <2>1, LineListed
  <2>2. CASE ~IsRuleHead(token)
    BY <1>1, <1>2, <1>3, <2>2, LineNotListed
  <2> QED
    BY <2>1, <2>2
<1>6. lineno' \in Nat /\ lineno' = lineno + 1 /\ pair' = 0
  BY <1>1 DEF EndLine
<1>7. ZonesDeclared(lineno)' /\ RulesDeclared(lineno)'
  BY <1>1, <1>4, <1>5, <1>6, DeclaredAsListsNext
<1> QED
  BY <1>6, <1>7 DEF Declared

\* The steps that add nothing to the tables.
LEMMA SameTables ==
  ASSUME IInv, Declared, UNCHANGED <<given, call, lineno, zones, rules>>,
         pair' > 0 => rule' = MeaningBefore(token, pair')
  PROVE  Declared'
<1>1. lineno \in Nat /\ UNCHANGED <<text, token>>
  BY TextTyped DEF IInv, Position, text, token, given
<1>2. ZonesDeclared(lineno)' /\ RulesDeclared(lineno)'
  BY <1>1, DeclaredAsLists, DeclaredAsListsNext DEF Declared
<1> QED
  BY <1>1, <1>2 DEF Declared

LEMMA NextDeclared == DeclaredInv /\ [Next]_vars => DeclaredInv'
<1> SUFFICES ASSUME DeclaredInv, [Next]_vars PROVE Declared'
  BY NextIInv DEF DeclaredInv
<1> USE DEF DeclaredInv
<1>0. (token \in Seq(Word) /\ Len(token) \in Nat) \/ lineno = Len(text)
  BY TextTyped DEF IInv, Position, token
<1>1. CASE SkipLine
  <2>1. ~IsZoneLine(token) /\ ~IsRuleHead(token)
    BY <1>1 DEF SkipLine, IsZoneLine, IsRuleHead
  <2> QED
    BY <1>1, <2>1, LineDeclared DEF SkipLine
<1>2. CASE ZoneLine
  <2>1. ~IsRuleHead(token)
    BY <1>2 DEF ZoneLine, IsZoneLine, IsRuleHead
  <2> QED
    BY <1>2, <2>1, LineDeclared DEF ZoneLine
<1>3. CASE RuleHead
  BY <1>3, MeaningStarts, SameTables DEF RuleHead
<1>4. CASE Pair
  <2>1. Len(token) \in Nat /\ pair \in Pairs(token) /\ pair > 0
    BY <1>0, <1>4 DEF Pair, AtPair, IInv, Position, Pairs
  <2>2. rule' = MeaningBefore(token, pair + 2)
    BY <1>4, <2>1, MeaningNext DEF Pair, Declared
  <2> QED
    BY <1>4, <2>2, SameTables DEF Pair
<1>5. CASE RuleEnd
  <2>1. /\ Len(token) \in Nat /\ pair \in Nat /\ pair > 0 /\ pair >= Len(token)
        /\ IsRuleHead(token)
    BY <1>0, <1>5 DEF RuleEnd, AtPair, IInv, Position
  <2>2. rule = Meaning(token)
    BY <2>1, MeaningEnds DEF Declared
  <2>3. ~IsZoneLine(token)
    BY <2>1 DEF IsZoneLine, IsRuleHead
  <2> QED
    BY <1>5, <2>1, <2>2, <2>3, LineDeclared DEF RuleEnd
<1>6. CASE LoadFile
  <2>1. zones' = <<>> /\ rules' = <<>> /\ lineno' = 0 /\ pair' = 0
    BY <1>6 DEF LoadFile
  <2>2. ZoneLines(0)' = {} /\ RuleLines(0)' = {}
    BY DEF ZoneLines, RuleLines
  <2>3. ZonesDeclared(0)' /\ RulesDeclared(0)'
    BY <2>1, <2>2, FS_EmptySet DEF ZonesDeclared, RulesDeclared
  <2> QED
    BY <2>1, <2>3 DEF Declared
<1>7. CASE BadLine \/ EndOfText \/ Run \/ Refuse \/ UNCHANGED vars
  <2>1. UNCHANGED <<given, call, lineno, pair, rule, zones, rules>>
    BY <1>7 DEF BadLine, EndOfText, Run, Refuse, vars, given
  <2> QED
    BY <2>1, SameTables DEF Declared
<1> QED
  BY <1>1, <1>2, <1>3, <1>4, <1>5, <1>6, <1>7 DEF Next

\* What main runs on is what the text says, line by line and keyword by keyword, and
\* nothing of the policy that was there before.
THEOREM WhatRunsIsDeclared == Spec => []LoadedIsDeclared
<1>1. DeclaredInv => LoadedIsDeclared
  BY DEF DeclaredInv, Declared, IInv, Outcome, LoadedIsDeclared
<1> QED
  BY InitDeclared, NextDeclared, <1>1, PTL DEF Spec

-----------------------------------------------------------------------------
(***************************************************************************)
(* The lookups only read the rule base.                                    *)
(***************************************************************************)
LEMMA LookupSteps == [LookupNext]_<<vars, lookup>> => [Next]_vars
  BY DEF LookupNext, AskZone, AskRule, Call, ZoneTurn, RuleTurn

-----------------------------------------------------------------------------
(***************************************************************************)
(* The inductive invariant of the loops: what is behind a loop has been    *)
(* judged as its result says.                                              *)
(***************************************************************************)
\* What is known of the zone once the loop has been through n routes.
BestBehind(n) ==
  \/ best = NoRoute /\ \A j \in 1 .. n : ~Base!Contains(zones[j], asked.ip)
  \/ \E i \in 1 .. n :
       /\ Base!Contains(zones[i], asked.ip)
       /\ best = [prefix |-> zones[i].prefix, zone |-> zones[i].zone]
       /\ \A j \in 1 .. n : Base!Contains(zones[j], asked.ip) => Base!AtLeastAsGood(i, j)

Takes(i) == Base!RuleMatches(rules[i], asked.from, asked.to, asked.proto, asked.port, asked.app)

Calling == /\ inside \in {"nothing", "zone_for", "zone_found", "evaluate", "rule_found"}
           /\ inside # "nothing" => status = "running"

ZoneLoop == /\ inside = "zone_for" => turn \in 0 .. Len(zones) /\ BestBehind(turn)
            /\ inside = "zone_found" => BestBehind(Len(zones))

RuleLoop == /\ inside = "evaluate" => turn \in 0 .. Len(rules) /\ \A j \in 1 .. turn : ~Takes(j)
            /\ inside = "rule_found" =>
                 decision = Base!Evaluate(asked.from, asked.to, asked.proto, asked.port, asked.app)

LookupInv == IInv /\ Calling /\ ZoneLoop /\ RuleLoop

\* The tests that pass a rule over are those that it does not match.
LEMMA PassedOverIsNoMatch ==
  ASSUME NEW r
  PROVE  PassedOver(r) <=>
           ~Base!RuleMatches(r, asked.from, asked.to, asked.proto, asked.port, asked.app)
  BY DEF PassedOver, Base!RuleMatches, Base!ApplicationMatches

LEMMA BaseMinIs ==
  ASSUME NEW S \in SUBSET Nat, NEW m \in S, \A j \in S : m <= j
  PROVE  Base!Min(S) = m
<1>1. Base!Min(S) \in S /\ \A y \in S : Base!Min(S) <= y
  BY Zenon DEF Base!Min
<1>2. Base!Min(S) <= m /\ m <= Base!Min(S) /\ m \in Nat /\ Base!Min(S) \in Nat
  BY <1>1
<1> QED
  BY <1>2

\* A route that is at least as good as each that covers the address gives its zone.
LEMMA BestIsTheZone ==
  ASSUME Tables, NEW ip, NEW i \in Base!Covering(ip),
         \A j \in Base!Covering(ip) : Base!AtLeastAsGood(i, j)
  PROVE  Base!ZoneFor(ip) = zones[i].zone
<1> DEFINE first == CHOOSE k \in Base!Covering(ip) :
                      \A j \in Base!Covering(ip) : Base!AtLeastAsGood(k, j)
<1>1. first \in Base!Covering(ip) /\ \A j \in Base!Covering(ip) : Base!AtLeastAsGood(first, j)
  BY Zenon
<1>2. Base!ZoneFor(ip) = zones[first].zone
  BY DEF Base!ZoneFor
<1> HIDE DEF first
<1>3. \A k \in Base!Covering(ip) : k \in Nat /\ zones[k].prefix \in Nat
  <2>1. \A k \in DOMAIN zones : k \in Nat /\ zones[k] \in Routes
    BY DEF Tables
  <2> QED
    BY <2>1, PolicyLoadAssumption DEF Base!Covering, Routes, Prefix
<1>4. Base!AtLeastAsGood(i, first) /\ Base!AtLeastAsGood(first, i)
  BY <1>1
<1>5. first = i
  BY <1>1, <1>3, <1>4 DEF Base!AtLeastAsGood
<1> QED
  BY <1>2, <1>5

\* At the end of the loop the best route is that of Policy.
LEMMA ZoneFound ==
  ASSUME Tables, BestBehind(Len(zones))
  PROVE  best.zone = Base!ZoneFor(asked.ip)
<1>1. Base!Covering(asked.ip) = {k \in 1 .. Len(zones) : Base!Contains(zones[k], asked.ip)}
  BY DEF Base!Covering, Tables
<1>2. CASE best = NoRoute /\ \A j \in 1 .. Len(zones) : ~Base!Contains(zones[j], asked.ip)
  BY <1>1, <1>2 DEF Base!ZoneFor, NoRoute
<1>3. ASSUME NEW i \in 1 .. Len(zones),
             Base!Contains(zones[i], asked.ip),
             best = [prefix |-> zones[i].prefix, zone |-> zones[i].zone],
             \A j \in 1 .. Len(zones) :
               Base!Contains(zones[j], asked.ip) => Base!AtLeastAsGood(i, j)
      PROVE  best.zone = Base!ZoneFor(asked.ip)
  <2>1. Base!ZoneFor(asked.ip) = zones[i].zone
    BY <1>1, <1>3, BestIsTheZone
  <2> QED
    BY <1>3, <2>1
<1> QED
  BY <1>2, <1>3 DEF BestBehind

\* The first rule that the loop does not pass over decides.
LEMMA FirstDecides ==
  ASSUME Tables, NEW n \in 1 .. Len(rules), Takes(n), \A j \in 1 .. n - 1 : ~Takes(j)
  PROVE  Base!Evaluate(asked.from, asked.to, asked.proto, asked.port, asked.app) =
           [rule |-> n, verdict |-> rules[n].action]
<1> DEFINE matching == {k \in DOMAIN rules : Base!RuleMatches(rules[k], asked.from, asked.to,
                                                              asked.proto, asked.port, asked.app)}
<1>1. matching = {k \in 1 .. Len(rules) : Takes(k)}
  BY DEF Tables, Takes
<1>2. n \in matching /\ matching \in SUBSET Nat /\ \A j \in matching : n <= j
  BY <1>1
<1>3. Base!Min(matching) = n
  BY <1>2, BaseMinIs
<1> HIDE DEF matching
<1> QED
  BY <1>2, <1>3 DEF Base!Evaluate, matching

LEMMA NoneDecides ==
  ASSUME Tables, \A j \in 1 .. Len(rules) : ~Takes(j)
  PROVE  Base!Evaluate(asked.from, asked.to, asked.proto, asked.port, asked.app) = NoMatch
<1>1. {k \in DOMAIN rules : Base!RuleMatches(rules[k], asked.from, asked.to,
                                             asked.proto, asked.port, asked.app)} = {}
  BY DEF Tables, Takes
<1> QED
  BY <1>1 DEF Base!Evaluate, NoMatch

LEMMA LookupInitInv == LookupInit => LookupInv
  BY InitIInv DEF LookupInit, LookupInv, Calling, ZoneLoop, RuleLoop

\* A call begins with nothing behind it.
LEMMA CallInv ==
  ASSUME LookupInv, NEW f \in {"zone_for", "evaluate"}, NEW args, Call(f, args)
  PROVE  Calling' /\ ZoneLoop' /\ RuleLoop'
<1>1. zones' = zones /\ rules' = rules /\ status' = "running"
  BY DEF Call, vars
<1>2. Len(zones) \in Nat /\ Len(rules) \in Nat
  BY DEF LookupInv, IInv, Tables
<1> QED
  BY <1>1, <1>2 DEF Call, Calling, ZoneLoop, RuleLoop, BestBehind

\* The best route behind the loop, one route further.
LEMMA BestOneFurther ==
  ASSUME Tables, NEW n \in 0 .. Len(zones) - 1, BestBehind(n),
         best' = Better(zones[n + 1]), UNCHANGED <<vars, asked>>
  PROVE  BestBehind(n + 1)'
<1> DEFINE route   == zones[n + 1]
           covers(j) == Base!Contains(zones[j], asked.ip)
           beats(i, j) == Base!AtLeastAsGood(i, j)
<1>1. \A k \in 1 .. Len(zones) : zones[k].prefix \in Nat
  <2>1. \A k \in 1 .. Len(zones) : zones[k] \in Routes
    BY DEF Tables
  <2> QED
    BY <2>1, PolicyLoadAssumption DEF Routes, Prefix
<1>2. Len(zones) \in Nat /\ n \in Nat /\ n + 1 \in 1 .. Len(zones)
  BY DEF Tables
<1>3. \A j \in 1 .. n + 1 : j \in 1 .. n \/ j = n + 1
  BY <1>2
<1>4. \A i, j \in 1 .. Len(zones) :
        beats(i, j) <=> \/ zones[i].prefix > zones[j].prefix
                        \/ zones[i].prefix = zones[j].prefix /\ i <= j
  BY <1>1, <1>2 DEF Base!AtLeastAsGood
<1>5. \/ best' = NoRoute /\ \A j \in 1 .. n + 1 : ~covers(j)
      \/ \E i \in 1 .. n + 1 :
           /\ covers(i)
           /\ best' = [prefix |-> zones[i].prefix, zone |-> zones[i].zone]
           /\ \A j \in 1 .. n + 1 : covers(j) => beats(i, j)
  <2>1. CASE best = NoRoute /\ \A j \in 1 .. n : ~covers(j)
    <3>1. CASE covers(n + 1)
      <4>1. best' = [prefix |-> route.prefix, zone |-> route.zone]
        BY <1>1, <1>2, <2>1, <3>1 DEF Better, NoRoute
      <4>2. \A j \in 1 .. n + 1 : covers(j) => beats(n + 1, j)
        BY <1>2, <1>3, <1>4, <2>1
      <4> QED
        BY <1>2, <3>1, <4>1, <4>2
    <3>2. CASE ~covers(n + 1)
      BY <1>3, <2>1, <3>2 DEF Better
    <3> QED
      BY <3>1, <3>2
  <2>2. ASSUME NEW i \in 1 .. n, covers(i),
               best = [prefix |-> zones[i].prefix, zone |-> zones[i].zone],
               \A j \in 1 .. n : covers(j) => beats(i, j)
        PROVE  <1>5
    <3>1. i \in 1 .. n + 1 /\ i \in 1 .. Len(zones) /\ best.prefix = zones[i].prefix
      BY <1>2, <2>2
    <3>2. CASE covers(n + 1) /\ route.prefix > zones[i].prefix
      <4>1. best' = [prefix |-> route.prefix, zone |-> route.zone]
        BY <3>1, <3>2 DEF Better
      <4>2. ASSUME NEW j \in 1 .. n + 1, covers(j) PROVE beats(n + 1, j)
        <5>1. j \in 1 .. Len(zones) /\ (j = n + 1 \/ beats(i, j))
          BY <1>2, <1>3, <2>2, <4>2
        <5>2. zones[i].prefix \in Nat /\ zones[j].prefix \in Nat /\ zones[n + 1].prefix \in Nat
          BY <1>1, <1>2, <3>1, <5>1
        <5>3. j = n + 1 \/ zones[i].prefix >= zones[j].prefix
          BY <1>4, <3>1, <5>1, <5>2
        <5> HIDE DEF covers, beats
        <5> QED
          BY <1>2, <1>4, <3>2, <5>1, <5>2, <5>3
      <4> QED
        BY <1>2, <3>2, <4>1, <4>2
    <3>3. CASE ~(covers(n + 1) /\ route.prefix > zones[i].prefix)
      <4>1. best' = best
        BY <3>1, <3>3 DEF Better
      <4>2. covers(n + 1) => beats(i, n + 1)
        <5> HIDE DEF covers, beats
        <5> QED
          BY <1>1, <1>2, <1>4, <3>1, <3>3
      <4>3. \A j \in 1 .. n + 1 : covers(j) => beats(i, j)
        BY <1>3, <2>2, <4>2
      <4> QED
        BY <2>2, <3>1, <4>1, <4>3
    <3> QED
      BY <3>2, <3>3
  <2> QED
    BY <2>1, <2>2 DEF BestBehind
<1> QED
  BY <1>5 DEF BestBehind, Base!Contains, Base!AtLeastAsGood, vars

LEMMA SameEvaluation ==
  ASSUME UNCHANGED <<vars, asked>>
  PROVE  Base!Evaluate(asked.from, asked.to, asked.proto, asked.port, asked.app)' =
           Base!Evaluate(asked.from, asked.to, asked.proto, asked.port, asked.app)
<1>1. rules' = rules /\ asked' = asked
  BY DEF vars
<1> QED
  BY <1>1 DEF Base!Evaluate, Base!RuleMatches, Base!ApplicationMatches, Base!ServiceMatches,
              Base!NoApp, Base!Min, Base!kDefaultDeny

LEMMA ZoneTurnInv ==
  ASSUME LookupInv, ZoneTurn
  PROVE  Calling' /\ ZoneLoop' /\ RuleLoop'
<1>1. Tables /\ Len(zones) \in Nat /\ inside = "zone_for"
      /\ turn \in 0 .. Len(zones) /\ BestBehind(turn) /\ UNCHANGED <<vars, asked>>
  BY DEF LookupInv, IInv, Tables, ZoneTurn, ZoneLoop
<1>2. zones' = zones /\ status' = status
  BY <1>1 DEF vars
<1>3. CASE turn < Len(zones)
  <2>1. turn \in 0 .. Len(zones) - 1 /\ turn' = turn + 1 /\ turn' \in 0 .. Len(zones)
        /\ best' = Better(zones[turn + 1]) /\ inside' = "zone_for"
    BY <1>1, <1>3 DEF ZoneTurn
  <2>2. BestBehind(turn)'
    BY <1>1, <2>1, BestOneFurther
  <2>3. ZoneLoop'
    BY <1>2, <2>1, <2>2 DEF ZoneLoop
  <2>4. Calling' /\ RuleLoop'
    BY <1>2, <2>1 DEF LookupInv, Calling, ZoneTurn, RuleLoop
  <2> QED
    BY <2>3, <2>4
<1>4. CASE ~(turn < Len(zones))
  <2>1. turn = Len(zones) /\ inside' = "zone_found" /\ best' = best
    BY <1>1, <1>4 DEF ZoneTurn
  <2>2. BestBehind(Len(zones))'
    BY <1>1, <1>2, <2>1 DEF BestBehind, Base!Contains, Base!AtLeastAsGood
  <2>3. ZoneLoop'
    BY <2>1, <2>2 DEF ZoneLoop
  <2>4. Calling' /\ RuleLoop'
    BY <1>1, <1>2, <2>1 DEF LookupInv, Calling, RuleLoop
  <2> QED
    BY <2>3, <2>4
<1> QED
  BY <1>3, <1>4

LEMMA RuleTurnInv ==
  ASSUME LookupInv, RuleTurn
  PROVE  Calling' /\ ZoneLoop' /\ RuleLoop'
<1>1. Tables /\ Len(rules) \in Nat /\ inside = "evaluate"
      /\ turn \in 0 .. Len(rules) /\ (\A j \in 1 .. turn : ~Takes(j)) /\ UNCHANGED <<vars, asked>>
  BY DEF LookupInv, IInv, Tables, RuleTurn, RuleLoop
<1>2. rules' = rules /\ status' = status
  BY <1>1 DEF vars
<1>3. CASE turn < Len(rules) /\ PassedOver(rules[turn + 1])
  <2>1. turn' = turn + 1 /\ turn' \in 0 .. Len(rules) /\ inside' = "evaluate"
    BY <1>1, <1>3 DEF RuleTurn
  <2>2. ~Takes(turn + 1)
    BY <1>3, PassedOverIsNoMatch DEF Takes
  <2>3. \A j \in 1 .. turn' : ~Takes(j)
    BY <1>1, <2>1, <2>2
  <2>4. \A j : Takes(j)' <=> Takes(j)
    BY <1>1, <1>2 DEF Takes, Base!RuleMatches, Base!ApplicationMatches, Base!ServiceMatches,
                      Base!NoApp
  <2>5. RuleLoop'
    BY <1>2, <2>1, <2>3, <2>4 DEF RuleLoop
  <2>6. Calling' /\ ZoneLoop'
    BY <1>1, <1>2, <2>1 DEF LookupInv, Calling, ZoneLoop
  <2> QED
    BY <2>5, <2>6
<1>4. CASE ~(turn < Len(rules) /\ PassedOver(rules[turn + 1]))
  <2>1. inside' = "rule_found"
        /\ decision' = IF turn = Len(rules) THEN NoMatch
                       ELSE [rule |-> turn + 1, verdict |-> rules[turn + 1].action]
    BY <1>1, <1>4 DEF RuleTurn
  <2>2. decision' = Base!Evaluate(asked.from, asked.to, asked.proto, asked.port, asked.app)
    <3>1. CASE turn = Len(rules)
      BY <1>1, <2>1, <3>1, NoneDecides
    <3>2. CASE turn # Len(rules)
      <4>1. turn + 1 \in 1 .. Len(rules) /\ Takes(turn + 1)
        BY <1>1, <1>4, <3>2, PassedOverIsNoMatch DEF Takes
      <4>2. \A j \in 1 .. (turn + 1) - 1 : ~Takes(j)
        BY <1>1
      <4> QED
        BY <1>1, <2>1, <3>2, <4>1, <4>2, FirstDecides
    <3> QED
      BY <3>1, <3>2
  <2>3. decision' =
          Base!Evaluate(asked.from, asked.to, asked.proto, asked.port, asked.app)'
    BY <1>1, <2>2, SameEvaluation
  <2>4. RuleLoop'
    BY <2>1, <2>3 DEF RuleLoop
  <2>5. Calling' /\ ZoneLoop'
    BY <1>1, <1>2, <2>1 DEF LookupInv, Calling, ZoneLoop
  <2> QED
    BY <2>4, <2>5
<1> QED
  BY <1>3, <1>4

\* The steps of parse and main come before any call.
LEMMA LoadStepInv ==
  ASSUME LookupInv, Next, UNCHANGED lookup
  PROVE  Calling' /\ ZoneLoop' /\ RuleLoop'
<1>1. status # "running"
  BY DEF Next, SkipLine, ZoneLine, RuleHead, Pair, RuleEnd, BadLine, EndOfText, LoadFile, Run,
         Refuse, AtLine, AtPair, Parsed
<1>2. inside' = "nothing"
  BY <1>1 DEF LookupInv, Calling, lookup
<1> QED
  BY <1>2 DEF Calling, ZoneLoop, RuleLoop

LEMMA LookupStutterInv ==
  ASSUME LookupInv, UNCHANGED <<vars, lookup>>
  PROVE  Calling' /\ ZoneLoop' /\ RuleLoop'
<1>1. UNCHANGED <<vars, asked, inside, turn, best, decision>> /\ zones' = zones /\ rules' = rules
      /\ status' = status
  BY DEF vars, lookup
<1>2. BestBehind(turn) => BestBehind(turn)'
  BY <1>1 DEF BestBehind, Base!Contains, Base!AtLeastAsGood
<1>3. BestBehind(Len(zones)) => BestBehind(Len(zones))'
  BY <1>1 DEF BestBehind, Base!Contains, Base!AtLeastAsGood
<1>4. ZoneLoop'
  BY <1>1, <1>2, <1>3 DEF LookupInv, ZoneLoop
<1>5. \A j : Takes(j)' <=> Takes(j)
  BY <1>1 DEF Takes, Base!RuleMatches, Base!ApplicationMatches, Base!ServiceMatches, Base!NoApp
<1>6. RuleLoop'
  BY <1>1, <1>5, SameEvaluation DEF LookupInv, RuleLoop
<1> QED
  BY <1>1, <1>4, <1>6 DEF LookupInv, Calling

LEMMA LookupNextInv == LookupInv /\ [LookupNext]_<<vars, lookup>> => LookupInv'
<1> SUFFICES ASSUME LookupInv, [LookupNext]_<<vars, lookup>>
             PROVE  Calling' /\ ZoneLoop' /\ RuleLoop'
  BY LookupSteps, NextIInv DEF LookupInv
<1>1. CASE Next /\ UNCHANGED lookup
  BY <1>1, LoadStepInv
<1>2. CASE AskZone \/ AskRule
  BY <1>2, CallInv DEF AskZone, AskRule
<1>3. CASE ZoneTurn
  BY <1>3, ZoneTurnInv
<1>4. CASE RuleTurn
  BY <1>4, RuleTurnInv
<1>5. CASE UNCHANGED <<vars, lookup>>
  BY <1>5, LookupStutterInv
<1> QED
  BY <1>1, <1>2, <1>3, <1>4, <1>5 DEF LookupNext

\* What the loops find is what the engine's model takes from Policy.
LEMMA LoopsAreTheOperators ==
  ASSUME LookupInv
  PROVE  /\ inside = "zone_found" => best.zone = Base!ZoneFor(asked.ip)
         /\ inside = "rule_found" =>
              decision = Base!Evaluate(asked.from, asked.to, asked.proto, asked.port, asked.app)
  BY ZoneFound DEF LookupInv, IInv, ZoneLoop, RuleLoop

\* At the end of the loop the best route is one of the longest, if any contains the
\* address.
LEMMA BestIsLongest ==
  ASSUME Tables, BestBehind(Len(zones))
  PROVE  IF Longest(asked.ip) = {} THEN best.zone = "Any"
         ELSE \E i \in Longest(asked.ip) : best.zone = zones[i].zone
<1>1. Base!Covering(asked.ip) = {k \in 1 .. Len(zones) : Base!Contains(zones[k], asked.ip)}
  BY DEF Base!Covering, Tables
<1>2. CASE best = NoRoute /\ \A j \in 1 .. Len(zones) : ~Base!Contains(zones[j], asked.ip)
  <2>1. Longest(asked.ip) = {}
    BY <1>1, <1>2 DEF Longest
  <2> QED
    BY <1>2, <2>1 DEF NoRoute
<1>3. ASSUME NEW i \in 1 .. Len(zones),
             Base!Contains(zones[i], asked.ip),
             best = [prefix |-> zones[i].prefix, zone |-> zones[i].zone],
             \A j \in 1 .. Len(zones) :
               Base!Contains(zones[j], asked.ip) => Base!AtLeastAsGood(i, j)
      PROVE  i \in Longest(asked.ip) /\ best.zone = zones[i].zone
  <2>1. \A k \in Base!Covering(asked.ip) : zones[k].prefix \in Nat
    <3>1. \A k \in DOMAIN zones : zones[k] \in Routes
      BY DEF Tables
    <3> QED
      BY <3>1, PolicyLoadAssumption DEF Base!Covering, Routes, Prefix
  <2>2. i \in Base!Covering(asked.ip)
    BY <1>1, <1>3
  <2>3. \A j \in Base!Covering(asked.ip) : zones[j].prefix <= zones[i].prefix
    BY <1>1, <1>3, <2>1, <2>2 DEF Base!AtLeastAsGood
  <2> QED
    BY <1>3, <2>2, <2>3 DEF Longest
<1> QED
  BY <1>2, <1>3 DEF BestBehind

\* Whatever rule base runs and whatever it is asked, zone_for ends with the zone of a
\* longest prefix and evaluate with the first rule that matches (policy.cpp:210-276).
THEOREM LoopsFindTheBest == LookupSpec => []LookupsFindTheBest
<1>1. ASSUME LookupInv PROVE LookupsFindTheBest
  <2>1. Tables /\ (inside = "zone_found" => BestBehind(Len(zones)))
    BY <1>1 DEF LookupInv, IInv, ZoneLoop
  <2> QED
    BY <1>1, <2>1, BestIsLongest, LoopsAreTheOperators DEF LookupsFindTheBest
<1> QED
  BY LookupInitInv, LookupNextInv, <1>1, PTL DEF LookupSpec
=============================================================================
