# nano-ngfw in TLA+

nano-ngfw replays a packet capture through the pipeline of a next-generation
firewall: it reads a policy, then reads frame after frame; it decodes each, finds or opens
its session, decides the session by a zone policy, follows the TCP state machine, identifies
the application from the payload, decides again if the application is not what the first
decision assumed, translates outbound sessions, ages sessions out on the clock of the
capture, and at the end prints what it has found. There is one thread and nothing is
persisted. What is hard is not concurrency of threads but the interleaving of
*conversations*: any packet of any of them may come next, at any time, with any flags and
payload, and each decision is spread over a first packet, a later payload, a sweep that runs
every so many packets and a set of counters that are moved by hand at each of these places.
The rest is parsing: of lengths that somebody else wrote, in files that may be cut anywhere.

## Inventory

| part (source) | state it keeps | operations | properties that make it correct |
|---|---|---|---|
| Engine (`engine.*`) | flow table, NAT pool, policy, `Counters` | `process` (and in it `handle_l4`, `classify_and_maybe_shift`, `maybe_sweep`), `finish` | every frame and session accounted for; a decision always the one the policy gives for what is known; at most two decisions; a session that lost its rule stays closed |
| Session table and aging (`flow.*`) | vector of all sessions, hash index of those that can match | `FiveTuple::make`, `lookup`, `create`, `touch`, `age_out`, `Timeouts::for_session` | both directions meet in one session, no two conversations do; the index holds exactly what is not retired; a sweep removes what is over or idle and nothing else |
| TCP/UDP machine (`tcp_state.*`) | `state` and `fin_from_initiator` of a session | `tcp_advance`, `udp_advance` | a state is entered on the packets it stands for; order of states; Closed is final; who closed first |
| Policy (`policy.*`) | zone routes, rules | `load_default`, `load_file`, `parse`, `zone_for`, `evaluate` | what runs is a whole text and means what its lines say; longest prefix; first match; application rules provisional before identification |
| App-ID (`appid.*`) | none (a latch in the session) | `classify`, `extract_sni`, `looks_like_dns` | decided once, on enough payload; reads in bounds; names whole; walks end |
| Source NAT (`nat.*`) | next port, number in use | `allocate`, `release` | bindings distinct and in range; every outbound session bound while a port is free; given back with the session |
| Decoders (`decode.*`, `byteview.h`, `diag.h`) | none | Ethernet, IPv4, TCP, UDP parsers and checksum | reads in bounds; the payload is what was sent and captured, wherever a capture cuts it |
| Capture reader (`pcap.*`) | file position, one buffer, byte order, resolution | `open`, `next`, `truncated` | every whole record handed on once, in order, with its time; a view never outlives its bytes; a cut file ends cleanly |
| main (`main.cpp`) | the last timestamp | the loop, the order of loading, feeding, finishing and printing | no run on a policy that did not parse; one last aging pass, after the last frame; it returns |
| Output (`cli.*`, `report.*`, `version.*`) | none | tables, details, stats, HTML tiles, table and cards | what one part shows does not contradict another |

Interactions are calls, all downwards from `main`. `main` opens the capture, loads the policy, and
hands each frame to `process` as a view of the reader's only buffer. `process` counts the
frame, *then* sweeps if it is a multiple of `kSweepInterval`, *then* decodes;
a decoded segment is looked up in the table; an unknown one may open a session (a TCP
packet only if it is a pure SYN, unless midstream pickup is on), which is judged by the
policy without an application, counted under its verdict and, when allowed from trust
to untrust, given a port; every segment of a session, known or new, is counted in
it (`touch`), advances its state machine and, when it carries payload and no application is
latched, is classified; the latch brings the second evaluation, which may move the session
from one verdict counter to another, mark it shifted, and close it. Sessions are shared
state between all these: the sweep closes and un-indexes them behind the pipeline's back, and a
Closed session stays matchable until a sweep comes. The output reads counters for totals
and sessions for rows, and relies on the pipeline for their agreement.

The behaviours that are hard to test, each at its line, are the `hazards` of
`PROJECT.json`.

## Modules

| module | models | state |
|---|---|---|
| `TcpState` | `tcp_state.cpp`: what a segment does to a state | operators |
| `TcpSession` | one session under every sequence of segments, with what it has heard | `session`, `heard`, `first_fin` |
| `Conversation` | abstract: the stages of a conversation and the evidence each needs | `stage`, `heard` |
| `Policy` | `zone_for`, `contains`, `matches`, `evaluate` | operators |
| `PolicyLoad` | `load_default`, `load_file` and `parse`, line by line and keyword by keyword; whether `main` runs | `zones`, `rules`, `rule`, `call`, `lineno`, `pair`, `status`, and the arguments |
| `PolicyLookup`, `MCPolicyLoad` | the loops of `zone_for` and `evaluate` on what was loaded, one entry of the table a step; the detailed form of `Policy` | that of `PolicyLoad`, `inside`, `asked`, `turn`, `best`, `decision` |
| `AppId` | `classify` on an abstract payload | operators |
| `SniWalk` | `extract_sni`: the walk through a ClientHello, one structure a step | `step`, `off`, `limit`, `ends`, `sni`, `reads` |
| `DnsWalk` | `looks_like_dns`: the walk over the labels of a question | `offset`, `label`, `tail`, `read` |
| `Classification` | `classify` with the two walks, and what the engine keeps; the detailed form of `AppId` | those of the walks, `at`, `result`, `stored` |
| `NatPool` | `allocate` | operators on a pool |
| `FlowTable` | `FiveTuple::make`, `lookup`, `create`, `touch`, `for_session`, `age_out` | operators on a table |
| `Engine` | the pipeline; composes `TcpState`, `Policy`, `AppId`, `NatPool`, `FlowTable` | `flows`, `nat`, `counters`, `last_ts`, `phase` |
| `SessionLedger` | abstract: what a firewall that remembers sessions promises about them | `entries`, `listed`, `done` |
| `EngineProperties` | the properties of the pipeline, and its mapping to the ledger | |
| `Report` | what `cli.cpp` and `report.cpp` show of the engine's state | operators on that state |
| `MCEngine` | small captures, rule bases and address plans for TLC | |
| `Decode` | `byteview.h`, the four decoders, and the chain of early returns of `process` and `handle_l4` | operators |
| `Snaplen`, `MCDecode` | one frame, cut shorter byte by byte, with the properties of its decoding | `frame` |
| `Replay`, `MCReplay` | the capture reader and `main`, over a file cut anywhere | `file`, `pos`, `buf`, `frame`, `reader`, `seen`, `fed`, `finished`, `at` |
| `TcpSessionProofs`, `EngineProofs`, `LedgerProofs`, `DecodeProofs`, `ClassificationProofs`, `PolicyLoadProofs`, `ReplayProofs` | theorems | |

The components of the pipeline are modules of operators, as the classes of the program are
passive objects that `Engine` holds by value and calls: the only thing that steps is `Engine::process`.
One action of `Engine` is one call of it, up to whichever return it takes:
`StopFrame` (a frame counted and dropped by a decoder or the L3 checks),
`RefuseOutOfState`, `OpenSession`, `ContinueSession`; `Finish` is `Engine::finish`. An action
includes the sweep that precedes it and every counter it touches. Where the hazards are *inside* a call
(the walks of App-ID, the parser, the reader) a module of its own takes the call apart, one
structure, keyword or read a step. Some definitions are commented "a slip to notice":
plausible bugs in the operator below them, with the same parameters, which nothing uses; the
properties must fail when one is put in its place.

How the modules meet. `Engine` takes a frame as decoded or as the set of counters bumped
before it is dropped, from `Decode!Stopped`, and `CountedAsExpected` shows of the decoders that
these are all the sets there are. It takes `classify` as one operator, and `ClassifiesAsAbstract`
shows that the walks amount to it. It takes `Rules` and `Routes` of the types that `BaseIsTyped` shows of every
text, and `ZoneFor` and `Evaluate` as the operators of `Policy`, which the lemma `LoopsAreTheOperators` shows the loops
to compute on every such base. Its frames, times and the one `Finish` at the end are what `Replay` shows `main` to do.
`Report` reads its state.

How the model's state differs from the program's:

- **Identity.** `SessionId` is an index into the vector; here positions start at 1, so
  `kNoSession` is 0, and rules start at 1, so `kDefaultDeny` is 0.
- **Bytes.** In `Decode` a frame is the number of bytes captured and the header fields that
  decide how it is decoded; a decoder's result says how far into its window it has read. The sum
  behind the IPv4 checksum is a fact of the frame. In `SniWalk` a length field is
  chosen when it is read, which is sound as the walk only goes forward. `DnsWalk` has the bytes of the question.
- **Payload** in the pipeline: size, preamble (HTTP, SSH, TLS or none: they exclude each other on the first
  byte) and whether it has the shape of a DNS message. Byte counters are left out.
- **Files.** A capture is a size, a global header and record headers chosen as they are read; the buffer is
  the window of the file that it holds. A policy is a sequence of lines of words; how a word splits at
  commas, dots and slashes, and its number, are tables.
- **Addresses** have `AddressBits` bits (32 in the program), bytes `ByteBase` values (256), so that
  prefixes and byte orders keep their meaning on small numbers.
- **Arithmetic.** Counters are 64-bit in the program and bounded by `MaxPackets` here:
  they cannot wrap, and that they never go below zero is part of what is shown, since a
  shift *decrements* a counter. The duration that `cli.cpp` shows is a difference of unsigned times and is
  taken modulo `TimeWrap`.
- **Sets for vectors.** A rule's services and applications are vectors whose order no decision reads.

`heard` and `first_fin` of `TcpSession`, `seen`, `fed` and `finished` of `Replay`
are history, not state of the program: they record what has passed, so that a property can say what a
state is entitled to.

## Runs

Every bound is a constant of the cfg.

| run | question | bounds and why they are enough |
|---|---|---|
| `session` | Is each state of one session earned, and does it implement `Conversation`? | none: all flags, both directions, any length, with sessions adopted midstream (the state space is finite) |
| `engine_life` | The life of a session: handshake before data, decisions, teardown, aging; does the pipeline implement `SessionLedger`? does what is over leave the index? | 6 packets: a handshake of 3, a payload, a close, and one more on the same tuple; sweeps at packets 3 and 6; times 0, 1, 2, 4 against timeouts 1, 2, 3, at and past each; a UDP conversation that ages at another rate |
| `engine_accounts` | Do index, counters, decisions, bindings and output agree with the sessions? | 5 packets, sweeps at 2 and 4; conversations whose ports are crossed, both directions, DNS, not DNS and empty, two kinds of frame that are stopped, rules that revoke one application and allow another on second thought, a pool of two usable ports for three conversations |
| `decode` | Do the decoders read in bounds and hand on what was sent, wherever the capture cuts? | header lengths 4, 5, 6 words, length fields below, at and past what is there, frames of 60 and 66 bytes cut down to 0 one byte at a time |
| `policy_load` | What rule base runs, does it mean what the text says, and do the lookups find in it what they should? | texts of up to 3 lines out of 10 good and 12 bad ones, at most one of them bad; prefixes that nest and that tie, asked at addresses inside each, at both ends of one and outside; traffic that each rule takes or passes over, with and without an application |
| `classification` | Do the walks stay in the payload, end, and amount to the operator? | 18 sizes at and around the end of each structure, lengths 0, exact, one past, and the largest; questions of up to 2 labels of at most 1 byte, from bytes that are an end, a length and a length too long |
| `replay` | Is what is fed what was written, all of it, in order, once? | sizes at, below and past the end of each part of a file of up to two records; two seconds, fractions in and out of range, lengths 0, 1, the cap, past it, and one that is the cap with its bytes swapped; both byte orders, both resolutions |
| `first_fin`, `nat_reclaim`, `clock_back`, `claimed_wait`, `nat_outbound` | disagreements between the program and what it says of itself | as the runs above; `claimed_wait` has the program's own `kMaxL7Bytes`, 4096, and a banner cut after two bytes; `nat_outbound` a pool of three ports and one conversation |

`CHECK_DEADLOCK FALSE` in all but `session`: the program stops when the capture does, a call when it
returns, and a frame cannot be cut below nothing. `TcpSession` is checked
for deadlock, since a session accepts a segment in any state.

**Fairness.** Three liveness properties. `ClosedIsReaped` (a Closed session leaves the
index) assumes `WF_vars(Finish)`: a capture is a finite file and `main` calls `finish` when its
loop ends. Nothing else is assumed: packets need not arrive, and in particular no sweep need
be due. `ClassifyReturns` and `ReplayEnds` assume `WF(Next)`: one thread runs a call to its end. They
are about termination of loops over lengths that somebody else wrote: an extension of length zero
must still advance the walk, a record of length zero the reader.

**Clock.** Capture timestamps are non-decreasing in all runs of the engine but `clock_back`
(`ClockStepsBack`). The program does not require it: `age_out` guards against a timestamp
below `last_seen`.

## What the runs show

The passing runs find the table, the accounts, the decisions, the teardown, the walks, the loader and
the reader right on these instances. Of the properties a reader might not expect to need:
`SessionsAccounted` and `EveryPacketAccounted` tie counters incremented in five places to the
sessions, and `ReportAgrees` carries this to what is printed; `DecisionFollowsPolicy` says that rule and verdict
always match a fresh evaluation, whatever the path; `ImplementsLedger` says that whatever the pipeline does in a
frame is at most one new entry or one change of a listed one, that a verdict changes at most once and that nothing
comes back; `FedAsWritten` would fail if the reader ran ahead of the engine, as there is one buffer.

Disagreements that a run shows (the quotations are in `PROJECT.json`):

- a FIN before Established is ignored, also on the segment that completes the handshake, so the other side
  becomes "which side closed first" and its retransmissions cannot move the session on (`first_fin`). A FIN on
  the SYN+ACK counts as the responder's: `first_fin` records the first FIN from that answer on;
- a port is never given back (`nat_reclaim`);
- a timestamp that steps back makes an active session look idle (`clock_back`);
- a session does not wait for `kMaxL7Bytes` of payload before it is called unknown (`engine.h:100-103`,
  `docs/design.md:53-54`), since `classify` reports every payload it does not recognise as exhausted, the first
  two bytes of a banner included (`claimed_wait`). `TheWaitIsNeverTaken` proves it of every bound;
- a session from trust to untrust that is refused at first and allowed by its shift is never translated
  (`engine.cpp:155`, against `engine.h:78`), with the whole pool free (`nat_outbound`).

Disagreements noticed while modelling that have no run of their own:

- the last port of the range is refused although it is free (`nat.cpp:7`, against `nat.h:47`). It violates
  `OutboundIsTranslated` too: with `Segments <- OutboundSegments` in the cfg of `nat_outbound`, the third of three
  sessions finds two of the three ports bound and gets none. No passing property says that the pool is drained at that point;
- "declaration order does not matter" (`policy.cpp:214`), but of one network declared in two zones the first
  declared wins. `Policy!ZoneFor` has this tie from the code; `LookupsFindTheBest` does not assert it, and is
  content with the zone of any route of the longest prefix;
- `any` as one of a list of services matches nothing, as it is a service of protocol 0 (`policy.cpp:45`, against
  `policy.cpp:43` and `rules/policy.conf:9`): the rule of `MCPolicyLoad` with `tcp/80` and `udp/53,any` matches
  TCP port 80 and UDP port 53, and not UDP port 80;
- rules that name applications match provisionally (`policy.cpp:257`), though `policy.h:49-50` says they cannot;
- an App-ID shift closes a UDP session (`engine.cpp:237`), though `docs/design.md:156` leaves that to the idle timeout;
- a session refused at first and allowed by its shift is reported as one that "was admitted" (`flow.h:143`) and
  that lost the rule that had admitted it (`report.cpp:250-255`);
- a packet that comes after its session's timeout but before a sweep joins the old session, since `lookup`
  does not look at the clock (`docs/design.md:62-63`);
- the start of a refused server name is kept (`appid.cpp:132-136`, whose answer `appid.cpp:180` ignores);
- `truncated()` is also true of a record that claims more than the cap, and only the plain listing warns of it;
- the reader's link type is never consulted (`main.cpp:105`, `pcap.h:16`);
- in policy files, a last keyword without its value is ignored (`policy.cpp:177`), `service ,` means any
  service, and an empty prefix length is 0;
- a session that ends before any payload shows as `insufficient-data` once Closed, a half-open one included
  (`flow.cpp:7-24`, against `appid.h:32`);
- the duration shown wraps when a session's clock has stepped back (`cli.cpp:88`);
- the design speaks of two indices (`docs/design.md:133-134`) where the table has one.

## Proofs

**One session** (`TcpSessionProofs`). `SessionInvariant` (`TypeOK` and `StateIsEarned`, inductive together)
and `ConversationRefinement` (every step of a session is a step or a stutter of `Conversation`), for both
values of `Midstream`.

**The table and the pipeline** (`EngineProofs`). First the table: `MakeKey` loses nothing and forgets the direction;
`ZoneFor` and `Evaluate` always answer; `TableOK` (every index entry is under the key of the session
it points at, and every session that is not Closed is where its own key leads) is kept by
`Create`, by the rewriting of one session, and by `AgeOut`. Then the pipeline. The invariants of
`EngineProperties` are not inductive one by one:
that decrementing a verdict counter gives a number at all needs `VerdictsAccounted`, which needs to know
that only a latch moves a verdict; that the next port is free needs that ports are
handed out in order and never given back. `IInv` is their strengthening:

- `TableOK`;
- of every session, `SessionInv`: `Decided` (zones are those of the endpoints, rule and verdict those of
  the policy for the application latched, if any), `Latch` (latched exactly when payload has been seen, a
  shift only by a latch, a session shifted away from Allow closed), `Handshake` (in strict mode, the packets that each TCP
  state has cost; `HandshakeSeen` follows) and `Binding`;
- `Ledger`: each verdict counter, `app_shifts`, `sessions_created` and `sessions_retired` is the
  cardinality it stands for;
- `PoolOK`: `in_use` is the number of bound sessions, `next_port` is `FirstPort + in_use`, the bound ports are
  below it and distinct.

The lemmas follow a packet through the pipeline: `JudgedInv`, `TranslatedInv`, `AdvancedInv`,
`IdentifiedInv` and, together, `AppliedInv` for the session; `AgeOutInv` and `SweptInv` for the sweep; `ReplaceLedger`,
`CreateLedger`, `ReplacePool`, `CreatePool` for the accounts; then one lemma per action, and `NextIInv`.
`Continues` (how a packet may change a session) and `Succeeds` (how a step may change the table) give two
action properties that no run lists, `DecidedAtMostTwice` and `ClosedIsFinal`: the runs check the ledger, which says as
much. `LastPassIsThorough` is inductive with `IInv`: `Finish` establishes it and no step follows.

**The ledger and the output** (`LedgerProofs`). `PipelineImplementsLedger`: `AgeOut` and a sweep are a
`Crossed` from one table to the next, an old session rewritten is a `Heed`, a new one an `Enter`, a dropped frame an `Ignore`, `Finish` a
`Close`; each needs `IInv` of the state before it, `Enter` that no listed session has the key of the new one.
`SweepsAreThorough` follows from what `AgeOut` erases. `OnlyTheIdleRetire` needs one more invariant, that no
session was seen after `last_ts`, and assumes that the clock does not step back, which is where
`clock_back` shows it false. `ShownAgrees` is read off `IInv`.

**The decoders** (`DecodeProofs`). One lemma per decoder gives its result by cases; `Accepted` and `Sent` then
say in closed form which frames are handed on and with which bytes, and the four properties of
`Snaplen` follow for every frame.

**Every frame in one place** (the end of `EngineProofs`). The packets of the sessions are
counted as a set: `Carried` has a pair of a session and a number for each packet counted in it, so that a frame either adds one element to
that set or one to exactly one stop counter (`StopsOnce`, `OneMoreCarried`), and a sweep changes neither (`SweptCarries`).
`FramesStayAccounted` is then inductive with `IInv`.

**Classification** (`ClassificationProofs`). `SniInv`: the four ends are nested (name in list in extensions in
record in payload), the offset is within the last one that has been set where the walk relies on it, and every read ends in
the payload. `NamesAreWhole` follows: an answer is given only at the end of the name. The labels of a question are bounded
likewise by the message. `ClassifyIsTheOperator` needs `ClassifyInv` on top of these: while a walk is on, the tests that
`classify` made before it have come out as `Classifying` says; and `LabelsInv`, what the walk over the labels has found so
far is what the message has up to the offset, label by label, so that its answer is the shape that `AppId` takes as a fact
of the payload.

**The loader and the lookups** (`PolicyLoadProofs`). `IInv`: what has been read of a text is well formed, a text is loaded only when
it is read to its end, and the tables and the rule in the making are typed. `PartialBaseNeverRuns` and `RuleBaseIsTyped` follow
for every text. `WhatRunsIsDeclared` needs `DeclaredInv`: the tables are what the lines *behind* declare, and the rule in the
making is what its line has said *so far* (`MeaningBefore`). That is where the loop and the declarative reading meet: `Meaning` takes the
last value of each keyword and the union of each list, and `MeaningNext` shows that a turn of the loop takes the meaning of
the words before a place to the meaning of those before the next; `LineListed` does the same for lines and tables.
`LookupInv` is of that kind for the loops that read the tables: the best route so far is the best of those behind
(`BestBehind`), no rule behind matches, and the tables do not change while the engine asks. `LoopsFindTheBest` follows, and so does
`LoopsAreTheOperators`, as a best route is the only one (`BestIsTheZone`) and a rule that is not passed over is a rule that matches
(`PassedOverIsNoMatch`). The theorems
about the loader are stated of `Spec`; the lookups change none of its variables.

**The reader and main** (`ReplayProofs`). `Inv`: once the magic is recognised, the
byte order is the writer's, so that `Fix32(Raw(v)) = v` (`BswapTwice`); the position is the end of the last record; what has been fed is the prefix of
what has been seen. Four theorems follow, for any file, cap and resolution.

The proofs rest on the named assumptions on the constants (`PolicyAssumption`, `TimeoutsAssumption`,
`NatPoolAssumption`, `EngineAssumption`, `ReportAssumption`, `MidstreamAssumption`, `SnaplenAssumption`, `SniWalkAssumption`,
`ClassificationAssumption`, `PolicyLoadAssumption`, `BuiltinAssumption`, `LookupAssumption`,
`ReplayAssumption`), which TLC evaluates in the runs of the modules that declare them. They are types, but for `FirstPort <= LastPort`, a sweep
interval above 0, times below `TimeWrap`, magic numbers that differ from each other and from
each other's swapped bytes, and a built-in policy that parses.

The inductive invariants of the pipeline, the loader, the lookups and the classification hold of the instances of the
runs too (TLC, on smaller bounds where their types are costly to evaluate).

Every safety property and action property of the passing runs is stated by a theorem. Only model-checked are
`ClosedIsReaped`, `ClassifyReturns` and `ReplayEnds`: liveness under fairness, and the `ENABLED` it rests on, are out of
the prover's reach. The theorems about loops say what a loop has found when it ends; that it ends is shown of
the walks and the reader by the last two, and is plain of the loops over the tables, which go from one entry to the next of a
table that does not change. What a recursive definition computes for every input would need induction over data; the properties are stated
without recursion instead: a count as the cardinality of a set, a loop as steps whose invariant speaks of what is behind it.

## Not modelled

- `NatPool::release`, which nothing in the program calls (`nat_reclaim`).
- The arithmetic of the IPv4 checksum, and header fields that decide nothing.
- How strings are split and numbers read (`split`, `strtol`): facts of a word in `PolicyLoad`.
- The command line (`main.cpp:59-79`): which file, policy and output were asked for are inputs of `PolicyLoad` and `Replay`.
- Layout, escaping, style sheet and wording of the output, byte counts, the version.
- `FiveTuple`'s hash, `to_string` functions: they decide nothing that equality does not.
- Tests, fuzz targets and fixtures: they hold no state of the program.

What might still be added: `Replay` composed with `Engine` in one module instead of by their
common interface, and a clock that steps back in the runs of the ledger (the proofs cover it).
