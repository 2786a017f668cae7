------------------------------- MODULE Replay -------------------------------
(***************************************************************************)
(* The capture reader of pcap.cpp and the main of main.cpp that drives the *)
(* engine with it: a file of any size, written in either byte order and    *)
(* resolution, whose record headers claim any length, cut at any byte.     *)
(* A step is one read of the file, one call of the engine or one decision  *)
(* of main.  The reader only goes forward, so a record's header is chosen  *)
(* when it is read.                                                        *)
(***************************************************************************)
EXTENDS Integers, Sequences

CONSTANTS kMaxRecord,           \* the largest record accepted
          kMagicUs, kMagicNs,   \* the magic numbers, in the host's byte order
          ByteBase,             \* values of a byte, 256 in the code
          MicrosPerSec, NanosPerMicro,
          Sizes,                \* bytes the file may have
          Stamps,               \* what a record header may say: [sec, frac, incl]
          Nets                  \* link types a global header may say

Word32 == 0 .. ByteBase * ByteBase * ByteBase * ByteBase - 1

Stamp == [sec : Word32, frac : Word32, incl : Word32]

VARIABLES file,        \* the capture: its size and global header, and how it was written
          at,          \* the next call main makes
          pos,         \* bytes consumed
          buf, frame,  \* the window of the file in buf_, and the one the view showed
          reader,      \* the rest of PcapReader: swap, nanos, link, truncated
          seen,        \* the record headers read whole
          fed,         \* the calls of Engine::process, and those of finish
          finished,
          shown, code  \* what main has printed, and its exit code

vars == <<file, at, pos, buf, frame, reader, seen, fed, finished, shown, code>>

kGlobalHeader == 24
kRecordHeader == 16

LinkOf(net) == CASE net = 1 -> "Ethernet" [] net = 101 -> "RawIp" [] OTHER -> "Other"

-----------------------------------------------------------------------------
(***************************************************************************)
(* Byte order.  The host is little-endian; a writer that is not has        *)
(* swapped the bytes of every word.                                        *)
(***************************************************************************)
Rest(v) == v \div ByteBase

Byte(v, k) == CASE k = 0 -> v % ByteBase
                [] k = 1 -> Rest(v) % ByteBase
                [] k = 2 -> Rest(Rest(v)) % ByteBase
                [] k = 3 -> Rest(Rest(Rest(v)))

FromBytes(b0, b1, b2, b3) ==
  b0 + ByteBase * (b1 + ByteBase * (b2 + ByteBase * b3))

Bswap(v) == FromBytes(Byte(v, 3), Byte(v, 2), Byte(v, 1), Byte(v, 0))

ASSUME ReplayAssumption ==
  /\ {kMaxRecord, MicrosPerSec} \cup Sizes \subseteq Nat
  /\ {ByteBase, NanosPerMicro} \subseteq Nat \ {0}
  /\ {kMagicUs, kMagicNs, 0} \cup Nets \subseteq Word32
  /\ Stamps \subseteq Stamp
  /\ kMagicUs # kMagicNs
  /\ {kMagicUs, kMagicNs} \cap {Bswap(kMagicUs), Bswap(kMagicNs)} = {}

\* What load32le finds where the writer put v.
Raw(v) == IF file.swapped THEN Bswap(v) ELSE v

Fix32(v) == IF reader.swap THEN Bswap(v) ELSE v

\* A slip to notice: the fraction is always taken for microseconds.
FractionAsIs(sec, frac) == sec * MicrosPerSec + frac

Micros(sec, frac) ==
  sec * MicrosPerSec + IF reader.nanos THEN frac \div NanosPerMicro ELSE frac

-----------------------------------------------------------------------------
(***************************************************************************)
(* Reading.                                                                *)
(***************************************************************************)
Left == file.size - pos

Lesser(a, b) == IF a < b THEN a ELSE b

\* read_exact(n): resize, and read what there is; it succeeds if it is all there.
Has(n) == n <= Left

Read(n) == /\ pos' = pos + Lesser(n, Left)
           /\ buf' = [from |-> pos, count |-> n]

Init == /\ file \in [exists : BOOLEAN, size : Sizes, magic : {kMagicUs, kMagicNs, 0},
                     swapped : BOOLEAN, net : Nets]
        /\ at = "open" /\ pos = 0
        /\ buf = [from |-> 0, count |-> 0] /\ frame = buf
        /\ reader = [swap |-> FALSE, nanos |-> FALSE, link |-> "Other", truncated |-> FALSE]
        /\ seen = <<>> /\ fed = <<>> /\ finished = <<>>
        /\ shown = {} /\ code = 0

Exit(with) == at' = "exit" /\ code' = with

\* The value of the magic number tells the byte order and the resolution.
Open ==
  /\ at = "open" /\ file.exists
  /\ Has(kGlobalHeader)
  /\ Raw(file.magic) \in {kMagicUs, Bswap(kMagicUs), kMagicNs, Bswap(kMagicNs)}
  /\ Read(kGlobalHeader)
  /\ at' = "policy"
  /\ LET swap == Raw(file.magic) \in {Bswap(kMagicUs), Bswap(kMagicNs)}
     IN  reader' = [reader EXCEPT !.swap = swap,
                                  !.nanos = Raw(file.magic) \in {kMagicNs, Bswap(kMagicNs)},
                                  !.link = LinkOf(IF swap THEN Bswap(Raw(file.net))
                                                          ELSE Raw(file.net))]
  /\ UNCHANGED <<file, frame, seen, fed, finished, shown, code>>

OpenFails ==
  /\ at = "open"
  /\ \/ ~file.exists /\ UNCHANGED <<pos, buf>>
     \/ /\ file.exists /\ Read(kGlobalHeader)
        /\ \/ ~Has(kGlobalHeader)
           \/ Raw(file.magic) \notin {kMagicUs, Bswap(kMagicUs), kMagicNs, Bswap(kMagicNs)}
  /\ Exit(1)
  /\ UNCHANGED <<file, frame, reader, seen, fed, finished, shown>>

\* main makes the engine, and loads the policy it was given.
LoadPolicy ==
  /\ at = "policy"
  /\ \/ at' = "next" /\ UNCHANGED code
     \/ Exit(1)
  /\ UNCHANGED <<file, pos, buf, frame, reader, seen, fed, finished, shown>>

-----------------------------------------------------------------------------
(***************************************************************************)
(* next: the header of a record, then its body.                            *)
(***************************************************************************)
Truncated == reader' = [reader EXCEPT !.truncated = TRUE]

\* A slip to notice: the end of a file is the end of a capture, whatever is left.
EndUnnoticed ==
  /\ at = "next" /\ ~Has(kRecordHeader)
  /\ Read(kRecordHeader)
  /\ at' = "finish"
  /\ UNCHANGED <<file, frame, reader, seen, fed, finished, shown, code>>

\* A slip to notice: main waits for more.
EndRetried ==
  /\ at = "next" /\ ~Has(kRecordHeader)
  /\ Read(kRecordHeader)
  /\ UNCHANGED <<file, at, frame, reader, seen, fed, finished, shown, code>>

EndOfFile ==
  /\ at = "next" /\ ~Has(kRecordHeader)
  /\ Read(kRecordHeader)
  /\ IF Left # 0 THEN Truncated ELSE UNCHANGED reader
  /\ at' = "finish"
  /\ UNCHANGED <<file, frame, seen, fed, finished, shown, code>>

RecordHeader ==
  /\ at = "next" /\ Has(kRecordHeader)
  /\ Read(kRecordHeader)
  /\ \E stamp \in Stamps :
       /\ seen' = Append(seen, stamp)
       /\ IF Fix32(Raw(stamp.incl)) > kMaxRecord
            THEN at' = "finish" /\ Truncated
            ELSE at' = "body" /\ UNCHANGED reader
  /\ UNCHANGED <<file, frame, fed, finished, shown, code>>

incl == Fix32(Raw(seen[Len(seen)].incl))
ts   == Micros(Fix32(Raw(seen[Len(seen)].sec)), Fix32(Raw(seen[Len(seen)].frac)))

\* The body, cut short or whole; a whole one is shown to the engine through a view.
CutBody ==
  /\ at = "body" /\ ~Has(incl)
  /\ Read(incl)
  /\ Truncated
  /\ at' = "finish"
  /\ UNCHANGED <<file, frame, seen, fed, finished, shown, code>>

RecordBody ==
  /\ at = "body" /\ Has(incl)
  /\ Read(incl)
  /\ frame' = buf'
  /\ at' = "process"
  /\ UNCHANGED <<file, reader, seen, fed, finished, shown, code>>

-----------------------------------------------------------------------------
(***************************************************************************)
(* main: the loop, and what comes of it.                                   *)
(***************************************************************************)
\* A slip to notice: the next header is read before the frame is used.
ProcessLate ==
  /\ at = "process"
  /\ fed' = Append(fed, [view |-> frame, found |-> [from |-> pos, count |-> kRecordHeader], ts |-> ts])
  /\ at' = "next"
  /\ UNCHANGED <<file, pos, buf, frame, reader, seen, finished, shown, code>>

\* engine.process: what the view shows is what is in the buffer by then.
Process ==
  /\ at = "process"
  /\ fed' = Append(fed, [view |-> frame, found |-> buf, ts |-> ts])
  /\ at' = "next"
  /\ UNCHANGED <<file, pos, buf, frame, reader, seen, finished, shown, code>>

last == IF fed = <<>> THEN 0 ELSE fed[Len(fed)].ts

\* A slip to notice: the last pass is run at the time of the record that was cut.
FinishAtSeen ==
  /\ at = "finish"
  /\ finished' = Append(finished, IF seen = <<>> THEN 0 ELSE ts)
  /\ at' = "output"
  /\ UNCHANGED <<file, pos, buf, frame, reader, seen, fed, shown, code>>

Finish ==
  /\ at = "finish"
  /\ finished' = Append(finished, last)
  /\ at' = "output"
  /\ UNCHANGED <<file, pos, buf, frame, reader, seen, fed, shown, code>>

\* A report in HTML, or one session, or the sessions and the stats.
Output ==
  /\ at = "output"
  /\ \/ shown' = {} /\ Exit(1)
     \/ \E what \in {{"html"}, {"detail"}} : shown' = what /\ Exit(0)
     \/ \E table \in {{}, {"sessions"}} :
          /\ shown' = table \cup {"stats"} \cup IF reader.truncated THEN {"warning"} ELSE {}
          /\ Exit(0)
  /\ UNCHANGED <<file, pos, buf, frame, reader, seen, fed, finished>>

Next == \/ Open \/ OpenFails \/ LoadPolicy
        \/ EndOfFile \/ RecordHeader \/ CutBody \/ RecordBody
        \/ Process \/ Finish \/ Output

\* main runs to its end.
Spec == Init /\ [][Next]_vars /\ WF_vars(Next)

-----------------------------------------------------------------------------
\* Where the bytes of record k end, going by the frames fed before it.
EndOf(k) == IF k = 0 THEN kGlobalHeader ELSE fed[k].view.from + fed[k].view.count

\* The engine is fed the records of the file as they were written, in their order,
\* leaving none out, and each while the buffer still holds it (pcap.h:30-33).
FedAsWritten ==
  \A k \in DOMAIN fed :
    /\ fed[k].view = [from |-> EndOf(k - 1) + kRecordHeader, count |-> seen[k].incl]
    /\ fed[k].found = fed[k].view
    /\ EndOf(k) <= file.size

\* When the loop has ended, every whole record has been fed, and truncated() is true
\* just when bytes are left that are no record (pcap.h:57-58, test_pcap.cpp:79).
NothingLeftUnfed ==
  at \in {"finish", "output"} =>
    LET end == EndOf(Len(fed))
    IN  /\ reader.truncated <=> end < file.size
        /\ \/ file.size - end < kRecordHeader
           \/ /\ Len(seen) = Len(fed) + 1
              /\ \/ seen[Len(seen)].incl > kMaxRecord
                 \/ end + kRecordHeader + seen[Len(seen)].incl > file.size

\* finish is called once, after the last frame and with its time, and before anything
\* is printed (main.cpp:102-108).
FinishedAtTheLastFrame ==
  /\ finished \in {<<>>, <<last>>}
  /\ shown # {} => finished = <<last>>

Before(s, t) == s.sec < t.sec \/ (s.sec = t.sec /\ s.frac <= t.frac)

Fraction == IF file.magic = kMagicNs THEN MicrosPerSec * NanosPerMicro ELSE MicrosPerSec

\* Times keep their order, whatever the resolution and the byte order of the file, if
\* its fractions are of a second (pcap.h:60-61).
TimesKeepOrder ==
  \A j, k \in DOMAIN fed :
    /\ seen[j].frac < Fraction /\ seen[k].frac < Fraction
    /\ Before(seen[j], seen[k])
    => fed[j].ts <= fed[k].ts

\* A file ends: main returns, and so the engine's capture does.
ReplayEnds == <>(at = "exit")
=============================================================================
