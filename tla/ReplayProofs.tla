---------------------------- MODULE ReplayProofs ----------------------------
(***************************************************************************)
(* For every capture, of any size, in either byte order and resolution,    *)
(* with any claims in its headers, and cut at any byte: the engine is fed  *)
(* the records of the file, all of them, with times that keep their order, *)
(* and told once that there are no more.                                   *)
(***************************************************************************)
EXTENDS Replay, TLAPS

-----------------------------------------------------------------------------
(***************************************************************************)
(* Byte order: swapping the bytes of a word twice gives the word.          *)
(***************************************************************************)
\* The lowest byte of a word and the rest of it come apart again.
LEMMA LowByte ==
  ASSUME NEW B \in Nat \ {0}, NEW b \in 0 .. B - 1, NEW r \in Nat
  PROVE  (b + B * r) % B = b /\ (b + B * r) \div B = r
  BY Z3

LEMMA Recomposed ==
  ASSUME NEW B \in Nat \ {0}, NEW v \in Nat
  PROVE  /\ v % B \in 0 .. B - 1 /\ v \div B \in Nat
         /\ v = (v % B) + B * (v \div B)
  BY Z3

LEMMA Narrower ==
  ASSUME NEW B \in Nat \ {0}, NEW M \in Nat, NEW v \in Nat, v < B * M
  PROVE  v \div B < M
  BY Z3

Bytes == 0 .. ByteBase - 1

LEMMA ByteBaseTyped == ByteBase \in Nat \ {0} /\ NanosPerMicro \in Nat \ {0}
                       /\ kMaxRecord \in Nat /\ MicrosPerSec \in Nat
  BY ReplayAssumption

LEMMA WordParts ==
  ASSUME NEW v \in Word32
  PROVE  /\ Byte(v, 0) \in Bytes /\ Byte(v, 1) \in Bytes
         /\ Byte(v, 2) \in Bytes /\ Byte(v, 3) \in Bytes
         /\ v = FromBytes(Byte(v, 0), Byte(v, 1), Byte(v, 2), Byte(v, 3))
<1> DEFINE B == ByteBase
           r1 == Rest(v)
           r2 == Rest(r1)
           r3 == Rest(r2)
<1>1. B \in Nat \ {0}
  BY ByteBaseTyped
<1>2. B * B \in Nat /\ B * B * B \in Nat
  BY <1>1
<1>3. v \in Nat /\ v < B * (B * B * B)
  <2>1. B * B * B * B = B * (B * B * B)
    BY <1>1
  <2> QED
    BY <2>1, <1>1, <1>2 DEF Word32
<1> HIDE DEF B
<1>4. r1 = v \div B /\ r2 = r1 \div B /\ r3 = r2 \div B
  BY DEF Rest, B
<1> HIDE DEF r1, r2, r3
<1>5. r1 \in Nat /\ r1 < B * B * B /\ v % B \in 0 .. B - 1 /\ v = (v % B) + B * r1
  <2>1. r1 < B * B * B
    BY <1>1, <1>2, <1>3, <1>4, Narrower
  <2> QED
    BY <2>1, <1>1, <1>3, <1>4, Recomposed
<1>6. r2 \in Nat /\ r2 < B * B /\ r1 % B \in 0 .. B - 1 /\ r1 = (r1 % B) + B * r2
  <2>1. r1 < B * (B * B)
    BY <1>1, <1>5
  <2>2. r2 < B * B
    BY <1>1, <1>2, <1>4, <1>5, <2>1, Narrower
  <2> QED
    BY <2>2, <1>1, <1>4, <1>5, Recomposed
<1>7. r3 \in Nat /\ r3 < B /\ r2 % B \in 0 .. B - 1 /\ r2 = (r2 % B) + B * r3
  <2>1. r3 < B
    BY <1>1, <1>4, <1>6, Narrower
  <2> QED
    BY <2>1, <1>1, <1>4, <1>6, Recomposed
<1>8. Byte(v, 0) = v % B /\ Byte(v, 1) = r1 % B /\ Byte(v, 2) = r2 % B /\ Byte(v, 3) = r3
  BY DEF Byte, B, r1, r2, r3
<1>9. r3 \in 0 .. B - 1
  BY <1>1, <1>7
<1>10. v = (v % B) + B * ((r1 % B) + B * ((r2 % B) + B * r3))
  BY <1>5, <1>6, <1>7
<1> QED
  BY <1>5, <1>6, <1>7, <1>8, <1>9, <1>10 DEF FromBytes, Bytes, B

LEMMA PartsOfWord ==
  ASSUME NEW b0 \in Bytes, NEW b1 \in Bytes, NEW b2 \in Bytes, NEW b3 \in Bytes
  PROVE  LET w == FromBytes(b0, b1, b2, b3)
         IN  /\ w \in Nat
             /\ Byte(w, 0) = b0 /\ Byte(w, 1) = b1 /\ Byte(w, 2) = b2 /\ Byte(w, 3) = b3
<1> DEFINE B == ByteBase
           s2 == b2 + B * b3
           s1 == b1 + B * s2
           w  == b0 + B * s1
<1>1. B \in Nat \ {0} /\ {b0, b1, b2, b3} \subseteq 0 .. B - 1
  BY ByteBaseTyped DEF Bytes
<1> HIDE DEF B
<1>2. {b0, b1, b2, b3} \subseteq Nat
  BY <1>1
<1>3. s2 \in Nat
  BY <1>1, <1>2
<1>4. s2 % B = b2 /\ s2 \div B = b3
  BY <1>1, <1>2, LowByte
<1> HIDE DEF s2
<1>5. s1 \in Nat
  BY <1>1, <1>2, <1>3
<1>6. s1 % B = b1 /\ s1 \div B = s2
  BY <1>1, <1>3, LowByte
<1> HIDE DEF s1
<1>7. w \in Nat
  BY <1>1, <1>2, <1>5
<1>8. w % B = b0 /\ w \div B = s1
  BY <1>1, <1>5, LowByte
<1>9. w = FromBytes(b0, b1, b2, b3)
  BY DEF FromBytes, s1, s2, B
<1> HIDE DEF w
<1>10. /\ Byte(w, 0) = w % B /\ Byte(w, 1) = (w \div B) % B
       /\ Byte(w, 2) = ((w \div B) \div B) % B
       /\ Byte(w, 3) = ((w \div B) \div B) \div B
  BY DEF Byte, Rest, B
<1>11. Byte(w, 0) = b0 /\ Byte(w, 1) = b1 /\ Byte(w, 2) = b2 /\ Byte(w, 3) = b3
  BY <1>4, <1>6, <1>8, <1>10
<1> QED
  BY <1>7, <1>9, <1>11

LEMMA BswapTwice ==
  ASSUME NEW v \in Word32
  PROVE  Bswap(Bswap(v)) = v
<1>1. /\ Byte(v, 0) \in Bytes /\ Byte(v, 1) \in Bytes
      /\ Byte(v, 2) \in Bytes /\ Byte(v, 3) \in Bytes
      /\ v = FromBytes(Byte(v, 0), Byte(v, 1), Byte(v, 2), Byte(v, 3))
  BY WordParts
<1> DEFINE w == Bswap(v)
<1>2. /\ Byte(w, 0) = Byte(v, 3) /\ Byte(w, 1) = Byte(v, 2)
      /\ Byte(w, 2) = Byte(v, 1) /\ Byte(w, 3) = Byte(v, 0)
  BY <1>1, PartsOfWord DEF Bswap
<1> QED
  BY <1>1, <1>2 DEF Bswap

\* The magic numbers tell the byte order and the resolution apart, and zero is none.
LEMMA MagicsApart ==
  /\ kMagicUs # kMagicNs /\ Bswap(kMagicUs) # Bswap(kMagicNs)
  /\ {kMagicUs, kMagicNs} \cap {Bswap(kMagicUs), Bswap(kMagicNs)} = {}
  /\ 0 \notin {kMagicUs, kMagicNs, Bswap(kMagicUs), Bswap(kMagicNs)}
  /\ Bswap(0) = 0
<1>1. kMagicUs \in Word32 /\ kMagicNs \in Word32 /\ 0 \in Word32
  BY ReplayAssumption
<1>2. /\ Bswap(Bswap(kMagicUs)) = kMagicUs /\ Bswap(Bswap(kMagicNs)) = kMagicNs
  BY <1>1, BswapTwice
<1>3. Bswap(0) = 0
  <2>1. 0 % ByteBase = 0 /\ 0 \div ByteBase = 0
    BY ByteBaseTyped, Z3
  <2> QED
    BY <2>1, ByteBaseTyped DEF Bswap, FromBytes, Byte, Rest
<1>4. /\ kMagicUs # kMagicNs
      /\ {kMagicUs, kMagicNs} \cap {Bswap(kMagicUs), Bswap(kMagicNs)} = {}
  BY ReplayAssumption
<1> QED
  BY <1>2, <1>3, <1>4, Zenon

-----------------------------------------------------------------------------
(***************************************************************************)
(* What holds at each call of main.                                        *)
(***************************************************************************)
View == [from : Nat, count : Nat]
Fed  == [view : View, found : View, ts : Nat]
File == [exists : BOOLEAN, size : Nat, magic : {kMagicUs, kMagicNs, 0},
         swapped : BOOLEAN, net : Word32]
Link == {"Ethernet", "RawIp", "Other"}
Call == {"open", "policy", "next", "body", "process", "finish", "output", "exit"}

Typed == /\ file \in File
         /\ at \in Call /\ pos \in Nat
         /\ buf \in View /\ frame \in View
         /\ reader \in [swap : BOOLEAN, nanos : BOOLEAN, link : Link, truncated : BOOLEAN]
         /\ seen \in Seq(Stamp) /\ fed \in Seq(Fed)

\* The reader knows how the file was written.
Recognised ==
  at \notin {"open", "exit"} => /\ reader.swap = file.swapped
                                /\ reader.nanos <=> file.magic = kMagicNs

\* The position follows from what has been fed.
End == EndOf(Len(fed))

Following ==
  /\ Len(fed) <= Len(seen)
  /\ End \in Nat
  /\ at \in {"open", "policy"} => seen = <<>> /\ fed = <<>>
  /\ at = "open" => pos = 0
  /\ at \in {"policy", "next"} => pos = End /\ pos <= file.size /\ Len(seen) = Len(fed)
  /\ at \in {"body", "process"} => Len(seen) = Len(fed) + 1
  /\ at = "body" => pos = End + kRecordHeader /\ pos <= file.size
  /\ at = "process" => /\ buf = [from |-> End + kRecordHeader, count |-> seen[Len(seen)].incl]
                       /\ frame = buf
                       /\ pos = buf.from + buf.count /\ pos <= file.size
  /\ at \in {"open", "policy", "next", "body", "process"} => ~reader.truncated

\* The time of a record, whatever the resolution.
TimeOf(stamp) ==
  stamp.sec * MicrosPerSec
    + IF file.magic = kMagicNs THEN stamp.frac \div NanosPerMicro ELSE stamp.frac

TimedAsWritten == \A k \in DOMAIN fed : fed[k].ts = TimeOf(seen[k])

Unfinished == at \notin {"output", "exit"} => finished = <<>> /\ shown = {}

Finished == at = "output" => finished = <<last>> /\ shown = {}

Inv == /\ Typed /\ Recognised /\ Following /\ FedAsWritten /\ TimedAsWritten
       /\ NothingLeftUnfed
       /\ Unfinished /\ Finished /\ FinishedAtTheLastFrame

-----------------------------------------------------------------------------
LEMMA ReplayInit == Init => Inv
<1> SUFFICES ASSUME Init PROVE Inv
  OBVIOUS
<1> USE DEF Init
<1>1. Typed
  <2>1. file.size \in Nat /\ file.net \in Word32
    BY ReplayAssumption
  <2> QED
    BY <2>1 DEF Typed, File, View, Link, Call
<1>2. Recognised /\ FedAsWritten /\ TimedAsWritten /\ NothingLeftUnfed
  BY DEF Recognised, FedAsWritten, TimedAsWritten, NothingLeftUnfed
<1>3. Following
  BY DEF Following, End, EndOf, kGlobalHeader
<1>4. Unfinished /\ Finished /\ FinishedAtTheLastFrame
  BY DEF Unfinished, Finished, FinishedAtTheLastFrame
<1> QED
  BY <1>1, <1>2, <1>3, <1>4 DEF Inv

\* A word of a header is what was written, once the reader knows how.
LEMMA AsWritten ==
  ASSUME Typed, Recognised, at \notin {"open", "exit"}, NEW v \in Word32
  PROVE  Fix32(Raw(v)) = v
  BY BswapTwice DEF Recognised, Fix32, Raw, Typed, File

LEMMA StampTyped ==
  ASSUME Typed, NEW k \in DOMAIN seen
  PROVE  /\ seen[k] \in Stamp /\ seen[k].sec \in Word32 /\ seen[k].frac \in Word32
         /\ seen[k].incl \in Word32
         /\ seen[k].sec \in Nat /\ seen[k].frac \in Nat /\ seen[k].incl \in Nat
<1>1. seen[k] \in Stamp
  BY DEF Typed
<1>2. Word32 \subseteq Nat
  BY ByteBaseTyped DEF Word32
<1> QED
  BY <1>1, <1>2 DEF Stamp

LEMMA LastRecord ==
  ASSUME Typed, Recognised, Following, at \in {"body", "process"}
  PROVE  LET r == seen[Len(seen)]
         IN  /\ Len(seen) \in DOMAIN seen
             /\ incl = r.incl /\ incl \in Nat
             /\ ts = TimeOf(r) /\ ts \in Nat
<1> DEFINE r == seen[Len(seen)]
<1>1. Len(seen) \in DOMAIN seen
  <2>1. Len(seen) \in Nat /\ Len(fed) \in Nat /\ Len(seen) = Len(fed) + 1
    BY DEF Typed, Following
  <2> QED
    BY <2>1 DEF Typed
<1>2. /\ r.sec \in Word32 /\ r.frac \in Word32 /\ r.incl \in Word32
      /\ r.sec \in Nat /\ r.frac \in Nat /\ r.incl \in Nat
  BY <1>1, StampTyped
<1> HIDE DEF r
<1>3. Fix32(Raw(r.sec)) = r.sec /\ Fix32(Raw(r.frac)) = r.frac /\ Fix32(Raw(r.incl)) = r.incl
  BY <1>2, AsWritten
<1>4. incl = r.incl
  BY <1>3 DEF incl, r
<1>5. ts = TimeOf(r)
  <2>1. ts = Micros(r.sec, r.frac)
    BY <1>3 DEF ts, r
  <2> QED
    BY <2>1 DEF Micros, TimeOf, Recognised
<1>6. TimeOf(r) \in Nat
  <2>1. r.frac \div NanosPerMicro \in Nat
    BY <1>2, ByteBaseTyped, Recomposed
  <2>2. r.sec * MicrosPerSec \in Nat
    BY <1>2, ByteBaseTyped
  <2> QED
    BY <1>2, <2>1, <2>2 DEF TimeOf
<1> QED
  BY <1>1, <1>2, <1>4, <1>5, <1>6 DEF r

\* Most steps leave what has been fed alone, and the headers of what has been fed.
LEMMA FedStays ==
  ASSUME Inv, UNCHANGED <<file, fed>>,
         \/ UNCHANGED seen
         \/ \E stamp \in Stamps : seen' = Append(seen, stamp)
  PROVE  /\ FedAsWritten' /\ TimedAsWritten' /\ End' = End /\ seen' \in Seq(Stamp)
         /\ Len(fed') = Len(fed) /\ last' = last
<1>1. seen' \in Seq(Stamp)
  BY ReplayAssumption DEF Inv, Typed
<1>2. \A k \in DOMAIN fed : seen'[k] = seen[k]
  <2>1. Len(fed) \in Nat /\ Len(seen) \in Nat /\ Len(fed) <= Len(seen)
    BY DEF Inv, Typed, Following
  <2>2. DOMAIN fed = 1 .. Len(fed) /\ DOMAIN seen = 1 .. Len(seen)
    BY DEF Inv, Typed
  <2> QED
    BY <2>1, <2>2, ReplayAssumption DEF Inv, Typed
<1>4. FedAsWritten'
  BY <1>2 DEF Inv, FedAsWritten, EndOf
<1>5. TimedAsWritten'
  BY <1>2 DEF Inv, TimedAsWritten, TimeOf
<1>6. End' = End /\ last' = last /\ Len(fed') = Len(fed)
  BY DEF End, EndOf, last
<1> QED
  BY <1>1, <1>4, <1>5, <1>6

LEMMA ReadGoesOn ==
  ASSUME Typed, NEW n \in Nat, Read(n), pos <= file.size
  PROVE  /\ pos' \in Nat /\ buf' \in View /\ buf' = [from |-> pos, count |-> n]
         /\ Has(n) => pos' = pos + n /\ pos' <= file.size
  BY DEF Read, Typed, View, File, Lesser, Left, Has

LEMMA OpenKeeps == Inv /\ Open => Inv'
<1> SUFFICES ASSUME Inv, Open PROVE Inv'
  OBVIOUS
<1> USE DEF Open
<1>1. fed = <<>> /\ seen = <<>> /\ fed' = <<>> /\ seen' = <<>>
  BY DEF Inv, Following
<1>2. EndOf(0) = 24 /\ End = 24 /\ End' = 24
  BY <1>1 DEF End, EndOf, kGlobalHeader
<1>3. pos' = 24 /\ pos' <= file.size /\ buf' \in View
  <2>1. pos = 0 /\ file.size \in Nat
    BY DEF Inv, Following, Typed, File
  <2> QED
    BY <2>1 DEF Read, Has, Left, Lesser, View, kGlobalHeader
<1> DEFINE swap == Raw(file.magic) \in {Bswap(kMagicUs), Bswap(kMagicNs)}
           net  == IF swap THEN Bswap(Raw(file.net)) ELSE Raw(file.net)
<1>4. reader' = [reader EXCEPT !.swap = swap,
                               !.nanos = Raw(file.magic) \in {kMagicNs, Bswap(kMagicNs)},
                               !.link = LinkOf(net)]
  OBVIOUS
<1>5. LinkOf(net) \in Link
  BY DEF LinkOf, Link
<1>6. swap \in BOOLEAN /\ (Raw(file.magic) \in {kMagicNs, Bswap(kMagicNs)}) \in BOOLEAN
  OBVIOUS
<1>7. file \in File /\ file.magic \in {kMagicUs, kMagicNs, 0} /\ file.swapped \in BOOLEAN
  BY DEF Inv, Typed, File
<1>8. /\ swap = file.swapped
      /\ Raw(file.magic) \in {kMagicNs, Bswap(kMagicNs)} <=> file.magic = kMagicNs
  <2>1. Raw(file.magic) = IF file.swapped THEN Bswap(file.magic) ELSE file.magic
    BY DEF Raw
  <2>2. Raw(file.magic) \in {kMagicUs, Bswap(kMagicUs), kMagicNs, Bswap(kMagicNs)}
    OBVIOUS
  <2>3. file.magic # 0
    BY <2>1, <2>2, MagicsApart
  <2>4. CASE file.swapped = TRUE
    BY <1>7, <2>1, <2>3, <2>4, MagicsApart
  <2>5. CASE file.swapped = FALSE
    <3>1. Raw(file.magic) = file.magic /\ file.magic \in {kMagicUs, kMagicNs}
      BY <1>7, <2>1, <2>3, <2>5
    <3>2. file.magic \notin {Bswap(kMagicUs), Bswap(kMagicNs)}
      BY <3>1, MagicsApart
    <3>3. ~swap
      BY <3>1, <3>2
    <3>4. Raw(file.magic) \in {kMagicNs, Bswap(kMagicNs)} <=> file.magic = kMagicNs
      BY <3>1, <3>2
    <3>5. swap = FALSE
      BY <3>3, <1>6, Zenon
    <3> HIDE DEF swap
    <3> QED
      BY <2>5, <3>4, <3>5, Zenon
  <2> QED
    BY <2>4, <2>5, <1>7
<1> HIDE DEF swap, net
<1>9. Typed'
  BY <1>1, <1>3, <1>4, <1>5, <1>6 DEF Inv, Typed, Call
<1>10. Recognised'
  BY <1>4, <1>8 DEF Inv, Typed, Recognised
<1>11. Following'
  BY <1>1, <1>2, <1>3, <1>4 DEF Inv, Typed, Following
<1>12. FedAsWritten' /\ TimedAsWritten' /\ NothingLeftUnfed'
  BY <1>1 DEF FedAsWritten, TimedAsWritten, NothingLeftUnfed
<1>13. Unfinished' /\ Finished' /\ FinishedAtTheLastFrame'
  BY DEF Inv, Unfinished, Finished, FinishedAtTheLastFrame
<1> QED
  BY <1>9, <1>10, <1>11, <1>12, <1>13 DEF Inv

\* Going to a last state, with nothing fed by it.
LEMMA ExitKeeps ==
  ASSUME Inv, at' = "exit", UNCHANGED <<file, reader, seen, fed, finished>>,
         shown' # {} => finished = <<last>>,
         pos' \in Nat, buf' \in View, frame' \in View
  PROVE  Inv'
<1>1. /\ FedAsWritten' /\ TimedAsWritten' /\ End' = End /\ seen' \in Seq(Stamp)
      /\ Len(fed') = Len(fed) /\ last' = last
  BY FedStays
<1>2. Typed'
  BY DEF Inv, Typed, Call
<1>3. Recognised' /\ NothingLeftUnfed' /\ Unfinished' /\ Finished'
  BY DEF Recognised, NothingLeftUnfed, Unfinished, Finished
<1>4. Following'
  BY <1>1 DEF Inv, Following
<1>5. FinishedAtTheLastFrame'
  BY <1>1 DEF Inv, FinishedAtTheLastFrame
<1> QED
  BY <1>1, <1>2, <1>3, <1>4, <1>5 DEF Inv

LEMMA OpenFailsKeeps == Inv /\ OpenFails => Inv'
<1> SUFFICES ASSUME Inv, OpenFails PROVE Inv'
  OBVIOUS
<1>1. finished = <<>> /\ shown = {}
  BY DEF Inv, Unfinished, OpenFails
<1>2. pos' \in Nat /\ buf' \in View
  BY DEF Inv, Typed, OpenFails, Read, File, View, Left, Lesser, kGlobalHeader
<1>3. at' = "exit" /\ UNCHANGED <<file, reader, seen, fed, finished, shown, frame>>
  BY DEF OpenFails, Exit
<1>4. frame' \in View
  BY <1>3 DEF Inv, Typed
<1> QED
  BY <1>1, <1>2, <1>3, <1>4, ExitKeeps

LEMMA LoadPolicyKeeps == Inv /\ LoadPolicy => Inv'
<1> SUFFICES ASSUME Inv, LoadPolicy PROVE Inv'
  OBVIOUS
<1>1. CASE at' = "exit"
  <2>1. shown' = {} /\ pos' \in Nat /\ buf' \in View /\ frame' \in View
    BY DEF Inv, Unfinished, LoadPolicy, Typed
  <2> QED
    BY <1>1, <2>1, ExitKeeps DEF LoadPolicy
<1>2. CASE at' = "next"
  <2>1. /\ FedAsWritten' /\ TimedAsWritten' /\ End' = End /\ seen' \in Seq(Stamp)
        /\ Len(fed') = Len(fed) /\ last' = last
    BY FedStays DEF LoadPolicy
  <2>2. Typed'
    BY <1>2 DEF Inv, Typed, Call, LoadPolicy
  <2>3. Recognised'
    BY <1>2 DEF Inv, Recognised, LoadPolicy
  <2>4. Following'
    BY <1>2, <2>1 DEF Inv, Following, LoadPolicy
  <2>5. NothingLeftUnfed' /\ Unfinished' /\ Finished' /\ FinishedAtTheLastFrame'
    BY <1>2 DEF Inv, NothingLeftUnfed, Unfinished, Finished, FinishedAtTheLastFrame, LoadPolicy
  <2> QED
    BY <2>1, <2>2, <2>3, <2>4, <2>5 DEF Inv
<1> QED
  BY <1>1, <1>2 DEF LoadPolicy, Exit

\* The three ways the loop ends: it goes to finish with what is left of the file.
LEMMA EndKeeps ==
  ASSUME Inv, at \in {"next", "body"}, at' = "finish",
         UNCHANGED <<file, frame, fed, finished, shown>>,
         \/ UNCHANGED seen
         \/ \E stamp \in Stamps : seen' = Append(seen, stamp),
         pos' \in Nat, buf' \in View,
         reader' = [reader EXCEPT !.truncated = (End < file.size)],
         \/ file.size - End < kRecordHeader
         \/ /\ Len(seen') = Len(fed) + 1
            /\ \/ seen'[Len(seen')].incl > kMaxRecord
               \/ End + kRecordHeader + seen'[Len(seen')].incl > file.size
  PROVE  Inv'
<1>1. /\ FedAsWritten' /\ TimedAsWritten' /\ End' = End /\ seen' \in Seq(Stamp)
      /\ Len(fed') = Len(fed) /\ last' = last
  BY FedStays
<1>2. (End < file.size) \in BOOLEAN
  OBVIOUS
<1>3. Typed'
  BY <1>1, <1>2 DEF Inv, Typed, Call
<1>4. Recognised'
  BY DEF Inv, Typed, Recognised
<1>5. Len(seen) \in Nat /\ Len(seen') \in Nat /\ Len(seen) <= Len(seen') /\ Len(fed) \in Nat
  BY ReplayAssumption DEF Inv, Typed
<1>6. Following'
  BY <1>1, <1>5 DEF Inv, Following
<1>7. NothingLeftUnfed'
  <2>1. reader'.truncated <=> End < file.size
    BY DEF Inv, Typed
  <2> QED
    BY <1>1, <2>1 DEF NothingLeftUnfed, End
<1>8. Unfinished' /\ Finished' /\ FinishedAtTheLastFrame'
  BY <1>1 DEF Inv, Unfinished, Finished, FinishedAtTheLastFrame
<1> QED
  BY <1>1, <1>3, <1>4, <1>6, <1>7, <1>8 DEF Inv

LEMMA EndOfFileKeeps == Inv /\ EndOfFile => Inv'
<1> SUFFICES ASSUME Inv, EndOfFile PROVE Inv'
  OBVIOUS
<1>1. at = "next" /\ ~Has(16) /\ Read(16) /\ at' = "finish"
      /\ UNCHANGED <<file, frame, seen, fed, finished, shown>>
  BY DEF EndOfFile, kRecordHeader
<1>2. pos = End /\ pos <= file.size /\ ~reader.truncated
  BY <1>1 DEF Inv, Following
<1>3. pos' \in Nat /\ buf' \in View
  BY <1>1, <1>2, ReadGoesOn DEF Inv
<1>4. pos \in Nat /\ file.size \in Nat
  BY DEF Inv, Typed, File
<1>5. file.size - End < kRecordHeader
  BY <1>1, <1>2, <1>4 DEF Has, Left, kRecordHeader
<1>6. Left # 0 <=> End < file.size
  BY <1>2, <1>4 DEF Left
<1>7. reader' = [reader EXCEPT !.truncated = (End < file.size)]
  <2>1. reader \in [swap : BOOLEAN, nanos : BOOLEAN, link : Link, truncated : BOOLEAN]
    BY DEF Inv, Typed
  <2>2. CASE Left # 0
    BY <1>6, <2>2 DEF EndOfFile, Truncated
  <2>3. CASE Left = 0
    <3>1. (End < file.size) = FALSE /\ reader.truncated = FALSE
      BY <1>2, <1>6, <2>1, <2>3
    <3>2. reader' = reader
      BY <2>3 DEF EndOfFile
    <3> QED
      BY <2>1, <3>1, <3>2
  <2> QED
    BY <2>2, <2>3
<1> QED
  BY <1>1, <1>3, <1>5, <1>7, EndKeeps

LEMMA RecordHeaderKeeps == Inv /\ RecordHeader => Inv'
<1> SUFFICES ASSUME Inv, RecordHeader PROVE Inv'
  OBVIOUS
<1>1. at = "next" /\ Has(16) /\ Read(16) /\ UNCHANGED <<file, frame, fed, finished, shown>>
  BY DEF RecordHeader, kRecordHeader
<1>2. PICK stamp \in Stamps :
        /\ seen' = Append(seen, stamp)
        /\ IF Fix32(Raw(stamp.incl)) > kMaxRecord
             THEN at' = "finish" /\ Truncated
             ELSE at' = "body" /\ UNCHANGED reader
  BY DEF RecordHeader
<1>3. pos = End /\ pos <= file.size /\ Len(seen) = Len(fed) /\ ~reader.truncated
  BY <1>1 DEF Inv, Following
<1>4. pos' \in Nat /\ buf' \in View /\ pos' = pos + 16 /\ pos' <= file.size
  BY <1>1, <1>3, ReadGoesOn DEF Inv
<1>5. pos \in Nat /\ file.size \in Nat /\ Len(fed) \in Nat
  BY DEF Inv, Typed, File
<1>6. /\ stamp \in Stamp /\ stamp.incl \in Word32 /\ Fix32(Raw(stamp.incl)) = stamp.incl
  <2>1. stamp \in Stamp
    BY ReplayAssumption
  <2>2. stamp.incl \in Word32
    BY <2>1 DEF Stamp
  <2> QED
    BY <1>1, <2>1, <2>2, AsWritten DEF Inv
<1>7. Len(seen') = Len(fed) + 1 /\ seen'[Len(seen')] = stamp
  BY <1>2, <1>3, <1>5, <1>6 DEF Inv, Typed
<1>8. CASE stamp.incl > kMaxRecord
  <2>1. at' = "finish" /\ Truncated
    BY <1>2, <1>6, <1>8
  <2>2. (End < file.size) = TRUE
    BY <1>3, <1>4, <1>5
  <2>3. reader' = [reader EXCEPT !.truncated = (End < file.size)]
    BY <2>1, <2>2 DEF Truncated
  <2> QED
    BY <1>1, <1>2, <1>4, <1>7, <1>8, <2>1, <2>3, EndKeeps
<1>9. CASE ~(stamp.incl > kMaxRecord)
  <2>1. at' = "body" /\ UNCHANGED reader
    BY <1>2, <1>6, <1>9
  <2>2. /\ FedAsWritten' /\ TimedAsWritten' /\ End' = End /\ seen' \in Seq(Stamp)
        /\ Len(fed') = Len(fed) /\ last' = last
    BY <1>1, <1>2, FedStays
  <2>3. Typed'
    BY <1>1, <1>4, <2>1, <2>2 DEF Inv, Typed, Call
  <2>4. Recognised'
    BY <1>1, <2>1 DEF Inv, Recognised
  <2>5. Following'
    BY <1>1, <1>3, <1>4, <1>5, <1>7, <2>1, <2>2 DEF Inv, Following, kRecordHeader
  <2>6. NothingLeftUnfed' /\ Unfinished' /\ Finished' /\ FinishedAtTheLastFrame'
    BY <1>1, <2>1 DEF Inv, NothingLeftUnfed, Unfinished, Finished, FinishedAtTheLastFrame
  <2> QED
    BY <2>2, <2>3, <2>4, <2>5, <2>6 DEF Inv
<1> QED
  BY <1>8, <1>9

LEMMA CutBodyKeeps == Inv /\ CutBody => Inv'
<1> SUFFICES ASSUME Inv, CutBody PROVE Inv'
  OBVIOUS
<1>1. at = "body" /\ ~Has(incl) /\ Read(incl) /\ Truncated /\ at' = "finish"
      /\ UNCHANGED <<file, frame, seen, fed, finished, shown>>
  BY DEF CutBody
<1>2. /\ pos = End + 16 /\ pos <= file.size /\ Len(seen) = Len(fed) + 1
  BY <1>1 DEF Inv, Following, kRecordHeader
<1>3. incl = seen[Len(seen)].incl /\ incl \in Nat
  BY <1>1, LastRecord DEF Inv
<1>4. pos' \in Nat /\ buf' \in View
  BY <1>1, <1>2, <1>3, ReadGoesOn DEF Inv
<1>5. pos \in Nat /\ file.size \in Nat /\ End \in Nat
  BY DEF Inv, Typed, File, Following
<1>6. End + kRecordHeader + incl > file.size
  BY <1>1, <1>2, <1>3, <1>5 DEF Has, Left, kRecordHeader
<1>7. (End < file.size) = TRUE
  BY <1>2, <1>5
<1>8. reader' = [reader EXCEPT !.truncated = (End < file.size)]
  BY <1>1, <1>7 DEF Truncated
<1>9. /\ Len(seen') = Len(fed) + 1
      /\ End + kRecordHeader + seen'[Len(seen')].incl > file.size
  BY <1>1, <1>2, <1>3, <1>6
<1> QED
  BY <1>1, <1>4, <1>8, <1>9, EndKeeps

LEMMA RecordBodyKeeps == Inv /\ RecordBody => Inv'
<1> SUFFICES ASSUME Inv, RecordBody PROVE Inv'
  OBVIOUS
<1>1. at = "body" /\ Has(incl) /\ Read(incl) /\ frame' = buf' /\ at' = "process"
      /\ UNCHANGED <<file, reader, seen, fed, finished, shown>>
  BY DEF RecordBody
<1>2. pos = End + 16 /\ pos <= file.size /\ Len(seen) = Len(fed) + 1
  BY <1>1 DEF Inv, Following, kRecordHeader
<1>3. incl = seen[Len(seen)].incl /\ incl \in Nat
  BY <1>1, LastRecord DEF Inv
<1>4. /\ pos' \in Nat /\ buf' \in View /\ buf' = [from |-> pos, count |-> incl]
      /\ pos' = pos + incl /\ pos' <= file.size
  BY <1>1, <1>2, <1>3, ReadGoesOn DEF Inv
<1>5. /\ FedAsWritten' /\ TimedAsWritten' /\ End' = End /\ seen' \in Seq(Stamp)
      /\ Len(fed') = Len(fed) /\ last' = last
  BY <1>1, FedStays
<1>6. Typed'
  BY <1>1, <1>4, <1>5 DEF Inv, Typed, Call
<1>7. Recognised'
  BY <1>1 DEF Inv, Recognised
<1>8. Following'
  <2>1. buf' = [from |-> End + kRecordHeader, count |-> seen[Len(seen)].incl]
    BY <1>2, <1>3, <1>4 DEF kRecordHeader
  <2>2. pos' = buf'.from + buf'.count
    BY <1>4
  <2> QED
    BY <1>1, <1>2, <1>4, <1>5, <2>1, <2>2 DEF Inv, Following
<1>9. NothingLeftUnfed' /\ Unfinished' /\ Finished' /\ FinishedAtTheLastFrame'
  BY <1>1 DEF Inv, NothingLeftUnfed, Unfinished, Finished, FinishedAtTheLastFrame
<1> QED
  BY <1>5, <1>6, <1>7, <1>8, <1>9 DEF Inv

LEMMA ProcessKeeps == Inv /\ Process => Inv'
<1> SUFFICES ASSUME Inv, Process PROVE Inv'
  OBVIOUS
<1> DEFINE call == [view |-> frame, found |-> buf, ts |-> ts]
           n    == Len(fed)
<1>1. /\ at = "process" /\ fed' = Append(fed, call) /\ at' = "next"
      /\ UNCHANGED <<file, pos, buf, frame, reader, seen, finished, shown>>
  BY DEF Process
<1>2. /\ buf = [from |-> End + kRecordHeader, count |-> seen[Len(seen)].incl]
      /\ frame = buf /\ pos = buf.from + buf.count /\ pos <= file.size
      /\ Len(seen) = n + 1 /\ ~reader.truncated
  BY <1>1 DEF Inv, Following
<1>3. ts = TimeOf(seen[n + 1]) /\ ts \in Nat
  BY <1>1, <1>2, LastRecord DEF Inv
<1>4. call \in Fed /\ call.view = buf /\ call.found = buf /\ call.ts = ts
  BY <1>2, <1>3 DEF Inv, Typed, Fed
<1> HIDE DEF call
<1>5. /\ fed' \in Seq(Fed) /\ Len(fed') = n + 1 /\ n \in Nat
      /\ fed'[n + 1] = call /\ \A k \in 1 .. n : fed'[k] = fed[k]
      /\ DOMAIN fed' = 1 .. n + 1 /\ DOMAIN fed = 1 .. n
  BY <1>1, <1>4 DEF Inv, Typed
<1> DEFINE next(k) == IF k = 0 THEN kGlobalHeader ELSE fed'[k].view.from + fed'[k].view.count
<1>6. \A k \in 0 .. n : next(k) = EndOf(k)
  BY <1>5 DEF EndOf
<1>7. next(n + 1) = pos /\ End' = pos
  <2>1. next(n + 1) = call.view.from + call.view.count
    BY <1>5
  <2>2. next(n + 1) = pos
    BY <2>1, <1>2, <1>4
  <2>3. End' = next(n + 1)
    BY <1>5 DEF End, EndOf
  <2> QED
    BY <2>2, <2>3
<1>8. FedAsWritten'
  <2> SUFFICES ASSUME NEW k \in 1 .. n + 1
               PROVE  /\ fed'[k].view = [from |-> next(k - 1) + kRecordHeader,
                                         count |-> seen[k].incl]
                      /\ fed'[k].found = fed'[k].view
                      /\ next(k) <= file.size
    BY <1>1, <1>5 DEF FedAsWritten, EndOf
  <2> HIDE DEF next
  <2>1. CASE k = n + 1
    <3>1. next(k - 1) = End
      BY <1>5, <1>6, <2>1 DEF End
    <3> QED
      BY <1>2, <1>4, <1>5, <1>7, <2>1, <3>1
  <2>2. CASE k \in 1 .. n
    <3>1. k - 1 \in 0 .. n /\ k \in 0 .. n /\ k \in DOMAIN fed
      BY <1>5, <2>2
    <3>2. next(k - 1) = EndOf(k - 1) /\ next(k) = EndOf(k) /\ fed'[k] = fed[k]
      BY <1>5, <1>6, <2>2, <3>1
    <3> QED
      BY <3>1, <3>2 DEF Inv, FedAsWritten
  <2> QED
    BY <1>5, <2>1, <2>2
<1>9. TimedAsWritten'
  <2> SUFFICES ASSUME NEW k \in 1 .. n + 1 PROVE fed'[k].ts = TimeOf(seen[k])
    BY <1>1, <1>5 DEF TimedAsWritten, TimeOf
  <2>1. CASE k = n + 1
    BY <1>3, <1>4, <1>5, <2>1
  <2>2. CASE k \in 1 .. n
    BY <1>5, <2>2 DEF Inv, TimedAsWritten
  <2> QED
    BY <1>5, <2>1, <2>2
<1>10. Typed'
  BY <1>1, <1>5 DEF Inv, Typed, Call
<1>11. Recognised'
  BY <1>1 DEF Inv, Recognised
<1>12. Following'
  BY <1>1, <1>2, <1>5, <1>7 DEF Inv, Following, Typed
<1>13. NothingLeftUnfed' /\ Unfinished' /\ Finished' /\ FinishedAtTheLastFrame'
  BY <1>1 DEF Inv, NothingLeftUnfed, Unfinished, Finished, FinishedAtTheLastFrame
<1> QED
  BY <1>8, <1>9, <1>10, <1>11, <1>12, <1>13 DEF Inv

LEMMA FinishKeeps == Inv /\ Finish => Inv'
<1> SUFFICES ASSUME Inv, Finish PROVE Inv'
  OBVIOUS
<1>1. /\ at = "finish" /\ finished' = Append(finished, last) /\ at' = "output"
      /\ UNCHANGED <<file, pos, buf, frame, reader, seen, fed, shown>>
  BY DEF Finish
<1>2. finished' = <<last>> /\ shown' = {}
  BY <1>1 DEF Inv, Unfinished
<1>3. /\ FedAsWritten' /\ TimedAsWritten' /\ End' = End /\ seen' \in Seq(Stamp)
      /\ Len(fed') = Len(fed) /\ last' = last
  BY <1>1, FedStays
<1>4. Typed' /\ Recognised'
  BY <1>1 DEF Inv, Typed, Call, Recognised
<1>5. Following'
  BY <1>1, <1>3 DEF Inv, Following
<1>6. NothingLeftUnfed'
  BY <1>1, <1>3 DEF Inv, NothingLeftUnfed, End
<1>7. Unfinished' /\ Finished' /\ FinishedAtTheLastFrame'
  BY <1>1, <1>2, <1>3 DEF Unfinished, Finished, FinishedAtTheLastFrame
<1> QED
  BY <1>3, <1>4, <1>5, <1>6, <1>7 DEF Inv

LEMMA OutputKeeps == Inv /\ Output => Inv'
<1> SUFFICES ASSUME Inv, Output PROVE Inv'
  OBVIOUS
<1>1. at = "output" /\ at' = "exit"
      /\ UNCHANGED <<file, pos, buf, frame, reader, seen, fed, finished>>
  BY DEF Output, Exit
<1>2. finished = <<last>>
  BY <1>1 DEF Inv, Finished
<1>3. pos' \in Nat /\ buf' \in View /\ frame' \in View
  BY <1>1 DEF Inv, Typed
<1> QED
  BY <1>1, <1>2, <1>3, ExitKeeps

LEMMA ReplayNext == Inv /\ [Next]_vars => Inv'
<1> SUFFICES ASSUME Inv, [Next]_vars PROVE Inv'
  OBVIOUS
<1>1. CASE UNCHANGED vars
  <2>1. UNCHANGED <<file, at, pos, buf, frame, reader, seen, fed, finished, shown>>
    BY <1>1 DEF vars
  <2>2. /\ FedAsWritten' /\ TimedAsWritten' /\ End' = End /\ last' = last
    BY <2>1, FedStays
  <2>3. Typed' /\ Recognised' /\ Unfinished'
    BY <2>1 DEF Inv, Typed, Recognised, Unfinished
  <2>4. Following'
    BY <2>1, <2>2 DEF Inv, Following
  <2>5. NothingLeftUnfed' /\ Finished' /\ FinishedAtTheLastFrame'
    BY <2>1, <2>2 DEF Inv, NothingLeftUnfed, End, Finished, FinishedAtTheLastFrame
  <2> QED
    BY <2>2, <2>3, <2>4, <2>5 DEF Inv
<1> QED
  BY <1>1, OpenKeeps, OpenFailsKeeps, LoadPolicyKeeps, EndOfFileKeeps, RecordHeaderKeeps,
     CutBodyKeeps, RecordBodyKeeps, ProcessKeeps, FinishKeeps, OutputKeeps DEF Next

THEOREM ReplayInvariant == Spec => []Inv
  BY ReplayInit, ReplayNext, PTL DEF Spec

-----------------------------------------------------------------------------
\* Every frame the engine is given is the body of the next record of the file, whole,
\* and is still in the buffer while the engine looks at it (pcap.cpp:88-118,
\* main.cpp:104-107).
THEOREM RecordsAreFedAsWritten == Spec => []FedAsWritten
  BY ReplayInvariant, PTL DEF Inv

\* The loop ends at the end of the capture and nowhere before it, and the reader says
\* whether a record was cut (pcap.cpp:88-112).
THEOREM CapturesAreFedWhole == Spec => []NothingLeftUnfed
  BY ReplayInvariant, PTL DEF Inv

\* The engine's last aging pass runs once, at the time of the last frame it was given
\* and before anything is printed (main.cpp:102-134).
THEOREM FinishIsLast == Spec => []FinishedAtTheLastFrame
  BY ReplayInvariant, PTL DEF Inv

LEMMA QuotientMonotone ==
  ASSUME NEW N \in Nat \ {0}, NEW a \in Nat, NEW b \in Nat, a <= b
  PROVE  a \div N <= b \div N
  BY Z3

\* The fraction of a second, in microseconds, is less than a second.
LEMMA TimesOrdered ==
  ASSUME NEW M \in Nat, NEW s \in Nat, NEW t \in Nat, NEW f \in Nat, NEW g \in Nat,
         f < M, s < t \/ (s = t /\ f <= g)
  PROVE  s * M + f <= t * M + g
<1>1. CASE s = t /\ f <= g
  BY <1>1
<1>2. CASE s < t
  <2>1. \A x, y \in Nat : x <= y => x * M <= y * M
    BY Z3
  <2>2. (s + 1) * M <= t * M
    BY <1>2, <2>1
  <2>3. (s + 1) * M = s * M + M
    BY Z3
  <2>4. s * M \in Nat /\ t * M \in Nat
    BY Z3
  <2> QED
    BY <2>2, <2>3, <2>4
<1> QED
  BY <1>1, <1>2

LEMMA OrderKept == Inv => TimesKeepOrder
<1> SUFFICES ASSUME Inv, NEW j \in DOMAIN fed, NEW k \in DOMAIN fed,
                    seen[j].frac < Fraction, seen[k].frac < Fraction,
                    Before(seen[j], seen[k])
             PROVE  fed[j].ts <= fed[k].ts
  BY DEF TimesKeepOrder
<1>1. j \in DOMAIN seen /\ k \in DOMAIN seen
  BY DEF Inv, Typed, Following
<1> DEFINE s == seen[j]
           t == seen[k]
           f == IF file.magic = kMagicNs THEN s.frac \div NanosPerMicro ELSE s.frac
           g == IF file.magic = kMagicNs THEN t.frac \div NanosPerMicro ELSE t.frac
<1>2. s.sec \in Nat /\ s.frac \in Nat /\ t.sec \in Nat /\ t.frac \in Nat
  BY <1>1, StampTyped DEF Inv
<1>3. fed[j].ts = s.sec * MicrosPerSec + f /\ fed[k].ts = t.sec * MicrosPerSec + g
  BY DEF Inv, TimedAsWritten, TimeOf
<1>4. s.frac < Fraction /\ (s.sec < t.sec \/ (s.sec = t.sec /\ s.frac <= t.frac))
  BY DEF Before
<1> HIDE DEF s, t
<1>5. f \in Nat /\ g \in Nat /\ f < MicrosPerSec /\ (s.frac <= t.frac => f <= g)
  <2>1. CASE file.magic = kMagicNs
    <3>1. s.frac < NanosPerMicro * MicrosPerSec
      BY <1>2, <1>4, <2>1, ByteBaseTyped DEF Fraction
    <3>2. s.frac \div NanosPerMicro \in Nat /\ t.frac \div NanosPerMicro \in Nat
      BY <1>2, ByteBaseTyped, Recomposed
    <3>3. s.frac \div NanosPerMicro < MicrosPerSec
      BY <1>2, <3>1, ByteBaseTyped, Narrower
    <3>4. s.frac <= t.frac => s.frac \div NanosPerMicro <= t.frac \div NanosPerMicro
      BY <1>2, ByteBaseTyped, QuotientMonotone
    <3> QED
      BY <2>1, <3>2, <3>3, <3>4
  <2>2. CASE file.magic # kMagicNs
    BY <1>2, <1>4, <2>2 DEF Fraction
  <2> QED
    BY <2>1, <2>2
<1> HIDE DEF f, g
<1>6. s.sec * MicrosPerSec + f <= t.sec * MicrosPerSec + g
  BY <1>2, <1>4, <1>5, ByteBaseTyped, TimesOrdered
<1> QED
  BY <1>3, <1>6

\* What was captured earlier, by its seconds and its fraction of a second, is never given
\* to the engine with a later time, in whichever unit the fraction is (pcap.cpp:114-115).
THEOREM TimesAreOrdered == Spec => []TimesKeepOrder
  BY ReplayInvariant, OrderKept, PTL
=============================================================================
