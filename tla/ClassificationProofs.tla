------------------------ MODULE ClassificationProofs ------------------------
(***************************************************************************)
(* For every payload, of any size and with any lengths in it: the two      *)
(* walks read nothing outside it, and a server name is found only whole.   *)
(***************************************************************************)
EXTENDS Classification, FiniteSetTheorems, TLAPS

-----------------------------------------------------------------------------
(***************************************************************************)
(* The walk to the server name.  The four ends are nested, and each is     *)
(* still zero in the steps before the one that sets it; those are named    *)
(* by the number of ends that they have set.                               *)
(***************************************************************************)
Unbounded == {"record"}
Bounded   == {"record", "hello", "session_id", "cipher_suites", "compression", "extensions"}
InBlock   == Bounded \cup {"extension"}
InList    == InBlock \cup {"name"}

SniTyped == /\ size \in Nat /\ off \in Nat /\ limit \in Nat /\ sni \in Nat
            /\ ends \in [extensions : Nat, list : Nat, name : Nat]
            /\ answer \in BOOLEAN

Nested == /\ ends.name <= ends.list
          /\ ends.list <= ends.extensions
          /\ ends.extensions <= limit
          /\ limit <= size

Ordered == /\ step \in Unbounded => limit = 0 /\ off = 0
           /\ step \in Bounded => ends.extensions = 0
           /\ step \in InBlock => ends.list = 0
           /\ step \in InList => ends.name = 0
           /\ step = "host" => off <= ends.name
           /\ answer => step = "returned" /\ sni > 0 /\ off = ends.name

SniInv == SniTyped /\ Nested /\ Ordered /\ ReadsInPayload

LEMMA LesserBounds ==
  ASSUME NEW a \in Nat, NEW b \in Nat
  PROVE  Lesser(a, b) \in Nat /\ Lesser(a, b) <= a /\ Lesser(a, b) <= b
  BY DEF Lesser

LEMMA SniInit == Init => SniInv
<1> SUFFICES ASSUME Init PROVE SniInv
  OBVIOUS
<1>1. size \in Nat
  BY SniWalkAssumption DEF Init
<1>2. SniTyped
  BY <1>1 DEF Init, SniTyped
<1>3. Nested /\ Ordered /\ ReadsInPayload
  BY <1>1 DEF Init, Nested, Ordered, Unbounded, Bounded, InBlock, InList, ReadsInPayload
<1> QED
  BY <1>2, <1>3 DEF SniInv

\* A return leaves everything as it was but the answer.
LEMMA SniReturned ==
  ASSUME SniInv, NEW found \in BOOLEAN, Return(found), step # "returned",
         found => sni > 0 /\ off = ends.name,
         \A r \in reads' : r.from + r.count <= size
  PROVE  SniInv'
<1>1. SniTyped' /\ Nested'
  BY DEF SniInv, SniTyped, Nested, Return
<1>2. Ordered'
  BY DEF SniInv, Return, Ordered, Unbounded, Bounded, InBlock, InList
<1>3. ReadsInPayload'
  BY DEF ReadsInPayload, Return
<1> QED
  BY <1>1, <1>2, <1>3 DEF SniInv

LEMMA SniNext == SniInv /\ Next => SniInv'
<1> SUFFICES ASSUME SniInv, Next PROVE SniInv'
  OBVIOUS
<1> USE DEF SniInv
<1>t. Lengths8 \subseteq Nat /\ Lengths16 \subseteq Nat
  BY SniWalkAssumption
<1>n. /\ step # "returned" => ~answer
      /\ reads' = {} => \A r \in reads' : r.from + r.count <= size
  BY DEF Ordered
<1>1. CASE Record
  <2>0. step # "returned"
    BY <1>1 DEF Record
  <2>1. CASE reads' = {} /\ Return(FALSE)
    BY <2>0, <2>1, <1>n, SniReturned
  <2>3. CASE size >= 5 /\ reads' = {Window(0, 1)} /\ Return(FALSE)
    <3>1. \A r \in reads' : r.from + r.count <= size
      BY <2>3 DEF Window, SniTyped
    <3> QED
      BY <2>0, <2>3, <3>1, SniReturned
  <2>2. ASSUME NEW record_len \in Lengths16, size >= 5,
               reads' = {Window(0, 1), Window(3, 2)},
               limit' = 5 + Lesser(record_len, size - 5),
               Go("hello", 5), UNCHANGED <<ends, sni>>
        PROVE  SniInv'
    <3>1. limit' \in Nat /\ limit' <= size
      <4>1. size - 5 \in Nat /\ record_len \in Nat
        BY <2>2, <1>t DEF SniTyped
      <4>2. Lesser(record_len, size - 5) \in Nat /\ Lesser(record_len, size - 5) <= size - 5
        BY <4>1, LesserBounds
      <4> QED
        BY <4>1, <4>2, <2>2 DEF SniTyped
    <3>2. ReadsInPayload'
      BY <2>2 DEF ReadsInPayload, Window, Go, SniTyped
    <3>3. SniTyped'
      BY <2>2, <3>1 DEF SniTyped, Go
    <3>4. Nested'
      BY <2>2, <1>1, <3>1 DEF Nested, SniTyped, Go, Record, Ordered, Bounded
    <3>5. Ordered'
      BY <2>2, <1>1, <1>n DEF Ordered, Go, Record, Unbounded, Bounded, InBlock, InList
    <3> QED
      BY <3>2, <3>3, <3>4, <3>5
  <2> QED
    BY <1>1, <2>1, <2>2, <2>3 DEF Record
<1>2. CASE Hello
  <2>1. CASE Return(FALSE) /\ (reads' = {} \/ (Fits(4, limit) /\ reads' = {Window(off, 1)}))
    <3>1. \A r \in reads' : r.from + r.count <= size
      BY <2>1 DEF Window, Fits, SniTyped, Nested
    <3> QED
      BY <2>1, <1>2, <3>1, SniReturned DEF Hello
  <2>2. CASE /\ Fits(4 + 34, limit) /\ reads' = {Window(off, 1)}
             /\ Go("session_id", off + 38) /\ UNCHANGED <<limit, ends, sni>>
    <3>2. ReadsInPayload'
      BY <2>2 DEF ReadsInPayload, Window, Go, SniTyped, Fits, Nested
    <3>3. SniTyped'
      BY <2>2 DEF SniTyped, Go
    <3>4. Nested'
      BY <2>2 DEF Nested, Go
    <3>5. Ordered'
      BY <2>2, <1>2, <1>n DEF Ordered, Go, Hello, Unbounded, Bounded, InBlock, InList
    <3> QED
      BY <3>2, <3>3, <3>4, <3>5
  <2> QED
    BY <1>2, <2>1, <2>2 DEF Hello
<1>3. ASSUME NEW here \in Bounded \ Unbounded, NEW next \in Bounded \ Unbounded,
             NEW width \in Nat, NEW lengths \in SUBSET Nat, Skip(here, next, width, lengths)
      PROVE  SniInv'
  <2>1. CASE Return(FALSE) /\ reads' = {}
    BY <2>1, <1>3, <1>n, SniReturned DEF Skip, Bounded, Unbounded
  <2>2. ASSUME NEW len \in lengths, Fits(width, limit), reads' = {Window(off, width)},
               Go(next, off + width + len), UNCHANGED <<limit, ends, sni>>
        PROVE  SniInv'
    <3>2. ReadsInPayload'
      BY <2>2 DEF ReadsInPayload, Window, Go, SniTyped, Fits, Nested
    <3>3. SniTyped'
      BY <2>2 DEF SniTyped, Go
    <3>4. Nested'
      BY <2>2 DEF Nested, Go
    <3>5. Ordered'
      BY <2>2, <1>3, <1>n DEF Ordered, Go, Skip, Unbounded, Bounded, InBlock, InList
    <3> QED
      BY <3>2, <3>3, <3>4, <3>5
  <2> QED
    BY <1>3, <2>1, <2>2 DEF Skip
<1>4. CASE SessionId \/ CipherSuites \/ Compression
  BY <1>3, <1>4, <1>t DEF SessionId, CipherSuites, Compression, Bounded, Unbounded
<1>5. CASE Extensions
  <2>1. CASE Return(FALSE) /\ reads' = {}
    BY <2>1, <1>5, <1>n, SniReturned DEF Extensions
  <2>2. ASSUME NEW len \in Lengths16, Fits(2, limit), reads' = {Window(off, 2)},
               ends' = [ends EXCEPT !.extensions = Lesser(off + 2 + len, limit)],
               Go("extension", off + 2), UNCHANGED <<limit, sni>>
        PROVE  SniInv'
    <3>1. ends'.extensions \in Nat /\ ends'.extensions <= limit
          /\ ends'.list = ends.list /\ ends'.name = ends.name
      <4>1. off + 2 + len \in Nat /\ limit \in Nat
        BY <2>2, <1>t DEF SniTyped
      <4>2. Lesser(off + 2 + len, limit) \in Nat /\ Lesser(off + 2 + len, limit) <= limit
        BY <4>1, LesserBounds
      <4> QED
        BY <4>2, <2>2 DEF SniTyped
    <3>2. ReadsInPayload'
      BY <2>2 DEF ReadsInPayload, Window, Go, SniTyped, Fits, Nested
    <3>3. SniTyped'
      BY <2>2, <3>1 DEF SniTyped, Go
    <3>4. Nested'
      BY <2>2, <1>5, <3>1 DEF Nested, Go, Ordered, Extensions, InBlock, Bounded, InList
    <3>5. Ordered'
      BY <2>2, <1>5, <1>n, <3>1 DEF Ordered, Go, Extensions, Unbounded, Bounded, InBlock, InList
    <3> QED
      BY <3>2, <3>3, <3>4, <3>5
  <2> QED
    BY <1>5, <2>1, <2>2 DEF Extensions
<1>6. CASE Extension
  <2>0. Fits(4, ends.extensions) /\ reads' = {Window(off, 2), Window(off + 2, 2)}
          => \A r \in reads' : r.from + r.count <= size
    BY DEF Window, Fits, SniTyped, Nested
  <2>1. CASE Return(FALSE) /\ (\/ reads' = {}
                               \/ /\ Fits(4, ends.extensions)
                                  /\ reads' = {Window(off, 2), Window(off + 2, 2)})
    BY <2>0, <2>1, <1>6, <1>n, SniReturned DEF Extension
  <2>2. ASSUME NEW len \in Lengths16, Fits(4, ends.extensions),
               reads' = {Window(off, 2), Window(off + 2, 2)},
               Go("extension", off + 4 + len), UNCHANGED <<limit, ends, sni>>
        PROVE  SniInv'
    <3>2. ReadsInPayload'
      BY <2>0, <2>2 DEF ReadsInPayload, Go
    <3>3. SniTyped'
      BY <2>2, <1>t DEF SniTyped, Go
    <3>4. Nested'
      BY <2>2 DEF Nested, Go
    <3>5. Ordered'
      BY <2>2, <1>6, <1>n DEF Ordered, Go, Extension, Unbounded, Bounded, InBlock, InList
    <3> QED
      BY <3>2, <3>3, <3>4, <3>5
  <2>3. ASSUME NEW len \in Lengths16, Fits(4, ends.extensions), Fits(4 + len, ends.extensions),
               reads' = {Window(off, 2), Window(off + 2, 2)},
               ends' = [ends EXCEPT !.list = off + 4 + len],
               Go("name", off + 6), UNCHANGED <<limit, sni>>
        PROVE  SniInv'
    <3>1. ends'.list \in Nat /\ ends'.list <= ends.extensions
          /\ ends'.extensions = ends.extensions /\ ends'.name = ends.name
      BY <2>3, <1>t DEF SniTyped, Fits
    <3>2. ReadsInPayload'
      BY <2>0, <2>3 DEF ReadsInPayload, Go
    <3>3. SniTyped'
      BY <2>3, <3>1 DEF SniTyped, Go
    <3>4. Nested'
      BY <2>3, <1>6, <3>1 DEF Nested, Go, Ordered, Extension, InBlock, Bounded, InList
    <3>5. Ordered'
      BY <2>3, <1>6, <1>n, <3>1 DEF Ordered, Go, Extension, Unbounded, Bounded, InBlock, InList
    <3> QED
      BY <3>2, <3>3, <3>4, <3>5
  <2> QED
    BY <1>6, <2>1, <2>2, <2>3 DEF Extension
<1>7. CASE Name
  <2>0. Fits(3, ends.list) /\ reads' = {Window(off, 1), Window(off + 1, 2)}
          => \A r \in reads' : r.from + r.count <= size
    BY DEF Window, Fits, SniTyped, Nested
  <2>1. CASE Return(FALSE) /\ (\/ reads' = {}
                               \/ /\ Fits(3, ends.list)
                                  /\ reads' = {Window(off, 1), Window(off + 1, 2)})
    BY <2>0, <2>1, <1>7, <1>n, SniReturned DEF Name
  <2>2. ASSUME NEW len \in Lengths16, Fits(3, ends.list),
               reads' = {Window(off, 1), Window(off + 1, 2)},
               Go("name", off + 3 + len), UNCHANGED <<limit, ends, sni>>
        PROVE  SniInv'
    <3>2. ReadsInPayload'
      BY <2>0, <2>2 DEF ReadsInPayload, Go
    <3>3. SniTyped'
      BY <2>2, <1>t DEF SniTyped, Go
    <3>4. Nested'
      BY <2>2 DEF Nested, Go
    <3>5. Ordered'
      BY <2>2, <1>7, <1>n DEF Ordered, Go, Name, Unbounded, Bounded, InBlock, InList
    <3> QED
      BY <3>2, <3>3, <3>4, <3>5
  <2>3. ASSUME NEW len \in Lengths16, Fits(3, ends.list), Fits(3 + len, ends.list),
               reads' = {Window(off, 1), Window(off + 1, 2)},
               ends' = [ends EXCEPT !.name = off + 3 + len], sni' = 0,
               Go("host", off + 3), UNCHANGED limit
        PROVE  SniInv'
    <3>1. ends'.name = off + 3 + len /\ ends'.name \in Nat /\ ends'.name <= ends.list
          /\ ends'.extensions = ends.extensions /\ ends'.list = ends.list
      BY <2>3, <1>t DEF SniTyped, Fits
    <3>2. ReadsInPayload'
      BY <2>0, <2>3 DEF ReadsInPayload, Go
    <3>3. SniTyped'
      BY <2>3, <3>1 DEF SniTyped, Go
    <3>4. Nested'
      BY <2>3, <3>1 DEF Nested, Go
    <3>6. off' <= ends'.name
      BY <2>3, <3>1, <1>t DEF Go, SniTyped
    <3>5. Ordered'
      BY <2>3, <1>7, <1>n, <3>6 DEF Ordered, Go, Name, Unbounded, Bounded, InBlock, InList
    <3> QED
      BY <3>2, <3>3, <3>4, <3>5
  <2> QED
    BY <1>7, <2>1, <2>2, <2>3 DEF Name
<1>8. CASE Host
  <2>0. off < ends.name /\ reads' = {Window(off, 1)} => \A r \in reads' : r.from + r.count <= size
    BY DEF Window, SniTyped, Nested
  <2>1. CASE Return(FALSE) /\ off < ends.name /\ reads' = {Window(off, 1)}
    BY <2>0, <2>1, <1>8, SniReturned DEF Host
  <2>2. CASE off = ends.name /\ reads' = {} /\ Return(sni > 0)
    <3>1. (sni > 0) \in BOOLEAN /\ step # "returned"
      BY <1>8 DEF Host
    <3>2. (sni > 0) => sni > 0 /\ off = ends.name
      BY <2>2
    <3> HIDE DEF SniInv
    <3> QED
      BY <2>2, <3>1, <3>2, <1>n, SniReturned, Zenon
  <2>3. CASE /\ off < ends.name /\ reads' = {Window(off, 1)} /\ sni' = sni + 1
             /\ Go("host", off + 1) /\ UNCHANGED <<limit, ends>>
    <3>2. ReadsInPayload'
      BY <2>0, <2>3 DEF ReadsInPayload, Go
    <3>3. SniTyped'
      BY <2>3 DEF SniTyped, Go
    <3>4. Nested'
      BY <2>3 DEF Nested, Go
    <3>6. off' <= ends'.name
      BY <2>3 DEF Go, SniTyped
    <3>5. Ordered'
      BY <2>3, <1>8, <1>n, <3>6 DEF Ordered, Go, Host, Unbounded, Bounded, InBlock, InList
    <3> QED
      BY <3>2, <3>3, <3>4, <3>5
  <2> QED
    BY <1>8, <2>1, <2>2, <2>3 DEF Host
<1> QED
  BY <1>1, <1>2, <1>4, <1>5, <1>6, <1>7, <1>8 DEF Next

-----------------------------------------------------------------------------
(***************************************************************************)
(* The walk over the labels of a question.                                 *)
(***************************************************************************)
DnsInv == /\ offset \in Nat /\ read \in Nat /\ Dns!size \in Nat
          /\ Dns!ReadsInMessage

LEMMA TailIsBytes ==
  ASSUME Dns!Init
  PROVE  tail \in Seq(Byte)
<1>1. CASE tail = <<>>
  BY <1>1
<1>2. CASE tail \in UNION {[1..n -> Byte] : n \in 0..MaxTail}
  <2>1. PICK n \in 0..MaxTail : tail \in [1..n -> Byte]
    BY <1>2
  <2>2. n \in Nat
    BY <2>1, ClassificationAssumption
  <2> QED
    BY <2>1, <2>2
<1> QED
  BY <1>1, <1>2 DEF Dns!Init

LEMMA DnsSize ==
  ASSUME Dns!Init
  PROVE  Dns!size \in Nat
<1>1. short \in {0, 1, 12} /\ tail \in Seq(Byte)
  BY TailIsBytes DEF Dns!Init, Dns!kHeader
<1>2. Len(tail) \in Nat
  BY <1>1
<1> QED
  BY <1>1, <1>2 DEF Dns!size, Dns!kHeader

LEMMA DnsInit == Dns!Init => DnsInv
<1> SUFFICES ASSUME Dns!Init PROVE DnsInv
  OBVIOUS
<1>1. Dns!size \in Nat
  BY DnsSize
<1> QED
  BY <1>1 DEF Dns!Init, DnsInv, Dns!ReadsInMessage

LEMMA DnsNext == DnsInv /\ Dns!Next => DnsInv'
<1> SUFFICES ASSUME DnsInv, Dns!Next PROVE DnsInv'
  OBVIOUS
<1>1. UNCHANGED <<short, header, tail>>
  BY DEF Dns!Next, Dns!Header, Dns!Label, Dns!given
<1>2. Dns!size' = Dns!size
  BY <1>1 DEF Dns!size
<1>3. CASE UNCHANGED <<read, offset>>
  BY <1>2, <1>3 DEF DnsInv, Dns!ReadsInMessage
<1>4. CASE Dns!Has(0, 12) /\ read' = 6 /\ offset' \in {offset, 12}
  BY <1>2, <1>4 DEF DnsInv, Dns!Has, Dns!ReadsInMessage
<1>5. CASE Dns!Has(offset, 1) /\ read' = offset + 1
           /\ (offset' = offset \/ (Dns!At(offset) \in 1..kMaxLabel
                                    /\ offset' = offset + Dns!At(offset) + 1))
  <2>1. read' \in Nat /\ read' <= Dns!size
    BY <1>5 DEF DnsInv, Dns!Has
  <2>2. offset' \in Nat
    <3>1. CASE offset' = offset
      BY <3>1 DEF DnsInv
    <3>2. CASE Dns!At(offset) \in 1..kMaxLabel /\ offset' = offset + Dns!At(offset) + 1
      <4>1. Dns!At(offset) \in Nat
        BY <3>2, ClassificationAssumption
      <4> QED
        BY <3>2, <4>1 DEF DnsInv
    <3> QED
      BY <1>5, <3>1, <3>2
  <2> QED
    BY <1>2, <2>1, <2>2 DEF DnsInv, Dns!ReadsInMessage
<1> QED
  BY <1>3, <1>4, <1>5 DEF Dns!Next, Dns!Header, Dns!Label, Dns!Return, Dns!kHeader

-----------------------------------------------------------------------------
(***************************************************************************)
(* What the walk over the labels finds: the name that IsName describes,    *)
(* when there is one.  The labels it has stepped over, with the place it   *)
(* is at, lie in every name there could be.                                *)
(***************************************************************************)
DnsGiven == /\ short \in {0, 1, 12} /\ header \in BOOLEAN /\ tail \in Seq(Byte)
            /\ short > 0 \/ ~header => tail = <<>>

Stepped(visited) ==
  /\ Cardinality(visited) = label /\ label <= kMaxLabels
  /\ Dns!kHeader \in visited \cup {offset}
  /\ \A p \in visited : /\ p < Dns!size /\ Dns!At(p) \in 1..kMaxLabel
                        /\ p + Dns!At(p) + 1 \in visited \cup {offset}
  /\ \A p \in (visited \cup {offset}) \ {Dns!kHeader} :
       \E q \in visited : q + Dns!At(q) + 1 = p
  /\ \A places \in SUBSET (Dns!kHeader .. Dns!size - 1) :
       Dns!IsName(places) => visited \cup {offset} \subseteq places

DnsFound ==
  /\ dns_step = "header" => label = 0
  /\ dns_step = "label" =>
       /\ short = 0 /\ header /\ offset >= Dns!kHeader
       /\ \E visited \in SUBSET (Dns!kHeader .. offset - 1) : Stepped(visited)
  /\ dns_step = "returned" => (dns_answer <=> Dns!LooksLikeDns)

LabelsInv == DnsInv /\ DnsGiven /\ DnsFound

LEMMA SameCardinality == \A S : Dns!Cardinality(S) = Cardinality(S)
  BY DEF Dns!Cardinality, Cardinality

LEMMA PlacesAreFinite ==
  ASSUME NEW n \in Nat, NEW places \in SUBSET (Dns!kHeader .. n - 1)
  PROVE  IsFiniteSet(places) /\ n \notin places
<1>1. places \subseteq 12 .. n - 1
  BY DEF Dns!kHeader
<1>2. IsFiniteSet(12 .. n - 1)
  BY FS_Interval
<1>3. IsFiniteSet(places)
  BY <1>1, <1>2, FS_Subset
<1>4. n \notin places
  BY <1>1
<1> QED
  BY <1>3, <1>4

LEMMA BytesAreNumbers ==
  ASSUME DnsGiven, short = 0
  PROVE  /\ Dns!size = 12 + Len(tail) /\ Len(tail) \in Nat
         /\ \A p \in Dns!kHeader .. Dns!size - 1 : Dns!At(p) \in Nat
<1>1. Dns!size = 12 + Len(tail) /\ Len(tail) \in Nat
  BY DEF DnsGiven, Dns!size, Dns!kHeader
<1>2. ASSUME NEW p \in Dns!kHeader .. Dns!size - 1
      PROVE  Dns!At(p) \in Nat
  <2>1. p - 12 + 1 \in 1..Len(tail)
    BY <1>1 DEF Dns!kHeader
  <2>2. tail[p - 12 + 1] \in Byte
    BY <2>1 DEF DnsGiven
  <2>3. Dns!At(p) = tail[p - 12 + 1]
    BY DEF Dns!At, Dns!kHeader
  <2>4. Byte \subseteq Nat
    BY ClassificationAssumption
  <2> QED
    BY <2>2, <2>3, <2>4
<1> QED
  BY <1>1, <1>2

\* What the message is does not change while it is walked.
LEMMA SameMessage ==
  ASSUME UNCHANGED <<short, header, tail>>
  PROVE  /\ Dns!size' = Dns!size
         /\ \A p : Dns!At(p)' = Dns!At(p)
         /\ \A places : Dns!IsName(places)' <=> Dns!IsName(places)
         /\ Dns!LooksLikeDns' <=> Dns!LooksLikeDns
<1>1. Dns!size' = Dns!size /\ \A p : Dns!At(p)' = Dns!At(p)
  BY DEF Dns!size, Dns!At
<1>2. \A places : Dns!IsName(places)' <=> Dns!IsName(places)
  BY DEF Dns!IsName, Dns!size, Dns!At
<1>3. Dns!LooksLikeDns' <=> Dns!LooksLikeDns
  BY <1>1, <1>2 DEF Dns!LooksLikeDns
<1> QED
  BY <1>1, <1>2, <1>3

LEMMA LabelsInit == Dns!Init => LabelsInv
<1> SUFFICES ASSUME Dns!Init PROVE LabelsInv
  OBVIOUS
<1>1. tail \in Seq(Byte)
  BY TailIsBytes
<1>2. DnsGiven
  BY <1>1 DEF Dns!Init, DnsGiven, Dns!kHeader
<1>3. DnsFound
  BY DEF Dns!Init, DnsFound
<1> QED
  BY <1>2, <1>3, DnsInit DEF LabelsInv

\* The end of a name is the last place of the one name that there can be.
LEMMA NameFound ==
  ASSUME LabelsInv, short = 0, header, offset >= Dns!kHeader,
         NEW visited \in SUBSET (Dns!kHeader .. offset - 1), Stepped(visited),
         label < kMaxLabels, Dns!Has(offset, 1), Dns!At(offset) = 0,
         Dns!Has(offset + 1, Dns!kTypes)
  PROVE  Dns!LooksLikeDns
<1> DEFINE places == visited \cup {offset}
<1>1. offset \in Nat /\ Dns!size \in Nat /\ offset < Dns!size
  BY DEF LabelsInv, DnsInv, Dns!Has
<1>2. IsFiniteSet(visited) /\ offset \notin visited
  BY <1>1, PlacesAreFinite
<1>3. Cardinality(places) = label + 1
  BY <1>2, FS_AddElement DEF Stepped
<1>4. Cardinality(places) <= kMaxLabels
  BY <1>3, ClassificationAssumption, <1>2, FS_CardinalityType DEF Stepped
<1>5. ASSUME NEW p \in places
      PROVE  /\ p < Dns!size
             /\ IF Dns!At(p) = 0 THEN p + 1 + Dns!kTypes <= Dns!size /\ \A q \in places : q <= p
                ELSE Dns!At(p) <= kMaxLabel /\ p + Dns!At(p) + 1 \in places
  <2>1. CASE p \in visited
    BY <2>1, ClassificationAssumption DEF Stepped
  <2>2. CASE p = offset
    <3>1. \A q \in places : q <= offset
      BY <1>1 DEF Dns!kHeader
    <3>2. offset + 1 + Dns!kTypes <= Dns!size
      BY DEF Dns!Has
    <3> QED
      BY <2>2, <3>1, <3>2, <1>1
  <2> QED
    BY <2>1, <2>2
<1>6. ASSUME NEW p \in places \ {Dns!kHeader}
      PROVE  \E q \in places : Dns!At(q) > 0 /\ q + Dns!At(q) + 1 = p
  BY ClassificationAssumption DEF Stepped
<1>7. places \in SUBSET (Dns!kHeader .. Dns!size - 1)
  BY <1>1 DEF Dns!kHeader
<1>8. Dns!IsName(places)
  <2>1. Dns!kHeader \in places
    BY DEF Stepped
  <2> HIDE DEF places
  <2> QED
    BY <1>4, <1>5, <1>6, <2>1, SameCardinality DEF Dns!IsName
<1> QED
  BY <1>7, <1>8 DEF Dns!LooksLikeDns

\* Where the walk gives up there is no name: any would lead through this place.
LEMMA NoNameFound ==
  ASSUME LabelsInv, short = 0, header, offset >= Dns!kHeader,
         NEW visited \in SUBSET (Dns!kHeader .. offset - 1), Stepped(visited),
         \/ label = kMaxLabels
         \/ ~Dns!Has(offset, 1)
         \/ Dns!At(offset) = 0 /\ ~Dns!Has(offset + 1, Dns!kTypes)
         \/ Dns!Has(offset, 1) /\ Dns!At(offset) > kMaxLabel
  PROVE  ~Dns!LooksLikeDns
<1> SUFFICES ASSUME NEW places \in SUBSET (Dns!kHeader .. Dns!size - 1), Dns!IsName(places)
             PROVE  FALSE
  BY DEF Dns!LooksLikeDns
<1>1. offset \in Nat /\ Dns!size \in Nat
  BY DEF LabelsInv, DnsInv
<1>2. visited \cup {offset} \subseteq places
  BY DEF Stepped
<1>3. IsFiniteSet(places)
  BY <1>1, PlacesAreFinite
<1>4. IsFiniteSet(visited) /\ offset \notin visited
  BY <1>1, PlacesAreFinite
<1>5. /\ offset < Dns!size
      /\ IF Dns!At(offset) = 0 THEN offset + 1 + Dns!kTypes <= Dns!size
                               ELSE Dns!At(offset) <= kMaxLabel
  BY <1>2 DEF Dns!IsName
<1>6. CASE label = kMaxLabels
  <2>1. Cardinality(visited \cup {offset}) = kMaxLabels + 1
    BY <1>4, <1>6, FS_AddElement DEF Stepped
  <2>2. Cardinality(visited \cup {offset}) <= Cardinality(places)
    BY <1>2, <1>3, FS_Subset
  <2>3. Cardinality(places) \in Nat
    BY <1>3, FS_CardinalityType
  <2>4. Cardinality(places) <= kMaxLabels
    BY SameCardinality DEF Dns!IsName
  <2> QED
    BY <2>1, <2>2, <2>3, <2>4, ClassificationAssumption
<1>7. CASE ~Dns!Has(offset, 1)
  BY <1>1, <1>5, <1>7 DEF Dns!Has
<1>8. CASE Dns!At(offset) = 0 /\ ~Dns!Has(offset + 1, Dns!kTypes)
  BY <1>1, <1>5, <1>8 DEF Dns!Has, Dns!kTypes
<1>9. CASE Dns!Has(offset, 1) /\ Dns!At(offset) > kMaxLabel
  <2>1. Dns!At(offset) \in Nat
    BY <1>1, <1>5, BytesAreNumbers DEF LabelsInv, Dns!kHeader
  <2> QED
    BY <1>5, <1>9, <2>1, ClassificationAssumption
<1> QED
  BY <1>6, <1>7, <1>8, <1>9

\* One more label stepped over.
LEMMA SteppedOver ==
  ASSUME LabelsInv, short = 0, header, offset >= Dns!kHeader,
         NEW visited \in SUBSET (Dns!kHeader .. offset - 1), Stepped(visited),
         UNCHANGED <<short, header, tail>>,
         label < kMaxLabels, Dns!Has(offset, 1), Dns!At(offset) \in 1..kMaxLabel,
         offset' = offset + Dns!At(offset) + 1, label' = label + 1
  PROVE  /\ offset' >= Dns!kHeader
         /\ \E later \in SUBSET (Dns!kHeader .. offset' - 1) : Stepped(later)'
<1>0. PICK later : later = visited \cup {offset}
  OBVIOUS
<1>1. /\ offset \in Nat /\ Dns!size \in Nat /\ offset < Dns!size
      /\ Dns!At(offset) \in Nat /\ Dns!At(offset) >= 1
      /\ offset' \in Nat /\ offset' >= offset + 2
  BY ClassificationAssumption DEF LabelsInv, DnsInv, Dns!Has
<1>2. IsFiniteSet(visited) /\ offset \notin visited
  BY <1>1, PlacesAreFinite
<1>3. Cardinality(later) = label' /\ label' <= kMaxLabels
  BY <1>0, <1>2, FS_AddElement, FS_CardinalityType, ClassificationAssumption DEF Stepped
<1>4. Dns!kHeader \in later \cup {offset'}
  BY <1>0 DEF Stepped
<1>5. \A p \in later : /\ p < Dns!size /\ Dns!At(p) \in 1..kMaxLabel
                       /\ p + Dns!At(p) + 1 \in later \cup {offset'}
  BY <1>0, <1>1 DEF Stepped
<1>6. \A p \in (later \cup {offset'}) \ {Dns!kHeader} :
        \E q \in later : q + Dns!At(q) + 1 = p
  BY <1>0, <1>1 DEF Stepped
<1>7. ASSUME NEW places \in SUBSET (Dns!kHeader .. Dns!size - 1), Dns!IsName(places)
      PROVE  later \cup {offset'} \subseteq places
  <2>1. visited \cup {offset} \subseteq places
    BY <1>7 DEF Stepped
  <2>2. offset + Dns!At(offset) + 1 \in places
    BY <1>1, <1>7, <2>1 DEF Dns!IsName
  <2> QED
    BY <1>0, <2>1, <2>2
<1>8. later \in SUBSET (Dns!kHeader .. offset' - 1)
  BY <1>0, <1>1 DEF Dns!kHeader
<1>9. Stepped(later)'
  <2>1. /\ Dns!size' = Dns!size
        /\ \A p : Dns!At(p)' = Dns!At(p)
        /\ \A places : Dns!IsName(places)' <=> Dns!IsName(places)
    BY SameMessage
  <2>2. Dns!kHeader' = Dns!kHeader
    BY DEF Dns!kHeader
  <2>3. \A p \in later : /\ p < Dns!size' /\ Dns!At(p)' \in 1..kMaxLabel
                         /\ p + Dns!At(p)' + 1 \in later \cup {offset'}
    BY <1>5, <2>1
  <2>4. \A p \in (later \cup {offset'}) \ {Dns!kHeader} :
          \E q \in later : q + Dns!At(q)' + 1 = p
    BY <1>6, <2>1
  <2>5. \A places \in SUBSET (Dns!kHeader .. Dns!size' - 1) :
          Dns!IsName(places)' => later \cup {offset'} \subseteq places
    BY <1>7, <2>1
  <2> QED
    BY <1>3, <1>4, <2>2, <2>3, <2>4, <2>5 DEF Stepped
<1>10. offset' >= Dns!kHeader
  BY <1>1 DEF Dns!kHeader
<1> QED
  BY <1>8, <1>9, <1>10

LEMMA LabelsNext == LabelsInv /\ Dns!Next => LabelsInv'
<1> SUFFICES ASSUME LabelsInv, Dns!Next PROVE LabelsInv'
  OBVIOUS
<1>1. UNCHANGED <<short, header, tail>>
  BY DEF Dns!Next, Dns!Header, Dns!Label, Dns!given
<1>2. DnsInv' /\ DnsGiven'
  BY <1>1, DnsNext DEF LabelsInv, DnsGiven
<1>3. Dns!LooksLikeDns' <=> Dns!LooksLikeDns
  BY <1>1, SameMessage
<1>4. ASSUME Dns!Return(FALSE), ~Dns!LooksLikeDns
      PROVE  DnsFound'
  BY <1>3, <1>4 DEF Dns!Return, DnsFound
<1>5. ASSUME Dns!Return(TRUE), Dns!LooksLikeDns
      PROVE  DnsFound'
  BY <1>3, <1>5 DEF Dns!Return, DnsFound
<1> SUFFICES DnsFound'
  BY <1>2 DEF LabelsInv
<1>6. CASE Dns!Header
  <2>1. CASE (~Dns!Has(0, Dns!kHeader) \/ ~header) /\ Dns!Return(FALSE)
    <3>1. short = 0 => Dns!Has(0, Dns!kHeader)
      BY BytesAreNumbers DEF LabelsInv, Dns!Has, Dns!kHeader
    <3> QED
      BY <1>4, <2>1, <3>1 DEF Dns!LooksLikeDns
  <2>2. CASE /\ Dns!Has(0, Dns!kHeader) /\ header /\ dns_step' = "label"
             /\ offset' = Dns!kHeader /\ UNCHANGED label
    <3>1. short = 0
      BY <2>2 DEF LabelsInv, DnsGiven, Dns!Has, Dns!size, Dns!kHeader
    <3>2. label' = 0 /\ Dns!kHeader' = Dns!kHeader /\ offset' = 12 /\ Dns!kHeader = 12
      BY <1>6, <2>2 DEF LabelsInv, DnsFound, Dns!Header, Dns!kHeader
    <3>3. Stepped({})'
      BY <3>2, FS_EmptySet, ClassificationAssumption DEF Stepped, Dns!IsName
    <3> QED
      BY <1>1, <2>2, <3>1, <3>2, <3>3 DEF DnsFound
  <2> QED
    BY <1>6, <2>1, <2>2 DEF Dns!Header
<1>7. CASE Dns!Label
  <2>1. short = 0 /\ header /\ offset >= Dns!kHeader
    BY <1>7 DEF Dns!Label, LabelsInv, DnsFound
  <2>2. PICK visited \in SUBSET (Dns!kHeader .. offset - 1) : Stepped(visited)
    BY <1>7 DEF Dns!Label, LabelsInv, DnsFound
  <2>3. CASE (label = kMaxLabels \/ ~Dns!Has(offset, 1)) /\ Dns!Return(FALSE)
    BY <1>4, <2>1, <2>2, <2>3, NoNameFound
  <2>4. CASE /\ label < kMaxLabels /\ Dns!Has(offset, 1) /\ Dns!At(offset) = 0
             /\ Dns!Return(Dns!Has(offset + 1, Dns!kTypes))
    <3>1. CASE Dns!Has(offset + 1, Dns!kTypes)
      <4>0. Dns!Has(offset + 1, Dns!kTypes) = TRUE
        BY <3>1 DEF Dns!Has
      <4>1. Dns!Return(TRUE)
        BY <2>4, <4>0
      <4>2. Dns!LooksLikeDns
        BY <2>1, <2>2, <2>4, <3>1, NameFound
      <4> QED
        BY <1>5, <4>1, <4>2
    <3>2. CASE ~Dns!Has(offset + 1, Dns!kTypes)
      <4>0. Dns!Has(offset + 1, Dns!kTypes) = FALSE
        BY <3>2 DEF Dns!Has
      <4>1. Dns!Return(FALSE)
        BY <2>4, <4>0
      <4>2. ~Dns!LooksLikeDns
        BY <2>1, <2>2, <2>4, <3>2, NoNameFound
      <4> QED
        BY <1>4, <4>1, <4>2
    <3> QED
      BY <3>1, <3>2
  <2>5. CASE Dns!Has(offset, 1) /\ Dns!At(offset) > kMaxLabel /\ Dns!Return(FALSE)
    BY <1>4, <2>1, <2>2, <2>5, NoNameFound
  <2>6. CASE /\ label < kMaxLabels /\ Dns!Has(offset, 1) /\ Dns!At(offset) \in 1..kMaxLabel
             /\ offset' = offset + Dns!At(offset) + 1 /\ label' = label + 1
             /\ UNCHANGED <<dns_step, dns_answer>>
    <3>1. /\ offset' >= Dns!kHeader
          /\ \E later \in SUBSET (Dns!kHeader .. offset' - 1) : Stepped(later)'
      BY <1>1, <2>1, <2>2, <2>6, SteppedOver
    <3>2. dns_step' = "label" /\ Dns!kHeader' = Dns!kHeader
      BY <1>7, <2>6 DEF Dns!Label, Dns!kHeader
    <3> QED
      BY <1>1, <2>1, <3>1, <3>2 DEF DnsFound
  <2> QED
    BY <1>7, <2>3, <2>4, <2>5, <2>6 DEF Dns!Label
<1> QED
  BY <1>6, <1>7 DEF Dns!Next

-----------------------------------------------------------------------------
(***************************************************************************)
(* classify, which calls the one or the other.                             *)
(***************************************************************************)
WalksInv == SniInv /\ DnsInv

LEMMA WalksInit == ClassifyInit => WalksInv
  BY SniInit, DnsInit DEF ClassifyInit, WalksInv

LEMMA SniStays == SniInv /\ UNCHANGED sni_vars => SniInv'
<1> SUFFICES ASSUME SniInv, UNCHANGED sni_vars PROVE SniInv'
  OBVIOUS
<1>1. SniTyped' /\ Nested' /\ ReadsInPayload'
  BY DEF SniInv, sni_vars, SniTyped, Nested, ReadsInPayload
<1>2. Ordered'
  BY DEF SniInv, sni_vars, Ordered
<1> QED
  BY <1>1, <1>2 DEF SniInv

LEMMA DnsStays == DnsInv /\ UNCHANGED dns_vars => DnsInv'
  BY DEF DnsInv, dns_vars, Dns!ReadsInMessage, Dns!size

LEMMA WalksNext == WalksInv /\ [ClassifyNext]_all_vars => WalksInv'
<1> SUFFICES ASSUME WalksInv, [ClassifyNext]_all_vars PROVE WalksInv'
  OBVIOUS
<1>1. CASE WalkToSni
  BY <1>1, SniNext, DnsStays DEF WalkToSni, WalksInv
<1>2. CASE WalkLabels
  BY <1>2, DnsNext, SniStays DEF WalkLabels, WalksInv
<1>3. CASE Begin \/ SniReturns \/ DnsReturns \/ Keep \/ UNCHANGED all_vars
  BY <1>3, SniStays, DnsStays DEF Begin, SniReturns, DnsReturns, Keep, all_vars, WalksInv
<1> QED
  BY <1>1, <1>2, <1>3 DEF ClassifyNext

THEOREM WalksInvariant == ClassifySpec => []WalksInv
  BY WalksInit, WalksNext, PTL DEF ClassifySpec

\* No walk reads past the end of a payload, whatever its lengths claim: neither over
\* the nested lengths of a ClientHello (appid.cpp:59-149) nor over the labels of a
\* question (appid.cpp:35-55).
THEOREM NeverReadsOutside == ClassifySpec => []ReadsInBounds
<1>1. WalksInv => ReadsInBounds
  BY DEF WalksInv, SniInv, DnsInv, ReadsInBounds
<1> QED
  BY <1>1, WalksInvariant, PTL

\* A name that extract_sni says it found lies inside its list, the list inside the
\* extension, and so outwards to the payload (appid.cpp:105-143).
THEOREM NamesAreWhole == ClassifySpec => []FoundNameIsWhole
<1>1. WalksInv => FoundNameIsWhole
  BY DEF WalksInv, SniInv, Nested, Ordered, FoundNameIsWhole
<1> QED
  BY <1>1, WalksInvariant, PTL
-----------------------------------------------------------------------------
(***************************************************************************)
(* What classify makes of the two answers.                                 *)
(***************************************************************************)
Classifying ==
  /\ proto \in Abstract!Proto /\ preamble \in Abstract!Preamble
  /\ at = "sni" => IsTls /\ Bytes > 0
  /\ at = "dns" => Bytes > 0 /\ (proto = "tcp" => preamble = "none") /\ OnDnsPort
  /\ ClassifiesAsAbstract

ClassifyInv == WalksInv /\ LabelsInv /\ Classifying

LEMMA ClassifyInvInit == ClassifyInit => ClassifyInv
<1> SUFFICES ASSUME ClassifyInit PROVE ClassifyInv
  OBVIOUS
<1>1. WalksInv /\ LabelsInv
  BY WalksInit, LabelsInit DEF ClassifyInit
<1>2. Classifying
  BY DEF ClassifyInit, Classifying, ClassifiesAsAbstract
<1> QED
  BY <1>1, <1>2 DEF ClassifyInv

\* What is asked of classify stays as it was.
LEMMA SamePayload ==
  ASSUME UNCHANGED <<payload, size, short, header, tail>>
  PROVE  /\ IsTls' = IsTls /\ Bytes' = Bytes /\ OnDnsPort' = OnDnsPort
         /\ (ClassifiesAsAbstract' <=>
              (at' \in {"done", "kept"} =>
                 result' = Abstract!Classify([size |-> Bytes, preamble |-> preamble,
                               dns_shape |-> ~IsTls /\ Dns!LooksLikeDns], proto, dst_port)))
<1>1. Dns!size' = Dns!size /\ (Dns!LooksLikeDns' <=> Dns!LooksLikeDns)
  BY SameMessage
<1>2. IsTls' = IsTls /\ Bytes' = Bytes /\ OnDnsPort' = OnDnsPort
  BY <1>1 DEF payload, IsTls, Bytes, OnDnsPort
<1>3. (~IsTls /\ Dns!LooksLikeDns)' = (~IsTls /\ Dns!LooksLikeDns)
  BY <1>1, <1>2
<1>4. ([size |-> Bytes, preamble |-> preamble,
        dns_shape |-> ~IsTls /\ Dns!LooksLikeDns])'
       = [size |-> Bytes, preamble |-> preamble, dns_shape |-> ~IsTls /\ Dns!LooksLikeDns]
  BY <1>2, <1>3 DEF payload
<1>5. \A p, q, r : Abstract!Classify(p, q, r)' = Abstract!Classify(p, q, r)
  BY DEF Abstract!Classify, Abstract!Recognised, Abstract!LooksLikeDns, Abstract!NoApp
<1> QED
  BY <1>2, <1>4, <1>5 DEF payload, ClassifiesAsAbstract

\* A result agrees with the operator, test by test.
LEMMA AnswersAgree ==
  ASSUME Classifying, Bytes \in Nat, NEW shape \in BOOLEAN, NEW application, NEW exhausted,
         \/ Bytes = 0 /\ application = Abstract!NoApp /\ exhausted = FALSE
         \/ /\ Bytes > 0 /\ exhausted = FALSE /\ proto = "tcp"
            /\ \/ preamble = "http" /\ application = "web-browsing"
               \/ preamble = "ssh" /\ application = "ssh"
               \/ preamble = "tls" /\ application = "ssl"
         \/ /\ Bytes > 0 /\ (proto = "tcp" => preamble = "none")
            /\ IF OnDnsPort /\ shape THEN application = "dns" /\ exhausted = FALSE
               ELSE application = Abstract!NoApp /\ exhausted = TRUE
  PROVE  [application |-> application, exhausted |-> exhausted]
           = Abstract!Classify([size |-> Bytes, preamble |-> preamble, dns_shape |-> shape],
                               proto, dst_port)
<1> DEFINE given == [size |-> Bytes, preamble |-> preamble, dns_shape |-> shape]
<1>1. given.size = Bytes /\ given.preamble = preamble /\ given.dns_shape = shape
  OBVIOUS
<1> HIDE DEF given
<1>2. Bytes > 0 => Abstract!Recognised(given, proto, dst_port) = application
  <2>1. ASSUME Bytes > 0, proto = "tcp", preamble \in {"http", "ssh", "tls"}
        PROVE  Abstract!Recognised(given, proto, dst_port) = application
    BY <1>1, <2>1 DEF Abstract!Recognised
  <2>2. ASSUME Bytes > 0, ~(proto = "tcp" /\ preamble \in {"http", "ssh", "tls"})
        PROVE  Abstract!Recognised(given, proto, dst_port) = application
    <3>1. Abstract!Recognised(given, proto, dst_port)
            = IF Abstract!LooksLikeDns(given, proto, dst_port) THEN "dns" ELSE Abstract!NoApp
      BY <1>1, <2>2 DEF Abstract!Recognised
    <3>2. Abstract!LooksLikeDns(given, proto, dst_port) <=> OnDnsPort /\ shape
      BY <1>1 DEF Abstract!LooksLikeDns, OnDnsPort, Classifying, Abstract!Proto
    <3> QED
      BY <2>2, <3>1, <3>2
  <2> QED
    BY <2>1, <2>2
<1>3. Abstract!Classify(given, proto, dst_port)
        = [application |-> application, exhausted |-> exhausted]
  <2>1. (IF given.size = 0 THEN Abstract!NoApp
         ELSE Abstract!Recognised(given, proto, dst_port)) = application
    BY <1>1, <1>2
  <2>2. (given.size > 0 /\ application = Abstract!NoApp) = exhausted
    <3>1. \/ exhausted = TRUE /\ Bytes > 0 /\ application = Abstract!NoApp
          \/ exhausted = FALSE /\ (Bytes = 0 \/ application # Abstract!NoApp)
      BY DEF Abstract!NoApp
    <3>2. CASE exhausted = TRUE /\ Bytes > 0 /\ application = Abstract!NoApp
      BY <1>1, <3>2
    <3>3. CASE exhausted = FALSE /\ (Bytes = 0 \/ application # Abstract!NoApp)
      <4>1. ~(given.size > 0 /\ application = Abstract!NoApp)
        BY <1>1, <3>3
      <4> QED
        BY <3>3, <4>1, Zenon
    <3> QED
      BY <3>1, <3>2, <3>3
  <2> QED
    BY <2>1, <2>2 DEF Abstract!Classify
<1> QED
  BY <1>3 DEF given
LEMMA ClassifyingNext == ClassifyInv /\ [ClassifyNext]_all_vars => Classifying'
<1> SUFFICES ASSUME ClassifyInv, [ClassifyNext]_all_vars PROVE Classifying'
  OBVIOUS
<1> USE DEF ClassifyInv
<1>1. UNCHANGED <<payload, size, short, header, tail>>
  <2>1. Next => UNCHANGED size
    BY DEF Next, Record, Hello, SessionId, CipherSuites, Compression, Skip, Extensions,
       Extension, Name, Host, Return, Go
  <2>2. Dns!Next => UNCHANGED <<short, header, tail>>
    BY DEF Dns!Next, Dns!Header, Dns!Label, Dns!given
  <2> QED
    BY <2>1, <2>2 DEF ClassifyNext, Begin, WalkToSni, SniReturns, WalkLabels, DnsReturns, Keep,
       all_vars, sni_vars, dns_vars
<1>2. /\ IsTls' = IsTls /\ Bytes' = Bytes /\ OnDnsPort' = OnDnsPort
      /\ proto' = proto /\ preamble' = preamble
  BY <1>1, SamePayload DEF payload
<1>3. Bytes \in Nat
  BY DEF Bytes, WalksInv, SniInv, SniTyped, DnsInv
<1>4. ASSUME at' \in {"sni", "dns"},
             at' = "sni" => IsTls /\ Bytes > 0,
             at' = "dns" => Bytes > 0 /\ (proto = "tcp" => preamble = "none") /\ OnDnsPort
      PROVE  Classifying'
  BY <1>1, <1>2, <1>4, SamePayload DEF Classifying
<1>5. ASSUME NEW application, NEW exhausted, Answer(application, exhausted),
             [application |-> application, exhausted |-> exhausted]
               = Abstract!Classify([size |-> Bytes, preamble |-> preamble,
                    dns_shape |-> ~IsTls /\ Dns!LooksLikeDns], proto, dst_port)
      PROVE  Classifying'
  BY <1>1, <1>2, <1>5, SamePayload DEF Classifying, Answer
<1>s. (~IsTls /\ Dns!LooksLikeDns) \in BOOLEAN
  OBVIOUS
<1>6. CASE UNCHANGED <<at, result>>
  <2>1. ClassifiesAsAbstract'
    BY <1>1, <1>6, SamePayload DEF Classifying, ClassifiesAsAbstract
  <2> QED
    BY <1>2, <1>6, <2>1 DEF Classifying
<1>7. CASE Begin
  <2>1. CASE Bytes = 0 /\ Answer(Abstract!NoApp, FALSE)
    BY <1>3, <1>5, <1>s, <2>1, AnswersAgree
  <2>2. CASE Bytes > 0 /\ proto = "tcp" /\ preamble = "http" /\ Answer("web-browsing", FALSE)
    BY <1>3, <1>5, <1>s, <2>2, AnswersAgree
  <2>3. CASE Bytes > 0 /\ proto = "tcp" /\ preamble = "ssh" /\ Answer("ssh", FALSE)
    BY <1>3, <1>5, <1>s, <2>3, AnswersAgree
  <2>4. CASE Bytes > 0 /\ IsTls /\ at' = "sni"
    BY <1>4, <2>4
  <2>5. CASE Bytes > 0 /\ (proto = "tcp" => preamble = "none") /\ OnDnsPort /\ at' = "dns"
    BY <1>4, <2>5
  <2>6. CASE /\ Bytes > 0 /\ (proto = "tcp" => preamble = "none") /\ ~OnDnsPort
             /\ Answer(Abstract!NoApp, TRUE)
    BY <1>3, <1>5, <1>s, <2>6, AnswersAgree
  <2> QED
    BY <1>7, <2>1, <2>2, <2>3, <2>4, <2>5, <2>6 DEF Begin
<1>8. CASE SniReturns
  <2>1. Bytes > 0 /\ proto = "tcp" /\ preamble = "tls" /\ Answer("ssl", FALSE)
    BY <1>8 DEF SniReturns, Classifying, IsTls
  <2> QED
    BY <1>3, <1>5, <1>s, <2>1, AnswersAgree
<1>9. CASE DnsReturns
  <2>1. Bytes > 0 /\ (proto = "tcp" => preamble = "none") /\ OnDnsPort /\ ~IsTls
    BY <1>9 DEF DnsReturns, Classifying, IsTls
  <2>2. dns_answer <=> (~IsTls /\ Dns!LooksLikeDns)
    BY <1>9, <2>1 DEF DnsReturns, LabelsInv, DnsFound
  <2>3. CASE dns_answer
    BY <1>3, <1>5, <1>9, <1>s, <2>1, <2>2, <2>3, AnswersAgree DEF DnsReturns
  <2>4. CASE ~dns_answer
    BY <1>3, <1>5, <1>9, <1>s, <2>1, <2>2, <2>4, AnswersAgree DEF DnsReturns
  <2> QED
    BY <2>3, <2>4
<1>10. CASE Keep
  <2>1. at = "done" /\ at' = "kept" /\ result' = result
    BY <1>10 DEF Keep
  <2>2. ClassifiesAsAbstract'
    BY <1>1, <2>1, SamePayload DEF Classifying, ClassifiesAsAbstract
  <2> QED
    BY <1>2, <2>1, <2>2 DEF Classifying
<1> QED
  BY <1>6, <1>7, <1>8, <1>9, <1>10 DEF ClassifyNext, WalkToSni, WalkLabels, all_vars

LEMMA LabelsStay == LabelsInv /\ UNCHANGED dns_vars => LabelsInv'
<1> SUFFICES ASSUME LabelsInv, UNCHANGED dns_vars PROVE LabelsInv'
  OBVIOUS
<1>1. /\ UNCHANGED <<short, header, tail>>
      /\ UNCHANGED <<offset, label, dns_step, dns_answer>>
  BY DEF dns_vars
<1>2. DnsInv' /\ DnsGiven'
  BY <1>1, DnsStays DEF LabelsInv, DnsGiven
<1>3. \A visited : Stepped(visited)' <=> Stepped(visited)
  BY <1>1, SameMessage DEF Stepped, Dns!kHeader
<1>4. DnsFound'
  BY <1>1, <1>3, SameMessage DEF LabelsInv, DnsFound, Dns!kHeader
<1> QED
  BY <1>2, <1>4 DEF LabelsInv

LEMMA ClassifyInvNext == ClassifyInv /\ [ClassifyNext]_all_vars => ClassifyInv'
<1> SUFFICES ASSUME ClassifyInv, [ClassifyNext]_all_vars PROVE ClassifyInv'
  OBVIOUS
<1>1. WalksInv' /\ Classifying'
  BY WalksNext, ClassifyingNext DEF ClassifyInv
<1>2. LabelsInv'
  BY LabelsNext, LabelsStay DEF ClassifyInv, ClassifyNext, Begin, WalkToSni, SniReturns,
     WalkLabels, DnsReturns, Keep, all_vars
<1> QED
  BY <1>1, <1>2 DEF ClassifyInv

THEOREM ClassifyInvariant == ClassifySpec => []ClassifyInv
  BY ClassifyInvInit, ClassifyInvNext, PTL DEF ClassifySpec

\* Whatever the payload, and on whatever port, what classify answers through its tests
\* and its walk over the labels of a question is what the operator of AppId says, for
\* which that walk is one fact: there is a name, of labels that lead to each other, and
\* room for its type and class (appid.cpp:35-55 and appid.cpp:151-193).
THEOREM ClassifyIsTheOperator == ClassifySpec => []ClassifiesAsAbstract
<1>1. ClassifyInv => ClassifiesAsAbstract
  BY DEF ClassifyInv, Classifying
<1> QED
  BY <1>1, ClassifyInvariant, PTL
=============================================================================
