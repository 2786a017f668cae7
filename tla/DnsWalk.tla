------------------------------- MODULE DnsWalk -------------------------------
(***************************************************************************)
(* looks_like_dns of appid.cpp: the walk over the labels of the one        *)
(* question a DNS message may have.  The message is its size, whether its  *)
(* counts and opcode are acceptable, and the bytes after its 12 of header; *)
(* a byte matters only as the length of a label.                           *)
(***************************************************************************)
EXTENDS Naturals, Sequences, FiniteSets

CONSTANTS kMaxLabels,   \* 128 in the code
          kMaxLabel,    \* 63 in the code: the two top bits mark a pointer
          Byte,         \* values of a byte
          MaxTail       \* bytes after the header, at most

kHeader  == 12
kTypes   == 4     \* qtype and qclass

VARIABLES short,    \* bytes the header is short of; 0 when it is whole
          header,   \* one question and an opcode that exists
          tail,     \* the bytes after a header that is acceptable
          offset, label, step, answer, read

given == <<short, header, tail>>

size == kHeader - short + Len(tail)

Has(from, count) == from + count <= size

\* The byte of the message at a position past the header.
At(position) == tail[position - kHeader + 1]

Return(found) == step' = "returned" /\ answer' = found /\ UNCHANGED <<offset, label>>

-----------------------------------------------------------------------------
Init == /\ short \in {0, 1, kHeader} /\ header \in BOOLEAN
        /\ tail \in IF short > 0 \/ ~header THEN {<<>>} ELSE UNION {[1..n -> Byte] : n \in 0..MaxTail}
        /\ offset = 0 /\ label = 0 /\ step = "header" /\ answer = FALSE /\ read = 0

Header ==
  /\ step = "header"
  /\ UNCHANGED given
  /\ \/ ~Has(0, kHeader) /\ Return(FALSE) /\ UNCHANGED read
     \/ Has(0, kHeader) /\ ~header /\ Return(FALSE) /\ read' = 6
     \/ /\ Has(0, kHeader) /\ header
        /\ step' = "label" /\ offset' = kHeader /\ read' = 6
        /\ UNCHANGED <<label, answer>>

\* A slip to notice: a pointer is followed as if it were a label, for ever.
LabelUnbounded ==
  /\ step = "label"
  /\ UNCHANGED given
  /\ \/ ~Has(offset, 1) /\ Return(FALSE) /\ UNCHANGED read
     \/ /\ Has(offset, 1) /\ read' = offset + 1
        /\ IF At(offset) = 0 THEN Return(Has(offset + 1, kTypes))
           ELSE offset' = offset + At(offset) + 1 /\ label' = label + 1 /\ UNCHANGED <<step, answer>>

\* One turn of the loop.
Label ==
  /\ step = "label"
  /\ UNCHANGED given
  /\ \/ (label = kMaxLabels \/ ~Has(offset, 1)) /\ Return(FALSE) /\ UNCHANGED read
     \/ /\ label < kMaxLabels /\ Has(offset, 1)
        /\ read' = offset + 1
        /\ \/ At(offset) = 0 /\ Return(Has(offset + 1, kTypes))
           \/ At(offset) > kMaxLabel /\ Return(FALSE)
           \/ /\ At(offset) \in 1..kMaxLabel
              /\ offset' = offset + At(offset) + 1
              /\ label' = label + 1
              /\ UNCHANGED <<step, answer>>

Next == Header \/ Label

-----------------------------------------------------------------------------
\* The reference: the question's name is a set of places where a label begins, from
\* the end of the header on, each leading to the next, but the last, whose length is
\* zero and which two more fields follow.
IsName(places) ==
  /\ kHeader \in places
  /\ Cardinality(places) <= kMaxLabels
  /\ \A p \in places :
       /\ p < size
       /\ IF At(p) = 0 THEN p + 1 + kTypes <= size /\ \A q \in places : q <= p
                       ELSE At(p) <= kMaxLabel /\ p + At(p) + 1 \in places
  /\ \A p \in places \ {kHeader} : \E q \in places : At(q) > 0 /\ q + At(q) + 1 = p

LooksLikeDns ==
  short = 0 /\ header /\ \E places \in SUBSET (kHeader .. size - 1) : IsName(places)

\* Every byte read is in the message, wherever the lengths lead (appid.cpp:48).
ReadsInMessage == read <= size
=============================================================================
