------------------------------- MODULE SniWalk -------------------------------
(***************************************************************************)
(* extract_sni of appid.cpp: the walk through four nested length-prefixed  *)
(* structures to the server name of a TLS ClientHello, one step per field. *)
(*                                                                         *)
(* The walk only goes forward, so it reads no byte twice, and the bytes    *)
(* are chosen when they are read: any lengths, types and characters that a *)
(* peer may have sent, in a payload of any size.  A view is a position and *)
(* the end that bounds it; reads is what the last step read.               *)
(***************************************************************************)
EXTENDS Naturals

CONSTANTS Sizes,      \* the sizes a payload may have
          Lengths8,   \* values of a one-byte length
          Lengths16   \* values of a two-byte length

\* How wide a length is matters to nothing here: offsets are size_t.
ASSUME SniWalkAssumption == Sizes \cup Lengths8 \cup Lengths16 \subseteq Nat

VARIABLES size,       \* payload.size()
          step,       \* where the walk is
          off,        \* the next byte to read (off, then p, then p + i)
          limit,      \* the end of the record, or of the bytes there are
          ends,       \* extensions_end, list_end and the end of the name
          sni,        \* characters in the caller's string
          answer,     \* what extract_sni returned
          reads       \* windows read by the last step

Step == {"record", "hello", "session_id", "cipher_suites", "compression", "extensions",
         "extension", "name", "host", "returned"}

Window(from, count) == [from |-> from, count |-> count]

Lesser(a, b) == IF a < b THEN a ELSE b

\* off + count > limit is what every check of the walk asks.
Fits(count, end) == off + count <= end

Return(found) ==
  /\ step' = "returned"
  /\ answer' = found
  /\ UNCHANGED <<size, off, limit, ends, sni>>

Go(next, to) ==
  /\ step' = next
  /\ off' = to
  /\ UNCHANGED <<size, answer>>

-----------------------------------------------------------------------------
Init == /\ size \in Sizes
        /\ step = "record" /\ off = 0 /\ limit = 0
        /\ ends = [extensions |-> 0, list |-> 0, name |-> 0]
        /\ sni = 0 /\ answer = FALSE /\ reads = {}

\* A slip to notice: the record's own length is trusted.
RecordTrusted ==
  /\ step = "record"
  /\ \/ size < 5 /\ reads' = {} /\ Return(FALSE)
     \/ \E record_len \in Lengths16 :
          /\ size >= 5
          /\ reads' = {Window(0, 1), Window(3, 2)}
          /\ limit' = 5 + record_len
          /\ Go("hello", 5)
          /\ UNCHANGED <<ends, sni>>

\* The record header bounds the walk by its own length or by the bytes there are.
Record ==
  /\ step = "record"
  /\ \/ size < 5 /\ reads' = {} /\ Return(FALSE)
     \/ size >= 5 /\ reads' = {Window(0, 1)} /\ Return(FALSE)   \* not a handshake
     \/ \E record_len \in Lengths16 :
          /\ size >= 5
          /\ reads' = {Window(0, 1), Window(3, 2)}
          /\ limit' = 5 + Lesser(record_len, size - 5)
          /\ Go("hello", 5)
          /\ UNCHANGED <<ends, sni>>

\* The handshake header, the version and the random.
Hello ==
  /\ step = "hello"
  /\ \/ ~Fits(4, limit) /\ reads' = {} /\ Return(FALSE)
     \/ Fits(4, limit) /\ reads' = {Window(off, 1)} /\ Return(FALSE)   \* not a ClientHello
     \/ /\ Fits(4, limit) /\ reads' = {Window(off, 1)}
        /\ IF Fits(4 + 34, limit) THEN Go("session_id", off + 38) /\ UNCHANGED <<limit, ends, sni>>
                                  ELSE Return(FALSE)

\* A variable field is jumped over unread; where it leads is checked by the next.
Skip(here, next, width, lengths) ==
  /\ step = here
  /\ \/ ~Fits(width, limit) /\ reads' = {} /\ Return(FALSE)
     \/ \E len \in lengths :
          /\ Fits(width, limit)
          /\ reads' = {Window(off, width)}
          /\ Go(next, off + width + len)
          /\ UNCHANGED <<limit, ends, sni>>

SessionId    == Skip("session_id", "cipher_suites", 1, Lengths8)
CipherSuites == Skip("cipher_suites", "compression", 2, Lengths16)
Compression  == Skip("compression", "extensions", 1, Lengths8)

Extensions ==
  /\ step = "extensions"
  /\ \/ ~Fits(2, limit) /\ reads' = {} /\ Return(FALSE)
     \/ \E len \in Lengths16 :
          /\ Fits(2, limit)
          /\ reads' = {Window(off, 2)}
          /\ ends' = [ends EXCEPT !.extensions = Lesser(off + 2 + len, limit)]
          /\ Go("extension", off + 2)
          /\ UNCHANGED <<limit, sni>>

\* A slip to notice: the header of an extension is not stepped over.
ExtensionStuck ==
  /\ step = "extension"
  /\ \/ ~Fits(4, ends.extensions) /\ reads' = {} /\ Return(FALSE)
     \/ \E len \in Lengths16 :
          /\ Fits(4 + len, ends.extensions)
          /\ reads' = {Window(off, 2), Window(off + 2, 2)}
          /\ Go("extension", off + len) /\ UNCHANGED <<limit, ends, sni>>

\* One turn of the loop over the extensions: server_name, or any other.
Extension ==
  /\ step = "extension"
  /\ \/ ~Fits(4, ends.extensions) /\ reads' = {} /\ Return(FALSE)
     \/ \E len \in Lengths16 :
          /\ Fits(4, ends.extensions)
          /\ reads' = {Window(off, 2), Window(off + 2, 2)}
          /\ \/ ~Fits(4 + len, ends.extensions) /\ Return(FALSE)
             \/ /\ Fits(4 + len, ends.extensions)
                /\ Go("extension", off + 4 + len)
                /\ UNCHANGED <<limit, ends, sni>>
             \/ Fits(4 + len, ends.extensions) /\ len < 5 /\ Return(FALSE)
             \/ /\ Fits(4 + len, ends.extensions) /\ len >= 5
                /\ ends' = [ends EXCEPT !.list = off + 4 + len]
                /\ Go("name", off + 6)
                /\ UNCHANGED <<limit, sni>>

\* A slip to notice: a name's length is not held against its list.
NameTrusted ==
  /\ step = "name"
  /\ \/ ~Fits(3, ends.list) /\ reads' = {} /\ Return(FALSE)
     \/ \E len \in Lengths16 :
          /\ Fits(3, ends.list)
          /\ reads' = {Window(off, 1), Window(off + 1, 2)}
          /\ ends' = [ends EXCEPT !.name = off + 3 + len]
          /\ sni' = 0
          /\ Go("host", off + 3)
          /\ UNCHANGED limit

\* One turn of the loop over the server_name list: a host_name, or any other.
Name ==
  /\ step = "name"
  /\ \/ ~Fits(3, ends.list) /\ reads' = {} /\ Return(FALSE)
     \/ \E len \in Lengths16 :
          /\ Fits(3, ends.list)
          /\ reads' = {Window(off, 1), Window(off + 1, 2)}
          /\ \/ ~Fits(3 + len, ends.list) /\ Return(FALSE)
             \/ /\ Fits(3 + len, ends.list)
                /\ Go("name", off + 3 + len)
                /\ UNCHANGED <<limit, ends, sni>>
             \/ /\ Fits(3 + len, ends.list)
                /\ ends' = [ends EXCEPT !.name = off + 3 + len]
                /\ sni' = 0
                /\ Go("host", off + 3)
                /\ UNCHANGED limit

\* The name is copied a character at a time, until one is not printable.
Host ==
  /\ step = "host"
  /\ \/ off = ends.name /\ reads' = {} /\ Return(sni > 0)
     \/ off < ends.name /\ reads' = {Window(off, 1)} /\ Return(FALSE)
     \/ /\ off < ends.name /\ reads' = {Window(off, 1)}
        /\ sni' = sni + 1
        /\ Go("host", off + 1)
        /\ UNCHANGED <<limit, ends>>

Next == \/ Record \/ Hello \/ SessionId \/ CipherSuites \/ Compression
        \/ Extensions \/ Extension \/ Name \/ Host

-----------------------------------------------------------------------------
\* Every byte read is in the payload, whatever the lengths claim (appid.cpp:65-69,
\* "Trusting record_len alone is the bug this whole function is a lesson in").
ReadsInPayload == \A r \in reads : r.from + r.count <= size

\* A name is found only whole: inside its list, the list inside its extension, that
\* inside the block, the record and the payload, and every character of it copied.
FoundNameIsWhole ==
  answer => /\ sni > 0 /\ off = ends.name
            /\ ends.name <= ends.list /\ ends.list <= ends.extensions
            /\ ends.extensions <= limit /\ limit <= size
=============================================================================
