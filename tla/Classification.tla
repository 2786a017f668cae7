--------------------------- MODULE Classification ---------------------------
(***************************************************************************)
(* classify of appid.cpp with the two walks it calls, byte by byte, and    *)
(* what the engine keeps of the outcome: the detailed form of AppId, which *)
(* Engine takes for a single operator.  A payload is a TLS record, whose   *)
(* bytes SniWalk chooses as it reads them, or anything else, of which      *)
(* DnsWalk has the bytes.                                                  *)
(***************************************************************************)
EXTENDS SniWalk, Sequences

CONSTANTS kMaxLabels, kMaxLabel, Byte, MaxTail,    \* those of DnsWalk
          Ports                                    \* destination ports

VARIABLES proto, dst_port, preamble,               \* what classify is given
          at,                                      \* the call it is in
          result,                                  \* the AppIdResult
          stored,                                  \* characters in Session::sni
          short, header, tail, offset, label, dns_step, dns_answer, read

sni_vars == <<size, step, off, limit, ends, sni, answer, reads>>
dns_vars == <<short, header, tail, offset, label, dns_step, dns_answer, read>>
payload  == <<proto, dst_port, preamble>>
all_vars == <<payload, at, result, stored, sni_vars, dns_vars>>

Dns == INSTANCE DnsWalk WITH step <- dns_step, answer <- dns_answer
Abstract == INSTANCE AppId WITH AddressBits <- 0, Routes <- <<>>, Rules <- <<>>

ASSUME ClassificationAssumption ==
  /\ Ports \subseteq Abstract!Port
  /\ kMaxLabels \in Nat /\ kMaxLabel \in Nat /\ MaxTail \in Nat /\ Byte \subseteq 0..255

IsTls == proto = "tcp" /\ preamble = "tls"

Bytes == IF IsTls THEN size ELSE Dns!size

None == [application |-> Abstract!NoApp, exhausted |-> FALSE]

ClassifyInit ==
  /\ proto \in Abstract!Proto /\ dst_port \in Ports /\ preamble \in Abstract!Preamble
  /\ at = "classify" /\ result = None /\ stored = 0
  /\ Init /\ Dns!Init
  /\ IF IsTls THEN size > 0 /\ short = Dns!kHeader /\ ~header
              ELSE /\ \A other \in Sizes : size <= other
                   /\ Dns!size = 0 => preamble = "none"
                   /\ header => preamble \in {"none", "tls"}   \* the others' bytes are no opcode

Answer(application, exhausted) ==
  /\ at' = "done"
  /\ result' = [application |-> application, exhausted |-> exhausted]

OnDnsPort == IF proto = "udp" THEN dst_port \in {53, 5353} ELSE dst_port = 53

\* The tests of classify, in their order, up to the walk that one of them calls.
Begin ==
  /\ at = "classify"
  /\ UNCHANGED <<payload, stored, sni_vars, dns_vars>>
  /\ \/ Bytes = 0 /\ Answer(Abstract!NoApp, FALSE)
     \/ Bytes > 0 /\ proto = "tcp" /\ preamble = "http" /\ Answer("web-browsing", FALSE)
     \/ Bytes > 0 /\ proto = "tcp" /\ preamble = "ssh" /\ Answer("ssh", FALSE)
     \/ Bytes > 0 /\ IsTls /\ at' = "sni" /\ UNCHANGED result
     \/ /\ Bytes > 0 /\ (proto = "tcp" => preamble = "none")
        /\ IF OnDnsPort THEN at' = "dns" /\ UNCHANGED result
                        ELSE Answer(Abstract!NoApp, TRUE)

WalkToSni == /\ at = "sni" /\ Next
             /\ UNCHANGED <<payload, at, result, stored, dns_vars>>

\* Absence is not a failure: the answer of the walk is not looked at.
SniReturns == /\ at = "sni" /\ step = "returned"
              /\ Answer("ssl", FALSE)
              /\ UNCHANGED <<payload, stored, sni_vars, dns_vars>>

WalkLabels == /\ at = "dns" /\ Dns!Next
              /\ UNCHANGED <<payload, at, result, stored, sni_vars>>

DnsReturns == /\ at = "dns" /\ dns_step = "returned"
              /\ IF dns_answer THEN Answer("dns", FALSE) ELSE Answer(Abstract!NoApp, TRUE)
              /\ UNCHANGED <<payload, stored, sni_vars, dns_vars>>

\* The engine keeps any name that there is, with the application.
Keep == /\ at = "done" /\ at' = "kept"
        /\ stored' = IF result.application # Abstract!NoApp /\ sni > 0 THEN sni ELSE stored
        /\ UNCHANGED <<payload, result, sni_vars, dns_vars>>

ClassifyNext == \/ Begin \/ WalkToSni \/ SniReturns \/ WalkLabels \/ DnsReturns \/ Keep

\* classify is a call on one thread: it runs until it returns.
ClassifySpec == ClassifyInit /\ [][ClassifyNext]_all_vars /\ WF_all_vars(ClassifyNext)

-----------------------------------------------------------------------------
\* Every byte read is in the payload, by either walk, whatever the lengths claim
\* (appid.cpp:65-69 and appid.cpp:48).
ReadsInBounds == ReadsInPayload /\ Dns!ReadsInMessage

\* The walks and the tests around them amount to the operator that Engine uses, in
\* which the shape of a DNS message is one fact of the payload (appid.cpp:151-193).
ClassifiesAsAbstract ==
  at \in {"done", "kept"} =>
    result = Abstract!Classify([size |-> Bytes, preamble |-> preamble,
                           dns_shape |-> ~IsTls /\ Dns!LooksLikeDns], proto, dst_port)

\* No payload, with whatever lengths in it, zero ones included, keeps the engine from
\* its next frame.
ClassifyReturns == <>(at = "kept")
=============================================================================
