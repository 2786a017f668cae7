---------------------------- MODULE SessionLedger ----------------------------
(***************************************************************************)
(* What a firewall that remembers sessions promises about them, whatever   *)
(* table, sweep, policy and identification it does it with (design.md).    *)
(* It keeps a ledger, an entry per session, and a list of those that       *)
(* packets can still join.  Nothing in the ledger is ever struck out.  Of  *)
(* one frame of the capture comes at most one entry or a change of one     *)
(* that is listed, after the firewall has crossed any entries off the list *)
(* as over.                                                                *)
(***************************************************************************)
EXTENDS Naturals

VARIABLES entries,   \* [parties, proto, verdict, settled, over], by number
          listed,    \* the numbers of the entries that packets can join
          done       \* the capture has ended

vars == <<entries, listed, done>>

SameConversation(e, f) == e.parties = f.parties /\ e.proto = f.proto

\* What a packet may make of an entry: its parties stay, it does not begin again, and
\* its verdict changes at most as it is settled; one that is no longer allowed is over.
Follows(e, f) ==
  /\ SameConversation(e, f)
  /\ e.over => f.over
  /\ e.settled => f.settled /\ f.verdict = e.verdict
  /\ f.verdict # e.verdict => f.settled /\ (f.verdict = "Allow" \/ f.over)

Rests(i, gone) ==
  entries'[i] = IF i \in gone THEN [entries[i] EXCEPT !.over = TRUE] ELSE entries[i]

-----------------------------------------------------------------------------
Init == DOMAIN entries = {} /\ listed = {} /\ ~done

Pass(gone) ==
  /\ DOMAIN entries' = DOMAIN entries
  /\ \A i \in DOMAIN entries : Rests(i, gone)
  /\ listed' = listed \ gone

\* A frame that opens no session and belongs to none.
Ignore(gone) == Pass(gone) /\ ~done /\ UNCHANGED done

\* A frame of a listed session.
Heed(gone) ==
  /\ ~done /\ UNCHANGED done
  /\ DOMAIN entries' = DOMAIN entries
  /\ listed' = listed \ gone
  /\ \E i \in listed' : /\ Follows(entries[i], entries'[i])
                        /\ \A j \in DOMAIN entries \ {i} : Rests(j, gone)

\* The first frame of a session: no listed one is of the same conversation.
Enter(gone) ==
  /\ ~done /\ UNCHANGED done
  /\ \E new \in DOMAIN entries' :
       /\ new \notin DOMAIN entries
       /\ DOMAIN entries' = DOMAIN entries \cup {new}
       /\ listed' = (listed \ gone) \cup {new}
       /\ \A i \in listed \ gone : ~SameConversation(entries[i], entries'[new])
  /\ \A i \in DOMAIN entries : Rests(i, gone)

Close(gone) == Pass(gone) /\ ~done /\ done'

Next == \E gone \in SUBSET listed : Ignore(gone) \/ Heed(gone) \/ Enter(gone) \/ Close(gone)

Spec == Init /\ [][Next]_vars
=============================================================================
