---------------------------- MODULE Conversation ----------------------------
(***************************************************************************)
(* What a middlebox that tracks one TCP conversation promises, whatever    *)
(* machine it tracks it with (design.md, "Session state").  It hears       *)
(* evidence, in any order and with repetitions, and says which stage the   *)
(* conversation has reached.  A stage is only entered on the evidence it   *)
(* stands for, stages are never skipped or revisited, and a conversation   *)
(* that is over stays over.                                                *)
(***************************************************************************)
VARIABLES stage, heard

vars == <<stage, heard>>

Stages == {"opening", "open", "half_closed", "closing", "over"}

Evidence == {"Adopted", "Syn", "SynAck", "Ack", "InitiatorFin", "ResponderFin",
             "Rst", "FinalAck", "TornDown"}

(***************************************************************************)
(* The evidence each stage stands for.  A conversation is open after its   *)
(* handshake, unless it was adopted midstream.                             *)
(***************************************************************************)
Supported(s, e) ==
  CASE s = "opening"     -> TRUE
    [] s = "open"        -> "Adopted" \in e \/ {"Syn", "SynAck", "Ack"} \subseteq e
    [] s = "half_closed" -> \/ "InitiatorFin" \in e
                            \/ "ResponderFin" \in e
    [] s = "closing"     -> {"InitiatorFin", "ResponderFin"} \subseteq e
    [] s = "over"        -> \/ "Rst" \in e
                            \/ "TornDown" \in e
                            \/ {"InitiatorFin", "ResponderFin", "FinalAck"} \subseteq e

\* The stages that may follow each, one at a time unless it ends.
MayFollow(s, t) ==
  \/ s = t
  \/ t = "over"
  \/ s = "opening"     /\ t = "open"
  \/ s = "open"        /\ t = "half_closed"
  \/ s = "half_closed" /\ t = "closing"

Init == /\ heard \in SUBSET Evidence
        /\ stage \in {"opening", "open", "over"}
        /\ Supported(stage, heard)

Hear == /\ heard' \in SUBSET Evidence
        /\ heard \subseteq heard'
        /\ stage' \in Stages
        /\ MayFollow(stage, stage')
        /\ Supported(stage', heard')

Next == Hear

Spec == Init /\ [][Next]_vars
=============================================================================
