---------------------------- MODULE LedgerProofs ----------------------------
(***************************************************************************)
(* For every rule base, every capture and every setting of the engine: the *)
(* pipeline implements the ledger of sessions, and what is shown of it     *)
(* does not contradict itself.                                             *)
(***************************************************************************)
EXTENDS EngineProofs, Report

-----------------------------------------------------------------------------
(***************************************************************************)
(* Tables as the ledger sees them.                                         *)
(***************************************************************************)
Book(t)   == [i \in DOMAIN t.sessions |-> Entry(t.sessions[i])]
Listed(t) == {t.by_key[k] : k \in DOMAIN t.by_key}

\* From t to u the sessions of gone are crossed off as over, and no more.
Crossed(t, u, gone) ==
  /\ DOMAIN u.sessions = DOMAIN t.sessions
  /\ \A i \in DOMAIN t.sessions :
       /\ Entry(u.sessions[i]) = IF i \in gone THEN [Entry(t.sessions[i]) EXCEPT !.over = TRUE]
                                 ELSE Entry(t.sessions[i])
       /\ i \notin gone => u.sessions[i] = t.sessions[i]
  /\ Listed(u) = Listed(t) \ gone

LEMMA EntryCrossed ==
  ASSUME NEW p, NEW q, NEW v, NEW a, NEW b
  PROVE  [[parties |-> p, proto |-> q, verdict |-> v, settled |-> a, over |-> b] EXCEPT !.over = TRUE]
           = [parties |-> p, proto |-> q, verdict |-> v, settled |-> a, over |-> TRUE]
<1>1. PICK c : c = TRUE
  OBVIOUS
<1>2. [[parties |-> p, proto |-> q, verdict |-> v, settled |-> a, over |-> b] EXCEPT !.over = c]
        = [parties |-> p, proto |-> q, verdict |-> v, settled |-> a, over |-> c]
  OBVIOUS
<1> QED
  BY <1>1, <1>2, Zenon

LEMMA EntryOver ==
  ASSUME NEW s \in Session
  PROVE  Entry([s EXCEPT !.state = "Closed"]) = [Entry(s) EXCEPT !.over = TRUE]
<1> DEFINE u == [s EXCEPT !.state = "Closed"]
<1>1. /\ u.init = s.init /\ u.resp = s.resp /\ u.proto = s.proto /\ u.verdict = s.verdict
      /\ u.app_latched = s.app_latched /\ u.state = "Closed"
  BY DEF Session
<1>2. (u.state = "Closed") = TRUE
  BY <1>1
<1> HIDE DEF u
<1>3. Entry(u) = [parties |-> {s.init, s.resp}, proto |-> s.proto, verdict |-> s.verdict,
                  settled |-> s.app_latched, over |-> TRUE]
  BY <1>1, <1>2 DEF Entry
<1>4. [Entry(s) EXCEPT !.over = TRUE]
        = [parties |-> {s.init, s.resp}, proto |-> s.proto, verdict |-> s.verdict,
           settled |-> s.app_latched, over |-> TRUE]
  <2> DEFINE p == {s.init, s.resp}
             q == s.proto
             v == s.verdict
             a == s.app_latched
             b == s.state = "Closed"
  <2>1. Entry(s) = [parties |-> p, proto |-> q, verdict |-> v, settled |-> a, over |-> b]
    BY DEF Entry
  <2> HIDE DEF p, q, v, a, b
  <2>2. [[parties |-> p, proto |-> q, verdict |-> v, settled |-> a, over |-> b] EXCEPT !.over = TRUE]
          = [parties |-> p, proto |-> q, verdict |-> v, settled |-> a, over |-> TRUE]
    BY EntryCrossed
  <2>3. [Entry(s) EXCEPT !.over = TRUE]
          = [parties |-> p, proto |-> q, verdict |-> v, settled |-> a, over |-> TRUE]
    BY <2>1, <2>2
  <2> QED
    BY <2>3 DEF p, q, v, a
<1> QED
  BY <1>3, <1>4 DEF u

LEMMA AgeOutCrosses ==
  ASSUME NEW t, TableOK(t), NEW now
  PROVE  LET gone == {t.by_key[k] : k \in Reaped(t, now)}
         IN  gone \subseteq Listed(t) /\ Crossed(t, AgeOut(t, now), gone)
<1> DEFINE gone == {t.by_key[k] : k \in Reaped(t, now)}
           u    == AgeOut(t, now)
<1>1. Reaped(t, now) \subseteq DOMAIN t.by_key
  BY DEF Reaped
<1>2. gone \subseteq Listed(t)
  BY <1>1 DEF Listed
<1>3. /\ DOMAIN u.sessions = DOMAIN t.sessions
      /\ \A i \in DOMAIN t.sessions :
           u.sessions[i] = IF i \in gone THEN [t.sessions[i] EXCEPT !.state = "Closed"]
                           ELSE t.sessions[i]
      /\ DOMAIN u.by_key = DOMAIN t.by_key \ Reaped(t, now)
      /\ \A k \in DOMAIN u.by_key : u.by_key[k] = t.by_key[k]
  BY DEF AgeOut
<1>4. \A k, l \in DOMAIN t.by_key : t.by_key[k] = t.by_key[l] => k = l
  BY DEF TableOK
<1>5. \A k \in DOMAIN t.by_key : t.by_key[k] \in gone => k \in Reaped(t, now)
  BY <1>1, <1>4
<1> HIDE DEF u, gone
<1>6. Listed(u) = Listed(t) \ gone
  <2>1. \A k \in DOMAIN u.by_key : u.by_key[k] \in Listed(t) \ gone
    BY <1>3, <1>5 DEF Listed
  <2>2. ASSUME NEW i \in Listed(t) \ gone PROVE i \in Listed(u)
    <3>1. PICK k \in DOMAIN t.by_key : i = t.by_key[k]
      BY DEF Listed
    <3>2. k \notin Reaped(t, now)
      BY <3>1 DEF gone
    <3> QED
      BY <1>3, <3>1, <3>2 DEF Listed
  <2> QED
    BY <2>1, <2>2 DEF Listed
<1>7. ASSUME NEW i \in DOMAIN t.sessions
      PROVE  /\ Entry(u.sessions[i]) = IF i \in gone THEN [Entry(t.sessions[i]) EXCEPT !.over = TRUE]
                                       ELSE Entry(t.sessions[i])
             /\ i \notin gone => u.sessions[i] = t.sessions[i]
  <2>1. t.sessions[i] \in Session
    BY SessionAt
  <2>2. CASE i \in gone
    BY <1>3, <2>1, <2>2, EntryOver
  <2>3. CASE i \notin gone
    BY <1>3, <2>3
  <2> QED
    BY <2>2, <2>3
<1> QED
  BY <1>2, <1>3, <1>6, <1>7 DEF Crossed, u, gone

\* What may come before the handling of a frame.
LEMMA SweptCrosses ==
  ASSUME IInv, NEW ts
  PROVE  \E gone \in SUBSET Listed(flows) : Crossed(flows, Swept(ts), gone)
<1>1. CASE SweepDue
  BY <1>1, AgeOutCrosses DEF Swept, IInv
<1>2. CASE ~SweepDue
  <2>1. Swept(ts) = flows
    BY <1>2 DEF Swept
  <2>2. Crossed(flows, flows, {})
    BY DEF Crossed
  <2> QED
    BY <2>1, <2>2
<1> QED
  BY <1>1, <1>2

-----------------------------------------------------------------------------
(***************************************************************************)
(* Each step of the pipeline is one of the ledger's.                       *)
(***************************************************************************)
LEMMA BookShown ==
  /\ [i \in All |-> Entry(flows.sessions[i])] = Book(flows)
  /\ {flows.by_key[k] : k \in DOMAIN flows.by_key} = Listed(flows)
  BY DEF Book, Listed, All

LEMMA BookRests ==
  ASSUME NEW t, NEW u, NEW gone, Crossed(t, u, gone)
  PROVE  /\ DOMAIN Book(u) = DOMAIN Book(t) /\ DOMAIN Book(t) = DOMAIN t.sessions
         /\ \A i \in DOMAIN Book(t) :
              Book(u)[i] = IF i \in gone THEN [Book(t)[i] EXCEPT !.over = TRUE] ELSE Book(t)[i]
  BY DEF Crossed, Book

LEMMA LedgerIgnores ==
  ASSUME NEW gone \in SUBSET Listed(flows), Crossed(flows, flows', gone),
         phase = "reading", phase' = phase
  PROVE  Abstract!Next
<1>1. /\ DOMAIN Book(flows') = DOMAIN Book(flows)
      /\ \A i \in DOMAIN Book(flows) :
           Book(flows')[i] = IF i \in gone THEN [Book(flows)[i] EXCEPT !.over = TRUE]
                             ELSE Book(flows)[i]
      /\ Listed(flows') = Listed(flows) \ gone
  <2>1. Listed(flows') = Listed(flows) \ gone
    BY DEF Crossed
  <2> QED
    BY <2>1, BookRests
<1>2. Abstract!Pass(gone)
  BY <1>1 DEF Abstract!Pass, Abstract!Rests, Book, Listed, All
<1>3. Abstract!Ignore(gone)
  BY <1>2 DEF Abstract!Ignore
<1> QED
  BY <1>3 DEF Abstract!Next, Listed

LEMMA LedgerCloses ==
  ASSUME IInv, Finish
  PROVE  Abstract!Next
<1>1. PICK gone \in SUBSET Listed(flows) : Crossed(flows, flows', gone)
  BY AgeOutCrosses DEF Finish, IInv
<1>2. /\ DOMAIN Book(flows') = DOMAIN Book(flows)
      /\ \A i \in DOMAIN Book(flows) :
           Book(flows')[i] = IF i \in gone THEN [Book(flows)[i] EXCEPT !.over = TRUE]
                             ELSE Book(flows)[i]
      /\ Listed(flows') = Listed(flows) \ gone
  <2>1. Listed(flows') = Listed(flows) \ gone
    BY <1>1 DEF Crossed
  <2> QED
    BY <1>1, <2>1, BookRests
<1>3. Abstract!Pass(gone)
  BY <1>2 DEF Abstract!Pass, Abstract!Rests, Book, Listed, All
<1>4. Abstract!Close(gone)
  BY <1>3 DEF Abstract!Close, Finish
<1> QED
  BY <1>4 DEF Abstract!Next, Listed

\* What a packet makes of a session follows its entry.
LEMMA EntryFollows ==
  ASSUME NEW s, SessionInv(s), NEW u, SessionInv(u), Continues(s, u)
  PROVE  Abstract!Follows(Entry(s), Entry(u))
<1>1. /\ Entry(u).parties = Entry(s).parties /\ Entry(u).proto = Entry(s).proto
  BY DEF Entry, Continues
<1>2. Entry(s).over => Entry(u).over
  BY DEF Entry, Continues
<1>3. s.app_latched => u.app_latched /\ u.verdict = s.verdict
  BY DEF Continues, Decision
<1>4. u.verdict # s.verdict => u.app_latched /\ (u.verdict = "Allow" \/ u.state = "Closed")
  BY DEF Continues, Decision, SessionInv, Latch
<1>5. /\ Entry(s).settled = s.app_latched /\ Entry(u).settled = u.app_latched
      /\ Entry(s).verdict = s.verdict /\ Entry(u).verdict = u.verdict
      /\ Entry(u).over <=> u.state = "Closed"
  BY DEF Entry
<1> QED
  BY <1>1, <1>2, <1>3, <1>4, <1>5, Zenon DEF Abstract!Follows, Abstract!SameConversation

LEMMA LedgerHeeds ==
  ASSUME IInv, NEW m \in Segments, NEW ts \in Times, ContinueSession(m, ts)
  PROVE  Abstract!Next
<1> DEFINE T == Swept(ts)
<1>1. ts \in Nat
  BY EngineAssumption
<1>2. TableOK(T) /\ AllGood(T)
  BY <1>1, SweptInv
<1>3. PICK gone \in SUBSET Listed(flows) : Crossed(flows, T, gone)
  BY SweptCrosses
<1>4. /\ Lookup(T, m) # kNoSession /\ phase = "reading" /\ phase' = phase
      /\ flows' = [T EXCEPT !.sessions[Lookup(T, m)] =
                     Applied(T.sessions[Lookup(T, m)], m, ts,
                             ToInitiator(T.sessions[Lookup(T, m)], m))]
  BY DEF ContinueSession, Reading
<1> HIDE DEF T
<1> DEFINE i == Lookup(T, m)
           s == flows'.sessions[i]
<1>5. i \in DOMAIN T.sessions /\ i \in Listed(T)
  BY <1>2, <1>4, LookupFinds DEF Listed
<1>6. /\ flows'.by_key = T.by_key
      /\ DOMAIN flows'.sessions = DOMAIN T.sessions
      /\ \A j \in DOMAIN T.sessions : j # i => flows'.sessions[j] = T.sessions[j]
  BY <1>2, <1>4 DEF TableOK
<1>7. i \notin gone /\ T.sessions[i] = flows.sessions[i] /\ i \in DOMAIN flows.sessions
  BY <1>3, <1>5 DEF Crossed
<1> HIDE DEF i
<1>8. SessionInv(s) /\ Continues(T.sessions[i], s)
  <2>1. /\ IInv'
        /\ \E n \in DOMAIN flows.sessions, u \in Session :
              /\ flows'.sessions = [T.sessions EXCEPT ![n] = u]
              /\ flows'.by_key = T.by_key
              /\ Continues(T.sessions[n], u)
    BY ContinueInv DEF T
  <2>2. PICK n \in DOMAIN flows.sessions, u \in Session :
              /\ flows'.sessions = [T.sessions EXCEPT ![n] = u]
              /\ Continues(T.sessions[n], u)
    BY <2>1
  <2>3. SessionInv(s)
    BY <1>5, <1>6, <2>1 DEF IInv, AllGood
  <2>4. CASE n = i
    BY <1>5, <2>2, <2>3, <2>4
  <2>5. CASE n # i
    <3>1. s = T.sessions[i]
      BY <1>5, <2>2, <2>5
    <3> QED
      BY <3>1, <1>2, <1>5, <2>3, SessionAt, ContinuesItself
  <2> QED
    BY <2>3, <2>4, <2>5
<1> HIDE DEF s
<1>9. Abstract!Follows(Entry(flows.sessions[i]), Entry(s))
  <2>1. SessionInv(flows.sessions[i])
    BY <1>7 DEF IInv, AllGood
  <2> QED
    BY <1>7, <1>8, <2>1, EntryFollows
<1>10. /\ DOMAIN Book(flows') = DOMAIN Book(flows)
       /\ Book(flows)[i] = Entry(flows.sessions[i]) /\ Book(flows')[i] = Entry(s)
       /\ \A j \in DOMAIN Book(flows) \ {i} :
            Book(flows')[j] = IF j \in gone THEN [Book(flows)[j] EXCEPT !.over = TRUE]
                              ELSE Book(flows)[j]
  BY <1>3, <1>5, <1>6, <1>7 DEF Crossed, Book, s
<1>11. Listed(flows') = Listed(flows) \ gone /\ i \in Listed(flows')
  BY <1>3, <1>5, <1>6 DEF Crossed, Listed
<1>12. Abstract!Heed(gone)
  BY <1>4, <1>9, <1>10, <1>11
     DEF Abstract!Heed, Abstract!Rests, Book, Listed, All
<1> QED
  BY <1>12 DEF Abstract!Next, Listed

LEMMA LedgerEnters ==
  ASSUME IInv, NEW m \in Segments, NEW ts \in Times, OpenSession(m, ts)
  PROVE  Abstract!Next
<1> DEFINE T == Swept(ts)
           new == Len(T.sessions) + 1
<1>1. ts \in Nat
  BY EngineAssumption
<1>2. TableOK(T)
  BY <1>1, SweptInv
<1>3. PICK gone \in SUBSET Listed(flows) : Crossed(flows, T, gone)
  BY SweptCrosses
<1>4. phase = "reading" /\ phase' = phase
  BY DEF OpenSession, Reading
<1>5. PICK s : flows' = Create(T, s) /\ s \in Session /\ KeyOf(s) \notin DOMAIN T.by_key
  BY OpenInv
<1> HIDE DEF T
<1>6. /\ DOMAIN T.sessions = 1 .. Len(T.sessions) /\ Len(T.sessions) \in Nat
      /\ DOMAIN flows.sessions = DOMAIN T.sessions
  BY <1>2, <1>3 DEF TableOK, Crossed
<1>7. /\ flows'.sessions = Append(T.sessions, s)
      /\ DOMAIN flows'.by_key = DOMAIN T.by_key \cup {KeyOf(s)}
      /\ flows'.by_key[KeyOf(s)] = new
      /\ \A k \in DOMAIN T.by_key : flows'.by_key[k] = T.by_key[k]
  BY <1>5 DEF Create
<1>8. /\ new \notin DOMAIN T.sessions
      /\ DOMAIN flows'.sessions = DOMAIN T.sessions \cup {new}
      /\ flows'.sessions[new] = s
      /\ \A i \in DOMAIN T.sessions : flows'.sessions[i] = T.sessions[i]
  BY <1>2, <1>5, <1>6, <1>7 DEF TableOK
<1> HIDE DEF new
<1>9. Listed(flows') = (Listed(flows) \ gone) \cup {new}
  <2>1. Listed(T) = Listed(flows) \ gone
    BY <1>3 DEF Crossed
  <2>2. Listed(flows') = Listed(T) \cup {new}
    BY <1>7, <1>5 DEF Listed
  <2> QED
    BY <2>1, <2>2
<1>10. /\ DOMAIN Book(flows') = DOMAIN Book(flows) \cup {new}
       /\ new \notin DOMAIN Book(flows)
       /\ Book(flows')[new] = Entry(s)
       /\ \A i \in DOMAIN Book(flows) :
            Book(flows')[i] = IF i \in gone THEN [Book(flows)[i] EXCEPT !.over = TRUE]
                              ELSE Book(flows)[i]
  BY <1>3, <1>6, <1>8 DEF Crossed, Book
<1>11. ASSUME NEW i \in Listed(flows) \ gone
       PROVE  ~Abstract!SameConversation(Book(flows)[i], Book(flows')[new])
  <2>1. i \in Listed(T)
    BY <1>3 DEF Crossed
  <2>2. PICK k \in DOMAIN T.by_key : i = T.by_key[k]
    BY <2>1 DEF Listed
  <2>3. i \in DOMAIN T.sessions /\ k = KeyOf(T.sessions[i])
    BY <1>2, <2>2 DEF TableOK
  <2>4. i \in DOMAIN flows.sessions /\ T.sessions[i] = flows.sessions[i]
    BY <1>3, <1>6, <2>3 DEF Crossed
  <2> DEFINE t == flows.sessions[i]
  <2>5. t \in Session /\ Book(flows)[i] = Entry(t)
    BY <1>2, <2>3, <2>4, SessionAt DEF Book
  <2>6. k = KeyOf(t)
    BY <2>3, <2>4
  <2> HIDE DEF t
  <2>7. ASSUME {t.init, t.resp} = {s.init, s.resp}, t.proto = s.proto PROVE FALSE
    <3>1. t.init \in Endpoint /\ t.resp \in Endpoint /\ s.init \in Endpoint /\ s.resp \in Endpoint
      BY <1>5, <2>5 DEF Session
    <3>2. MakeKey(t.init, t.resp, t.proto) = MakeKey(s.init, s.resp, t.proto)
      BY <2>7, <3>1, MakeKeyOfPair
    <3>3. KeyOf(t) = KeyOf(s)
      BY <2>7, <3>2 DEF KeyOf
    <3> QED
      BY <1>5, <2>6, <3>3
  <2>8. ~({t.init, t.resp} = {s.init, s.resp} /\ t.proto = s.proto)
    BY <2>7
  <2> QED
    BY <1>10, <2>5, <2>8 DEF Abstract!SameConversation, Entry
<1>12. Abstract!Enter(gone)
  BY <1>4, <1>9, <1>10, <1>11 DEF Abstract!Enter, Abstract!Rests, Book, Listed, All
<1> QED
  BY <1>12 DEF Abstract!Next, Listed

LEMMA StepOfLedger == ASSUME IInv, Next PROVE Abstract!Next
<1>1. ASSUME NEW ts \in Times, NEW names \in Unparsed, StopFrame(names, ts)
      PROVE  Abstract!Next
  <2>1. flows' = Swept(ts) /\ phase = "reading" /\ phase' = phase
    BY <1>1 DEF StopFrame, Reading
  <2>2. PICK gone \in SUBSET Listed(flows) : Crossed(flows, Swept(ts), gone)
    BY SweptCrosses
  <2> QED
    BY <2>1, <2>2, LedgerIgnores
<1>2. ASSUME NEW ts \in Times, NEW m \in Segments, RefuseOutOfState(m, ts)
      PROVE  Abstract!Next
  <2>1. flows' = Swept(ts) /\ phase = "reading" /\ phase' = phase
    BY <1>2 DEF RefuseOutOfState, Reading
  <2>2. PICK gone \in SUBSET Listed(flows) : Crossed(flows, Swept(ts), gone)
    BY SweptCrosses
  <2> QED
    BY <2>1, <2>2, LedgerIgnores
<1> QED
  BY <1>1, <1>2, LedgerEnters, LedgerHeeds, LedgerCloses DEF Next

\* The pipeline keeps the promises of the ledger, for every rule base and every
\* capture: of one frame comes one step of it (engine.cpp:30-242).
THEOREM PipelineImplementsLedger == Spec => ImplementsLedger
<1>1. Init => Abstract!Init
  BY DEF Init, Abstract!Init, EmptyTable, All
<1>2. IInv /\ [Next]_vars => [Abstract!Next]_(Abstract!vars)
  <2>1. ASSUME UNCHANGED vars PROVE UNCHANGED Abstract!vars
    BY <2>1 DEF vars, Abstract!vars, All
  <2> QED
    BY <2>1, StepOfLedger
<1> QED
  BY <1>1, <1>2, Invariance, PTL DEF Spec, ImplementsLedger, Abstract!Spec

-----------------------------------------------------------------------------
(***************************************************************************)
(* Sweeps.                                                                 *)
(***************************************************************************)
\* Handling a frame lists nothing that was there before and not listed after the sweep.
LEMMA FrameLists ==
  ASSUME IInv, Next, phase' = "reading"
  PROVE  /\ last_ts' \in Times
         /\ \A i \in All : i \in Listed(flows') => i \in Listed(Swept(last_ts'))
<1>1. ASSUME NEW ts \in Times, NEW names \in Unparsed, StopFrame(names, ts)
      PROVE  last_ts' = ts /\ flows' = Swept(ts)
  BY <1>1 DEF StopFrame
<1>2. ASSUME NEW ts \in Times, NEW m \in Segments, RefuseOutOfState(m, ts)
      PROVE  last_ts' = ts /\ flows' = Swept(ts)
  BY <1>2 DEF RefuseOutOfState
<1>3. ASSUME NEW ts \in Times, NEW m \in Segments, OpenSession(m, ts)
      PROVE  /\ last_ts' = ts
             /\ \A i \in All : i \in Listed(flows') => i \in Listed(Swept(ts))
  <2> DEFINE T == Swept(ts)
  <2>1. TableOK(T) /\ DOMAIN T.sessions = All
    <3>1. ts \in Nat
      BY EngineAssumption
    <3> QED
      BY <3>1, SweptInv DEF SameDecisions, All
  <2> HIDE DEF T
  <2>2. PICK s : flows' = Create(T, s) /\ s \in Session /\ KeyOf(s) \notin DOMAIN T.by_key
    BY <1>3, OpenInv DEF T
  <2>3. DOMAIN T.sessions = 1 .. Len(T.sessions) /\ Len(T.sessions) \in Nat
    BY <2>1 DEF TableOK
  <2>4. \A k \in DOMAIN flows'.by_key : \/ flows'.by_key[k] = Len(T.sessions) + 1
                                        \/ k \in DOMAIN T.by_key /\ flows'.by_key[k] = T.by_key[k]
    BY <2>2 DEF Create
  <2>5. Len(T.sessions) + 1 \notin All
    BY <2>1, <2>3
  <2>6. last_ts' = ts
    BY <1>3 DEF OpenSession
  <2> QED
    BY <2>4, <2>5, <2>6 DEF Listed, T
<1>4. ASSUME NEW ts \in Times, NEW m \in Segments, ContinueSession(m, ts)
      PROVE  /\ last_ts' = ts
             /\ \A i \in All : i \in Listed(flows') => i \in Listed(Swept(ts))
  <2>1. flows'.by_key = Swept(ts).by_key
    BY <1>4, ContinueInv
  <2>2. last_ts' = ts
    BY <1>4 DEF ContinueSession
  <2> QED
    BY <2>1, <2>2 DEF Listed
<1>5. ~Finish
  BY DEF Finish
<1> QED
  BY <1>1, <1>2, <1>3, <1>4, <1>5 DEF Next

\* Nor does it take off the list what the sweep leaves there.
LEMMA SweptStaysListed ==
  ASSUME IInv, Next, ~Finish, NEW i, i \notin Listed(flows')
  PROVE  last_ts' \in Times /\ i \notin Listed(Swept(last_ts'))
<1>1. ASSUME NEW ts \in Times, NEW names \in Unparsed, StopFrame(names, ts)
      PROVE  last_ts' = ts /\ flows' = Swept(ts)
  BY <1>1 DEF StopFrame
<1>2. ASSUME NEW ts \in Times, NEW m \in Segments, RefuseOutOfState(m, ts)
      PROVE  last_ts' = ts /\ flows' = Swept(ts)
  BY <1>2 DEF RefuseOutOfState
<1>3. ASSUME NEW ts \in Times, NEW m \in Segments, OpenSession(m, ts)
      PROVE  last_ts' = ts /\ i \notin Listed(Swept(ts))
  <2>1. PICK s : /\ flows' = Create(Swept(ts), s)
                 /\ KeyOf(s) \notin DOMAIN Swept(ts).by_key
    BY <1>3, OpenInv
  <2>2. \A k \in DOMAIN Swept(ts).by_key : /\ k \in DOMAIN flows'.by_key
                                            /\ flows'.by_key[k] = Swept(ts).by_key[k]
    BY <2>1 DEF Create
  <2>3. last_ts' = ts
    BY <1>3 DEF OpenSession
  <2> QED
    BY <2>2, <2>3 DEF Listed
<1>4. ASSUME NEW ts \in Times, NEW m \in Segments, ContinueSession(m, ts)
      PROVE  last_ts' = ts /\ i \notin Listed(Swept(ts))
  <2>1. flows'.by_key = Swept(ts).by_key
    BY <1>4, ContinueInv
  <2>2. last_ts' = ts
    BY <1>4 DEF ContinueSession
  <2> QED
    BY <2>1, <2>2 DEF Listed
<1> QED
  BY <1>1, <1>2, <1>3, <1>4 DEF Next

\* Nothing that is expired is listed after the table has aged, and nothing else is
\* taken off the list.
LEMMA AgeOutLists ==
  ASSUME NEW t, TableOK(t), NEW now, NEW i \in Listed(t)
  PROVE  i \in Listed(AgeOut(t, now)) <=> ~Expired(t.sessions[i], now)
<1> DEFINE u == AgeOut(t, now)
<1>1. /\ DOMAIN u.by_key = DOMAIN t.by_key \ Reaped(t, now)
      /\ \A k \in DOMAIN u.by_key : u.by_key[k] = t.by_key[k]
      /\ \A k, l \in DOMAIN t.by_key : t.by_key[k] = t.by_key[l] => k = l
  BY AgeOutOK DEF TableOK
<1> HIDE DEF u
<1>2. PICK k \in DOMAIN t.by_key : i = t.by_key[k]
  BY DEF Listed
<1>3. k \in Reaped(t, now) <=> Expired(t.sessions[i], now)
  BY <1>2 DEF Reaped
<1>4. i \in Listed(u) <=> k \in DOMAIN u.by_key
  BY <1>1, <1>2 DEF Listed
<1> QED
  BY <1>1, <1>2, <1>3, <1>4 DEF u

LEMMA IdlePast ==
  ASSUME NEW s \in Session, NEW now \in Nat
  PROVE  Expired(s, now) <=> s.state = "Closed" \/ now > s.last_seen + ForSession(s)
<1>1. s.last_seen \in Nat /\ ForSession(s) \in Nat
  BY TimeoutsAssumption DEF Session, ForSession
<1>2. Idle(s, now) > ForSession(s) <=> now > s.last_seen + ForSession(s)
  BY <1>1 DEF Idle
<1> QED
  BY <1>2 DEF Expired

\* A sweep takes out of the index whatever was closed, or idle past its timeout at the
\* sweep's time, even when the frame that ran it is one of the session's own
\* (engine.cpp:30-32).
THEOREM SweepsAreThorough == Spec => SweepReaps
<1> DEFINE A == SweepDue /\ counters'.packets # counters.packets =>
                  \A i \in All :
                    LET s == flows.sessions[i]
                    IN  ~Live(i) \/ last_ts' > s.last_seen + ForSession(s) => ~Indexed(i)'
<1>1. IInv /\ [Next]_vars => [A]_vars
  <2> SUFFICES ASSUME IInv, Next, SweepDue, counters'.packets # counters.packets, NEW i \in All,
                      ~Live(i) \/ last_ts' > flows.sessions[i].last_seen
                                             + ForSession(flows.sessions[i])
               PROVE  ~Indexed(i)'
    OBVIOUS
  <2>1. phase' = "reading"
    <3>1. ~Finish
      <4>1. counters \in [Counter -> Nat] /\ "packets" \in Counter
        BY DEF IInv, Ledger, Counter
      <4> QED
        BY <4>1 DEF Finish
    <3> QED
      BY <3>1 DEF Next, StopFrame, RefuseOutOfState, OpenSession, ContinueSession, Reading
  <2>2. last_ts' \in Nat /\ (i \in Listed(flows') => i \in Listed(AgeOut(flows, last_ts')))
    BY <2>1, FrameLists, EngineAssumption DEF Swept
  <2>3. Expired(flows.sessions[i], last_ts')
    <3>1. flows.sessions[i] \in Session
      BY SessionAt DEF IInv, All
    <3> QED
      BY <2>2, <3>1, IdlePast DEF Live
  <2>4. i \notin Listed(AgeOut(flows, last_ts'))
    <3>1. CASE i \in Listed(flows)
      BY <2>3, <3>1, AgeOutLists DEF IInv
    <3>2. CASE i \notin Listed(flows)
      BY <3>2, AgeOutOK DEF IInv, Listed
    <3> QED
      BY <3>1, <3>2
  <2> QED
    BY <2>2, <2>4 DEF Indexed, Listed
<1> QED
  BY <1>1, Invariance, PTL DEF Spec, SweepReaps

-----------------------------------------------------------------------------
(***************************************************************************)
(* Times, of a capture whose timestamps do not step back.                  *)
(***************************************************************************)
Timed(t, now) == \A i \in DOMAIN t.sessions :
                   /\ t.sessions[i].first_seen <= t.sessions[i].last_seen
                   /\ t.sessions[i].last_seen <= now

LEMMA AppliedTimes ==
  ASSUME NEW s \in Session, NEW m \in Segment, NEW ts \in Nat, NEW dir \in BOOLEAN
  PROVE  LET u == Applied(s, m, ts, dir)
         IN  u.first_seen = s.first_seen /\ u.last_seen = ts
<1> DEFINE x == Touched(s, ts, dir)
           y == Advanced(x, m, dir)
           z == Identified(y, m, dir)
<1>1. x \in Session /\ x.first_seen = s.first_seen /\ x.last_seen = ts
  <2>1. s.pkts_c2s + 1 \in Nat /\ s.pkts_s2c + 1 \in Nat
    BY DEF Session
  <2>2. x = IF dir THEN [s EXCEPT !.last_seen = ts, !.pkts_s2c = s.pkts_s2c + 1]
                   ELSE [s EXCEPT !.last_seen = ts, !.pkts_c2s = s.pkts_c2s + 1]
    BY DEF Touched
  <2> HIDE DEF x
  <2> QED
    BY <2>1, <2>2 DEF Session
<1> HIDE DEF x
<1>2. y \in Session /\ y.first_seen = s.first_seen /\ y.last_seen = ts
  <2>1. Moves(x, y)
    BY <1>1, TcpAdvanceMoves, UdpAdvanceMoves DEF Advanced, Segment
  <2> HIDE DEF y
  <2> QED
    BY <1>1, <2>1 DEF Moves, Session
<1> HIDE DEF y
<1>3. z.first_seen = y.first_seen /\ z.last_seen = y.last_seen
  <2> DEFINE result == Classify(m.payload, y.proto, IF dir THEN y.resp.port ELSE m.dst.port)
             seen   == [y EXCEPT !.l7_bytes_seen = @ + m.payload.size]
  <2>1. seen.first_seen = y.first_seen /\ seen.last_seen = y.last_seen
        /\ DOMAIN seen = DOMAIN y
    BY <1>2 DEF Session
  <2>2. z \in {y, seen, Latched(seen, result.application), Latched(seen, "unknown")}
    BY DEF Identified
  <2> HIDE DEF seen, result, z
  <2>3. \A app : /\ Latched(seen, app).first_seen = seen.first_seen
                 /\ Latched(seen, app).last_seen = seen.last_seen
    BY DEF Latched
  <2> QED
    BY <2>1, <2>2, <2>3
<1> HIDE DEF z
<1> QED
  BY <1>2, <1>3 DEF Applied, x, y, z

LEMMA AgeOutTimes ==
  ASSUME NEW t, TableOK(t), NEW now, NEW then \in Nat, now \in Nat, then <= now, Timed(t, then)
  PROVE  Timed(AgeOut(t, now), now) /\ Timed(t, now)
<1> DEFINE u == AgeOut(t, now)
<1>1. /\ DOMAIN u.sessions = DOMAIN t.sessions
      /\ \A i \in DOMAIN t.sessions :
           u.sessions[i] \in {t.sessions[i], [t.sessions[i] EXCEPT !.state = "Closed"]}
  BY AgeOutOK
<1> HIDE DEF u
<1>2. ASSUME NEW i \in DOMAIN t.sessions
      PROVE  /\ t.sessions[i].first_seen \in Nat /\ t.sessions[i].last_seen \in Nat
             /\ u.sessions[i].first_seen = t.sessions[i].first_seen
             /\ u.sessions[i].last_seen = t.sessions[i].last_seen
  <2>1. t.sessions[i] \in Session
    BY SessionAt
  <2> QED
    BY <1>1, <2>1 DEF Session
<1>3. Timed(u, now) /\ Timed(t, now)
  BY <1>1, <1>2 DEF Timed
<1> QED
  BY <1>3 DEF u

LEMMA SweptTimes ==
  ASSUME IInv, Timed(flows, last_ts), NEW ts \in Nat, last_ts <= ts
  PROVE  Timed(Swept(ts), ts)
BY AgeOutTimes DEF IInv, Swept

LEMMA StepTimed ==
  ASSUME IInv, ~ClockStepsBack, Timed(flows, last_ts), [Next]_vars
  PROVE  Timed(flows', last_ts')
<1>1. ASSUME NEW ts \in Times, Reading(ts) PROVE ts \in Nat /\ Timed(Swept(ts), ts)
  BY <1>1, SweptTimes, EngineAssumption DEF Reading
<1>2. ASSUME NEW ts \in Times, NEW names \in Unparsed, StopFrame(names, ts)
      PROVE  Timed(flows', last_ts')
  BY <1>1, <1>2 DEF StopFrame
<1>3. ASSUME NEW ts \in Times, NEW m \in Segments, RefuseOutOfState(m, ts)
      PROVE  Timed(flows', last_ts')
  BY <1>1, <1>3 DEF RefuseOutOfState
<1>4. ASSUME NEW ts \in Times, NEW m \in Segments, OpenSession(m, ts)
      PROVE  Timed(flows', last_ts')
  <2> DEFINE T == Swept(ts)
             j == Judged(NewSession(m, ts))
             x == Translated(j)
             s == Applied(x, m, ts, FALSE)
  <2>1. /\ ts \in Nat /\ Timed(T, ts) /\ TableOK(T) /\ last_ts' = ts /\ m \in Segment
        /\ flows' = Create(T, s)
    BY <1>1, <1>4, SweptInv, EngineAssumption DEF OpenSession
  <2> HIDE DEF T
  <2>2. /\ j \in Session /\ j.first_seen = ts
        /\ ~j.nat_applied /\ SessionInv(j)
    <3>1. j.first_seen = ts
      BY DEF Judged, NewSession
    <3> QED
      BY <2>1, <3>1, JudgedInv DEF SessionInv
  <2> HIDE DEF j
  <2>3. x \in Session /\ x.first_seen = ts
    <3>1. /\ SessionInv(x)
          /\ x \in {j, [j EXCEPT !.nat_applied = TRUE, !.nat_port = nat.next_port]}
      BY <2>2, TranslatedInv DEF IInv, PoolOK
    <3> HIDE DEF x
    <3> QED
      BY <2>2, <3>1 DEF SessionInv, Session
  <2> HIDE DEF x
  <2>4. s.first_seen = ts /\ s.last_seen = ts
    BY <2>1, <2>3, AppliedTimes
  <2> HIDE DEF s
  <2>5. flows'.sessions = Append(T.sessions, s) /\ T.sessions \in Seq(Session)
    BY <2>1 DEF Create, TableOK
  <2> QED
    BY <2>1, <2>4, <2>5 DEF Timed
<1>5. ASSUME NEW ts \in Times, NEW m \in Segments, ContinueSession(m, ts)
      PROVE  Timed(flows', last_ts')
  <2> DEFINE T == Swept(ts)
             i == Lookup(T, m)
             b == T.sessions[i]
             dir == ToInitiator(b, m)
             s == Applied(b, m, ts, dir)
  <2>1. /\ ts \in Nat /\ Timed(T, ts) /\ TableOK(T) /\ last_ts' = ts /\ m \in Segment
        /\ flows' = [T EXCEPT !.sessions[i] = s] /\ i # kNoSession
    BY <1>1, <1>5, SweptInv, EngineAssumption DEF ContinueSession
  <2> HIDE DEF T
  <2>2. i \in DOMAIN T.sessions
    BY <2>1, LookupFinds
  <2> HIDE DEF i
  <2>3. b \in Session /\ dir \in BOOLEAN /\ b.first_seen <= ts /\ b.first_seen \in Nat
    <3>1. b \in Session
      BY <2>1, <2>2, SessionAt
    <3>2. b.first_seen \in Nat /\ b.last_seen \in Nat
      BY <3>1 DEF Session
    <3>3. b.first_seen <= b.last_seen /\ b.last_seen <= ts
      BY <2>1, <2>2 DEF Timed
    <3> HIDE DEF b
    <3> QED
      BY <2>1, <3>1, <3>2, <3>3 DEF ToInitiator
  <2>4. s.first_seen = b.first_seen /\ s.last_seen = ts
    <3> HIDE DEF b, dir
    <3> QED
      BY <2>1, <2>3, AppliedTimes
  <2> HIDE DEF s
  <2>5. flows'.sessions = [T.sessions EXCEPT ![i] = s]
    BY <2>1 DEF TableOK
  <2>6. ASSUME NEW n \in DOMAIN flows'.sessions
        PROVE  /\ flows'.sessions[n].first_seen <= flows'.sessions[n].last_seen
               /\ flows'.sessions[n].last_seen <= ts
    <3>1. CASE n = i
      BY <2>1, <2>2, <2>3, <2>4, <2>5, <3>1
    <3>2. CASE n # i
      BY <2>1, <2>5, <3>2 DEF Timed
    <3> QED
      BY <3>1, <3>2
  <2> QED
    BY <2>1, <2>6 DEF Timed
<1>6. CASE Finish
  BY <1>6, AgeOutTimes DEF Finish, IInv
<1>7. CASE UNCHANGED vars
  BY <1>7 DEF vars
<1> QED
  BY <1>2, <1>3, <1>4, <1>5, <1>6, <1>7 DEF Next

\* Unless the capture's clock steps back, a session that is not over leaves the index
\* only when its timeout has passed since it began (flow.h:210).
THEOREM OnlyTheIdleRetire == ~ClockStepsBack => (Spec => RetiredOnlyWhenIdle)
<1> SUFFICES ASSUME ~ClockStepsBack PROVE Spec => RetiredOnlyWhenIdle
  OBVIOUS
<1> DEFINE I == IInv /\ Timed(flows, last_ts)
           A == \A i \in All :
                  LET s == flows.sessions[i]
                  IN  Live(i) /\ Indexed(i) /\ ~Indexed(i)'
                        => last_ts' > s.first_seen + ForSession(s)
<1>1. Init => I
  BY InitIInv DEF Init, EmptyTable, Timed
<1>2. I /\ [Next]_vars => I'
  BY NextIInv, StepTimed
<1>3. I /\ [Next]_vars => [A]_vars
  <2> SUFFICES ASSUME I, Next, NEW i \in All, Live(i), Indexed(i), ~Indexed(i)'
               PROVE  last_ts' > flows.sessions[i].first_seen + ForSession(flows.sessions[i])
    OBVIOUS
  <2> DEFINE s == flows.sessions[i]
  <2>1. /\ s \in Session /\ s.state # "Closed"
        /\ s.first_seen \in Nat /\ s.last_seen \in Nat /\ s.first_seen <= s.last_seen
        /\ ForSession(s) \in Nat
    <3>1. s \in Session
      BY SessionAt DEF IInv, All
    <3> QED
      BY <3>1, TimeoutsAssumption DEF Session, ForSession, Timed, All, Live
  <2>2. i \in Listed(flows) /\ i \notin Listed(flows')
    BY DEF Indexed, Listed
  <2>3. last_ts' \in Nat /\ Expired(s, last_ts')
    <3>1. CASE Finish
      <4>1. last_ts' = last_ts /\ flows' = AgeOut(flows, last_ts) /\ last_ts \in Nat
        BY <3>1 DEF Finish, IInv
      <4> QED
        BY <2>2, <4>1, AgeOutLists DEF IInv
    <3>2. CASE ~Finish
      <4>1. i \notin Listed(Swept(last_ts')) /\ last_ts' \in Nat
        BY <2>2, <3>2, SweptStaysListed, EngineAssumption
      <4>2. SweepDue /\ i \notin Listed(AgeOut(flows, last_ts'))
        BY <2>2, <4>1 DEF Swept
      <4> QED
        BY <2>2, <4>1, <4>2, AgeOutLists DEF IInv
    <3> QED
      BY <3>1, <3>2
  <2> HIDE DEF s
  <2> QED
    BY <2>1, <2>3, IdlePast DEF s
<1>4. Spec => [][A]_vars
  BY <1>1, <1>2, <1>3, PTL DEF Spec
<1> QED
  BY <1>4 DEF RetiredOnlyWhenIdle

-----------------------------------------------------------------------------
(***************************************************************************)
(* What is shown.                                                          *)
(***************************************************************************)
\* The rule an evaluation names is in the rule base and has the verdict, or there is
\* none and the verdict is the default.
LEMMA EvaluateNames ==
  ASSUME NEW from, NEW to, NEW proto, NEW port, NEW app
  PROVE  LET d == Evaluate(from, to, proto, port, app)
         IN  \/ d.rule \in DOMAIN Rules /\ d.verdict = Rules[d.rule].action
             \/ d.rule = kDefaultDeny /\ d.verdict = "Deny"
<1> DEFINE matching == {i \in DOMAIN Rules : RuleMatches(Rules[i], from, to, proto, port, app)}
<1>1. CASE matching = {}
  BY <1>1 DEF Evaluate
<1>2. CASE matching # {}
  <2>1. matching \in SUBSET Nat
    BY PolicyAssumption
  <2>2. Min(matching) \in matching
    BY <1>2, <2>1, LeastOfNats
  <2> QED
    BY <1>2, <2>2 DEF Evaluate
<1> QED
  BY <1>1, <1>2

\* A number is its own remainder below the wrap.
LEMMA NoWrap ==
  ASSUME NEW w \in Nat \ {0}, NEW a \in Nat, a < w
  PROVE  a % w = a
<1>1. a = w * (a \div w) + (a % w) /\ a % w \in 0 .. w - 1 /\ a \div w \in Nat
  OBVIOUS
<1>2. a \div w = 0
  BY <1>1
<1> QED
  BY <1>1, <1>2

LEMMA RowFields ==
  ASSUME IInv, NEW i \in All
  PROVE  LET s == flows.sessions[i]
         IN  /\ Rows[i].action = s.verdict /\ Rows[i].app_id_shift = s.app_shifted
             /\ Rows[i].rule = RuleAt(s.matched_rule) /\ Rows[i].state = s.state
             /\ Rows[i].app = AppDisplay(s) /\ Rows[i].placeholder = IsPlaceholder(s)
  BY DEF Rows, Row

\* Every session was allowed, denied or dropped.
LEMMA ThreeVerdicts ==
  ASSUME IInv
  PROVE  Len(flows.sessions) = Cardinality(Judgements(flows, "Allow"))
           + Cardinality(Judgements(flows, "Deny")) + Cardinality(Judgements(flows, "Drop"))
<1> DEFINE J(v) == Judgements(flows, v)
<1>1. \A v : J(v) \in SUBSET DOMAIN flows.sessions
  BY DEF Judgements
<1>2. TableOK(flows)
  BY DEF IInv
<1>3. \A v : IsFiniteSet(J(v)) /\ Cardinality(J(v)) \in Nat
  <2>1. ASSUME NEW v PROVE IsFiniteSet(J(v))
    <3> HIDE DEF J
    <3> QED
      BY <1>1, <1>2, PositionsFinite
  <2> HIDE DEF J
  <2> QED
    BY <2>1, FS_CardinalityType
<1>4. DOMAIN flows.sessions = (J("Allow") \cup J("Deny")) \cup J("Drop")
  <2>1. \A i \in DOMAIN flows.sessions : flows.sessions[i].verdict \in {"Allow", "Deny", "Drop"}
    BY <1>2, SessionAt DEF Session, Verdict
  <2> QED
    BY <1>1, <2>1 DEF Judgements
<1>5. J("Allow") \cap J("Deny") = {} /\ (J("Allow") \cup J("Deny")) \cap J("Drop") = {}
  BY DEF Judgements
<1>6. Cardinality(DOMAIN flows.sessions) = Len(flows.sessions)
  <2>1. DOMAIN flows.sessions = 1 .. Len(flows.sessions) /\ Len(flows.sessions) \in Nat
    BY <1>2 DEF TableOK
  <2> QED
    BY <2>1, FS_Interval
<1> DEFINE A == J("Allow")
           B == J("Deny")
           C == J("Drop")
           D == A \cup B
<1>7. /\ IsFiniteSet(A) /\ IsFiniteSet(B) /\ IsFiniteSet(C)
      /\ Cardinality(A) \in Nat /\ Cardinality(B) \in Nat /\ Cardinality(C) \in Nat
  BY <1>3
<1>8. A \cap B = {} /\ D \cap C = {} /\ DOMAIN flows.sessions = D \cup C
  BY <1>4, <1>5
<1> HIDE DEF J, A, B, C
<1>9. Cardinality({}) = 0
  BY FS_EmptySet
<1>10. IsFiniteSet(D) /\ Cardinality(D) = Cardinality(A) + Cardinality(B)
  <2>1. IsFiniteSet(D) /\ Cardinality(D) = Cardinality(A) + Cardinality(B) - Cardinality(A \cap B)
    BY <1>7, FS_Union
  <2>2. Cardinality(A \cap B) = 0
    BY <1>8, <1>9, Zenon
  <2> QED
    BY <1>7, <2>1, <2>2
<1> HIDE DEF D
<1>11. Cardinality(D \cup C) = Cardinality(D) + Cardinality(C)
  <2>1. Cardinality(D \cup C) = Cardinality(D) + Cardinality(C) - Cardinality(D \cap C)
    BY <1>7, <1>10, FS_Union
  <2>2. Cardinality(D \cap C) = 0
    BY <1>8, <1>9, Zenon
  <2> QED
    BY <1>7, <1>10, <2>1, <2>2
<1> QED
  BY <1>6, <1>8, <1>10, <1>11 DEF J, A, B, C

LEMMA TotalsOfLedger == IInv => TotalsAddUp
<1> SUFFICES ASSUME IInv PROVE TotalsAddUp
  OBVIOUS
<1> DEFINE acted(v) == {i \in All : Rows[i].action = v}
<1>1. \A v : acted(v) = Judgements(flows, v)
  BY RowFields DEF Judgements, All
<1>2. /\ {i \in All : Rows[i].app_id_shift} = Shifted(flows)
      /\ Cards = Shifted(flows)
  BY RowFields DEF Shifted, Cards, All
<1>3. /\ counters.allowed = Cardinality(Judgements(flows, "Allow"))
      /\ counters.denied = Cardinality(Judgements(flows, "Deny"))
      /\ counters.dropped = Cardinality(Judgements(flows, "Drop"))
      /\ counters.app_shifts = Cardinality(Shifted(flows))
      /\ counters.sessions_created = Len(flows.sessions)
      /\ counters.sessions_created = counters.sessions_retired + Cardinality(DOMAIN flows.by_key)
  <2>1. /\ VerdictCounter("Allow") = "allowed"
        /\ VerdictCounter("Deny") = "denied"
        /\ VerdictCounter("Drop") = "dropped"
    BY DEF VerdictCounter
  <2> QED
    BY <2>1 DEF IInv, Ledger, Verdict
<1>4. /\ Tiles.sessions = counters.sessions_created /\ Tiles.allowed = counters.allowed
      /\ Tiles.refused = counters.denied + counters.dropped /\ Tiles.shifts = counters.app_shifts
      /\ Stats.active = Cardinality(DOMAIN flows.by_key)
      /\ Stats.retired = counters.sessions_retired
      /\ Stats.allow = counters.allowed
      /\ Stats.deny = counters.denied /\ Stats.drop = counters.dropped
  BY DEF Tiles, Stats
<1>5. /\ counters.allowed \in Nat /\ counters.denied \in Nat /\ counters.dropped \in Nat
      /\ counters.sessions_retired \in Nat /\ Cardinality(DOMAIN flows.by_key) \in Nat
  BY FS_CardinalityType DEF IInv, TableOK, Ledger, Counter
<1>6. counters.sessions_created = counters.allowed + (counters.denied + counters.dropped)
  BY <1>3, <1>5, ThreeVerdicts
<1>7. counters.sessions_created = Cardinality(DOMAIN flows.by_key) + counters.sessions_retired
  BY <1>3, <1>5
<1> HIDE DEF acted
<1>8. /\ counters.allowed = Cardinality(acted("Allow"))
      /\ counters.denied = Cardinality(acted("Deny"))
      /\ counters.dropped = Cardinality(acted("Drop"))
  BY <1>1, <1>3
<1> QED
  BY <1>2, <1>3, <1>4, <1>6, <1>7, <1>8 DEF TotalsAddUp, acted

LEMMA RowsOfGood == IInv /\ (~ClockStepsBack => Timed(flows, last_ts) /\ last_ts < TimeWrap)
                      => RowsAreConsistent
<1> SUFFICES ASSUME IInv, ~ClockStepsBack => Timed(flows, last_ts) /\ last_ts < TimeWrap,
                    NEW i \in All
             PROVE  LET row == Rows[i]
                        s   == flows.sessions[i]
                    IN  /\ \A rule \in row.rule : rule.action = row.action
                        /\ row.rule = {} => row.action = "Deny"
                        /\ row.placeholder <=> row.app \in {"incomplete", "insufficient-data"}
                        /\ row.placeholder <=> s.l7_bytes_seen = 0
                        /\ row.app = "incomplete" => row.state \in {"New", "SynSeen", "SynAckSeen"}
                        /\ ~ClockStepsBack => \A shown \in Detail(i) : shown.duration <= last_ts
  BY DEF RowsAreConsistent
<1> DEFINE row == Rows[i]
           s   == flows.sessions[i]
<1>1. /\ row.action = s.verdict /\ row.rule = RuleAt(s.matched_rule) /\ row.state = s.state
      /\ row.app = AppDisplay(s) /\ row.placeholder = IsPlaceholder(s)
  BY RowFields
<1>2. SessionInv(s) /\ s \in Session
  BY DEF IInv, AllGood, All, SessionInv
<1>3. ~ClockStepsBack => /\ s.first_seen <= s.last_seen /\ s.last_seen <= last_ts
                         /\ last_ts < TimeWrap
  BY DEF Timed, All
<1>4. \A shown \in Detail(i) : shown.duration = Duration(s)
  BY DEF Detail
<1> HIDE DEF row, s
<1>5. (\A rule \in row.rule : rule.action = row.action) /\ (row.rule = {} => row.action = "Deny")
  <2>1. \/ s.matched_rule \in DOMAIN Rules /\ s.verdict = Rules[s.matched_rule].action
        \/ s.matched_rule = kDefaultDeny /\ s.verdict = "Deny"
    <3> DEFINE d == Evaluate(s.from_zone, s.to_zone, s.proto, s.resp.port,
                             IF s.app_latched THEN s.app ELSE NoApp)
    <3>1. [rule |-> s.matched_rule, verdict |-> s.verdict] = d
      BY <1>2 DEF SessionInv, Decided
    <3>2. \/ d.rule \in DOMAIN Rules /\ d.verdict = Rules[d.rule].action
          \/ d.rule = kDefaultDeny /\ d.verdict = "Deny"
      BY EvaluateNames
    <3> HIDE DEF d
    <3>3. s.matched_rule = d.rule /\ s.verdict = d.verdict
      BY <3>1
    <3> QED
      BY <3>2, <3>3
  <2>2. kDefaultDeny \notin DOMAIN Rules
    BY PolicyAssumption DEF kDefaultDeny
  <2> QED
    BY <1>1, <2>1, <2>2 DEF RuleAt
<1>6. s.app_latched <=> s.l7_bytes_seen > 0
  BY <1>2 DEF SessionInv, Latch
<1>7. /\ row.placeholder <=> ~s.app_latched
      /\ s.app_latched => row.app \notin {"incomplete", "insufficient-data"}
      /\ ~s.app_latched => row.app \in {"incomplete", "insufficient-data"}
      /\ row.app = "incomplete" => row.state \in {"New", "SynSeen", "SynAckSeen"}
  <2>1. row.placeholder <=> ~s.app_latched
    BY <1>1, Zenon DEF IsPlaceholder
  <2>2. s.app \notin {"incomplete", "insufficient-data"} /\ s.app_latched \in BOOLEAN
    BY <1>2 DEF Session, App, NoApp
  <2>3. CASE s.app_latched
    BY <1>1, <2>1, <2>2, <2>3 DEF AppDisplay
  <2>4. CASE ~s.app_latched
    BY <1>1, <2>1, <2>4 DEF AppDisplay
  <2> QED
    BY <2>1, <2>3, <2>4
<1>8. s.l7_bytes_seen \in Nat
  BY <1>2 DEF Session
<1>9. ~ClockStepsBack => Duration(s) <= last_ts
  <2> SUFFICES ASSUME ~ClockStepsBack PROVE Duration(s) <= last_ts
    OBVIOUS
  <2>1. s.first_seen \in Nat /\ s.last_seen \in Nat /\ last_ts \in Nat /\ TimeWrap \in Nat \ {0}
    BY <1>2, ReportAssumption DEF Session, IInv
  <2>2. /\ s.last_seen - s.first_seen \in Nat /\ s.last_seen - s.first_seen <= last_ts
        /\ s.last_seen - s.first_seen < TimeWrap
    BY <1>3, <2>1
  <2>3. Duration(s) = s.last_seen - s.first_seen
    BY <2>1, <2>2, NoWrap DEF Duration
  <2> QED
    BY <2>2, <2>3
<1>10. /\ row.placeholder <=> row.app \in {"incomplete", "insufficient-data"}
       /\ row.placeholder <=> s.l7_bytes_seen = 0
  BY <1>6, <1>7, <1>8
<1> QED
  BY <1>4, <1>5, <1>7, <1>9, <1>10 DEF row, s

\* The parts of what is shown agree, and no session is shown to last longer than the
\* capture unless the clock stepped back (cli.cpp:116-126, report.cpp:186-227).
THEOREM ShownAgrees == Spec => []ReportAgrees
<1> DEFINE I == /\ IInv
                /\ ~ClockStepsBack => Timed(flows, last_ts) /\ last_ts < TimeWrap
<1>1. Init => I
  BY InitIInv, ReportAssumption DEF Init, EmptyTable, Timed
<1>2. I /\ [Next]_vars => I'
  <2> SUFFICES ASSUME I, [Next]_vars PROVE I'
    OBVIOUS
  <2>1. IInv'
    BY NextIInv
  <2>2. ~ClockStepsBack => Timed(flows', last_ts')
    BY StepTimed
  <2>3. ~ClockStepsBack => last_ts' < TimeWrap
    <3>1. last_ts' \in Times \/ last_ts' = last_ts
      BY DEF Next, StopFrame, RefuseOutOfState, OpenSession, ContinueSession, Reading, Finish, vars
    <3>2. \A ts \in Times : ts < TimeWrap
      BY ReportAssumption
    <3> QED
      BY <3>1, <3>2
  <2> QED
    BY <2>1, <2>2, <2>3 
<1>3. I => ReportAgrees
  BY TotalsOfLedger, RowsOfGood DEF ReportAgrees
<1> QED
  BY <1>1, <1>2, <1>3, PTL DEF Spec
=============================================================================
