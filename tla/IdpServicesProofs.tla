-------------------------- MODULE IdpServicesProofs --------------------------
(***************************************************************************)
(* Proofs about the services an identity provider runs beside its endpoints: *)
(* the assertion store and its queries, artifact resolution, targeted        *)
(* identifiers, the example's forms and sessions, and the release of          *)
(* attributes.  Each is proved of its own specification; MCIdpServices runs   *)
(* them side by side.                                                        *)
(***************************************************************************)
EXTENDS AssertionStore, ArtifactResolution, Eptid, ExampleIdp, ReleasePolicy,
        FiniteSetTheorems, SequenceTheorems, TLAPS

-----------------------------------------------------------------------------

\* A sequence with one more element.
LEMMA OneMore ==
  ASSUME NEW S, NEW s \in Seq(S), NEW e \in S, NEW t, t = Append(s, e)
  PROVE  /\ t \in Seq(S) /\ Len(t) = Len(s) + 1 /\ t[Len(s) + 1] = e
         /\ Len(s) + 1 \in DOMAIN t /\ Len(s) + 1 \notin DOMAIN s
         /\ \A n \in DOMAIN s : n \in DOMAIN t /\ t[n] = s[n]
         /\ \A n \in DOMAIN t : n \in DOMAIN s \/ n = Len(s) + 1
  <1>1. Len(s) \in Nat /\ DOMAIN s = 1..Len(s)
    OBVIOUS
  <1>2. t \in Seq(S) /\ Len(t) = Len(s) + 1 /\ DOMAIN t = 1..(Len(s) + 1)
    OBVIOUS
  <1>3. t[Len(s) + 1] = e /\ \A k \in 1..Len(s) : t[k] = s[k]
    OBVIOUS
  <1>4. QED
    BY <1>1, <1>2, <1>3

LEMMA ElementOf ==
  ASSUME NEW S, NEW s \in Seq(S)
  PROVE  /\ \A k \in DOMAIN s : s[k] \in S /\ k \in Nat \ {0}
         /\ Len(s) \in Nat
  OBVIOUS

-----------------------------------------------------------------------------
(* The assertion store, for any assertions, time and queries.               *)

StoreInv == StoreTypeOK /\ IndexIsExact

\* The index without an assertion is the exact index of the others, whether or
\* not anything was stored under its ID and whether or not it has a subject.
LEMMA IndexWithoutIsExact ==
  ASSUME IndexIsExact, NEW id
  PROVE  /\ DOMAIN IndexWithout(id) =
              {byId[i].subject : i \in DOMAIN byId \ {id}} \ {Absent}
         /\ \A s \in DOMAIN IndexWithout(id) :
              IndexWithout(id)[s] = {i \in DOMAIN byId \ {id} : byId[i].subject = s}
  <1>1. CASE id \notin DOMAIN byId
    <2>1. IndexWithout(id) = bySubject /\ DOMAIN byId \ {id} = DOMAIN byId
      BY <1>1 DEF IndexWithout
    <2>2. QED
      BY <2>1 DEF IndexIsExact
  <1>2. CASE id \in DOMAIN byId
    <2> DEFINE s == byId[id].subject
               left == Entry(bySubject, s) \ {id}
               others == DOMAIN byId \ {id}
    <2>1. /\ DOMAIN IndexWithout(id) =
               IF left = {} THEN DOMAIN bySubject \ {s} ELSE DOMAIN bySubject
          /\ \A t \in DOMAIN IndexWithout(id) :
               IndexWithout(id)[t] = IF t = s THEN left ELSE bySubject[t]
      BY <1>2 DEF IndexWithout, Unindexed
    <2>2. s # Absent => left = {i \in others : byId[i].subject = s}
      BY <1>2 DEF IndexIsExact, Entry
    <2>3. s = Absent => s \notin DOMAIN bySubject
      BY DEF IndexIsExact
    <2>4. \A t \in DOMAIN bySubject \ {s} :
            bySubject[t] = {i \in others : byId[i].subject = t}
      BY DEF IndexIsExact
    <2>5. DOMAIN bySubject \ {s} = {byId[i].subject : i \in others} \ {Absent, s}
      BY <1>2 DEF IndexIsExact
    <2>6. s \in DOMAIN IndexWithout(id)
            <=> s # Absent /\ s \in {byId[i].subject : i \in others}
      <3>1. CASE s = Absent
        BY <2>1, <2>3, <3>1
      <3>2. CASE s # Absent
        <4>1. s \in DOMAIN bySubject
          BY <1>2, <3>2 DEF IndexIsExact
        <4>2. left = {} <=> s \notin {byId[i].subject : i \in others}
          BY <2>2, <3>2
        <4>3. QED
          BY <2>1, <3>2, <4>1, <4>2
      <3>3. QED
        BY <3>1, <3>2
    <2>7. DOMAIN IndexWithout(id) = {byId[i].subject : i \in others} \ {Absent}
      <3>1. DOMAIN IndexWithout(id) \ {s} = DOMAIN bySubject \ {s}
        BY <2>1
      <3>2. QED
        BY <2>5, <2>6, <3>1
    <2>8. ASSUME NEW t \in DOMAIN IndexWithout(id)
          PROVE  IndexWithout(id)[t] = {i \in others : byId[i].subject = t}
      <3>1. CASE t = s
        BY <2>1, <2>2, <2>6, <3>1
      <3>2. CASE t # s
        BY <2>1, <2>4, <3>2
      <3>3. QED
        BY <3>1, <3>2
    <2>9. QED
      BY <2>7, <2>8
  <1>3. QED
    BY <1>1, <1>2

\* Storing under an ID that is taken moves it to its new subject.
LEMMA StoringKeepsIndex ==
  ASSUME StoreInv, NEW a \in Assertions, StoreAssertion(a)
  PROVE  StoreInv'
  <1> DEFINE rest == IndexWithout(a.id)
             others == DOMAIN byId \ {a.id}
  <1>1. /\ DOMAIN rest = {byId[i].subject : i \in others} \ {Absent}
        /\ \A s \in DOMAIN rest : rest[s] = {i \in others : byId[i].subject = s}
    BY IndexWithoutIsExact DEF StoreInv
  <1>2. /\ DOMAIN byId' = others \union {a.id}
        /\ byId'[a.id] = a
        /\ \A i \in others : byId'[i] = byId[i]
    BY DEF StoreAssertion
  <1>3. bySubject' = IF a.subject = Absent THEN rest ELSE Indexed(rest, a.subject, a.id)
    BY DEF StoreAssertion
  <1> HIDE DEF rest
  <1>4. IndexIsExact'
    <2>1. CASE a.subject = Absent
      <3>1. {byId'[i].subject : i \in DOMAIN byId'} \ {Absent}
              = {byId[i].subject : i \in others} \ {Absent}
        BY <1>2, <2>1
      <3>2. \A s \in DOMAIN rest :
              {i \in DOMAIN byId' : byId'[i].subject = s} = {i \in others : byId[i].subject = s}
        BY <1>1, <1>2, <2>1
      <3>3. QED
        BY <1>1, <1>3, <2>1, <3>1, <3>2 DEF IndexIsExact
    <2>2. CASE a.subject # Absent
      <3>1. /\ DOMAIN bySubject' = DOMAIN rest \union {a.subject}
            /\ bySubject'[a.subject] = Entry(rest, a.subject) \union {a.id}
            /\ \A s \in DOMAIN rest \ {a.subject} : bySubject'[s] = rest[s]
        BY <1>3, <2>2 DEF Indexed
      <3>2. DOMAIN bySubject' = {byId'[i].subject : i \in DOMAIN byId'} \ {Absent}
        BY <1>1, <1>2, <2>2, <3>1
      <3>3. Entry(rest, a.subject) = {i \in others : byId[i].subject = a.subject}
        BY <1>1, <2>2 DEF Entry
      <3>4. bySubject'[a.subject] = {i \in DOMAIN byId' : byId'[i].subject = a.subject}
        BY <1>2, <3>1, <3>3
      <3>5. ASSUME NEW s \in DOMAIN bySubject', s # a.subject
            PROVE  bySubject'[s] = {i \in DOMAIN byId' : byId'[i].subject = s}
        <4>1. bySubject'[s] = {i \in others : byId[i].subject = s}
          BY <1>1, <3>1, <3>5
        <4>2. QED
          BY <1>2, <3>5, <4>1
      <3>6. QED
        BY <3>2, <3>4, <3>5 DEF IndexIsExact
    <2>3. QED
      BY <2>1, <2>2
  <1>5. StoreTypeOK'
    <2>1. /\ DOMAIN byId' \subseteq AssertionIds
          /\ \A i \in DOMAIN byId' : byId'[i] \in Assertions /\ byId'[i].id = i
      BY <1>2 DEF StoreInv, StoreTypeOK, AssertionIds
    <2>2. DOMAIN bySubject' \subseteq Subjects
      BY <1>4, <2>1 DEF IndexIsExact, Subjects
    <2>3. \A s \in DOMAIN bySubject' : bySubject'[s] \subseteq AssertionIds
      BY <1>4, <2>1 DEF IndexIsExact
    <2>4. QED
      BY <2>1, <2>2, <2>3 DEF StoreTypeOK
  <1>6. QED
    BY <1>4, <1>5 DEF StoreInv

LEMMA RemovingKeepsIndex ==
  ASSUME StoreInv, NEW id \in AssertionIds, RemoveAssertion(id)
  PROVE  StoreInv'
  <1>1. /\ DOMAIN byId' = DOMAIN byId \ {id}
        /\ \A i \in DOMAIN byId' : byId'[i] = byId[i]
        /\ bySubject' = IndexWithout(id)
    BY DEF RemoveAssertion
  <1>2. IndexIsExact'
    <2>1. /\ DOMAIN bySubject' = {byId[i].subject : i \in DOMAIN byId'} \ {Absent}
          /\ \A s \in DOMAIN bySubject' :
               bySubject'[s] = {i \in DOMAIN byId' : byId[i].subject = s}
      <3> DEFINE rest == IndexWithout(id)
                 others == DOMAIN byId \ {id}
      <3>1. /\ DOMAIN rest = {byId[i].subject : i \in others} \ {Absent}
            /\ \A s \in DOMAIN rest : rest[s] = {i \in others : byId[i].subject = s}
        BY IndexWithoutIsExact DEF StoreInv
      <3> HIDE DEF rest
      <3>2. DOMAIN byId' = others /\ bySubject' = rest
        BY <1>1 DEF rest
      <3>3. QED
        BY <3>1, <3>2
    <2>2. QED
      BY <1>1, <2>1 DEF IndexIsExact
  <1>3. StoreTypeOK'
    <2>1. /\ DOMAIN byId' \subseteq AssertionIds
          /\ \A i \in DOMAIN byId' : byId'[i] \in Assertions /\ byId'[i].id = i
      BY <1>1 DEF StoreInv, StoreTypeOK
    <2>2. DOMAIN bySubject' \subseteq Subjects
      BY <1>2, <2>1 DEF IndexIsExact, Subjects
    <2>3. \A s \in DOMAIN bySubject' : bySubject'[s] \subseteq AssertionIds
      BY <1>2, <2>1 DEF IndexIsExact
    <2>4. QED
      BY <2>1, <2>2, <2>3 DEF StoreTypeOK
  <1>4. QED
    BY <1>2, <1>3 DEF StoreInv

LEMMA StoreInvHolds == StoreSpec => []StoreInv
  <1>1. StoreInit => StoreInv
    BY DEF StoreInit, StoreInv, StoreTypeOK, IndexIsExact
  <1>2. StoreInv /\ [StoreNext]_storeVars => StoreInv'
    <2> SUFFICES ASSUME StoreInv, [StoreNext]_storeVars PROVE StoreInv'
      OBVIOUS
    <2>1. CASE UNCHANGED <<byId, bySubject>>
      BY <2>1 DEF StoreInv, StoreTypeOK, IndexIsExact
    <2>2. ASSUME NEW a \in Assertions, StoreAssertion(a) PROVE StoreInv'
      BY <2>2, StoringKeepsIndex
    <2>3. ASSUME NEW id \in AssertionIds, RemoveAssertion(id) PROVE StoreInv'
      BY <2>3, RemovingKeepsIndex
    <2>4. ASSUME NEW q \in Queries, Ask(q) PROVE UNCHANGED <<byId, bySubject>>
      BY <2>4 DEF Ask
    <2>5. ASSUME NEW n \in DOMAIN queries,
                 \/ AnswerAuthnQuery(n) \/ BeginIdAnswer(n) \/ LookUpReference(n)
                 \/ AnswerIdRequest(n) \/ Learn(n)
          PROVE  UNCHANGED <<byId, bySubject>>
      BY <2>5 DEF AnswerAuthnQuery, BeginIdAnswer, LookUpReference, AnswerIdRequest, Learn
    <2>6. CASE PassTime
      BY <2>1, <2>6 DEF PassTime
    <2>7. CASE UNCHANGED storeVars
      BY <2>1, <2>7 DEF storeVars
    <2>8. QED
      BY <2>1, <2>2, <2>3, <2>4, <2>5, <2>6, <2>7 DEF StoreNext
  <1>3. QED
    BY <1>1, <1>2, PTL DEF StoreSpec

\* The list of a subject holds its assertions and no others, whatever is stored,
\* stored again for another subject, or removed.
THEOREM IndexStaysExact == StoreSpec => []IndexIsExact
  <1>1. StoreInv => IndexIsExact
    BY DEF StoreInv
  <1>2. QED
    BY <1>1, StoreInvHolds, PTL

\* What the list S of assertions must be for it to be what r's store had on
\* record for the query q.
OnRecordFor(q, r, S) ==
  IF q.kind = "ids"
  THEN /\ Len(S) = Len(q.refs)
       /\ \A i \in DOMAIN S : S[i] \in r.held /\ S[i].id = q.refs[i]
  ELSE /\ \A a \in {S[i] : i \in DOMAIN S} : a.subject = q.subject
       /\ UNION {a.statements : a \in {S[i] : i \in DOMAIN S}} =
            {t \in UNION {a.statements : a \in
                     {b \in r.held : /\ b.subject = q.subject
                                     /\ (b.from = Absent \/ b.from <= r.at)
                                     /\ b.until # Absent /\ r.at < b.until}} :
               /\ (t.until = Absent \/ r.at < t.until)
               /\ q.session \in {Absent, t.session}
               /\ (q.classes = {} \/ t.class \in q.classes)}

\* Every response there is, and all that was learnt, is about a query that was sent.
ResponsesInv ==
  /\ queries \in Seq(Queries)
  /\ \A r \in responses :
       /\ r.irt \in DOMAIN queries
       /\ r.success => OnRecordFor(queries[r.irt], r, r.assertions)
  /\ \A l \in learnt : \E r \in responses :
       r.irt = l.query /\ r.success /\ r.assertions = l.assertions

\* What an ID request has got so far was stored under the references it asked
\* for since the answer was begun, and all that is on record now was seen.
Answering == [got : Seq(Assertions), seen : SUBSET Assertions]

AnsweringInv ==
  \A n \in DOMAIN answering :
    /\ n \in DOMAIN queries /\ queries[n].kind = "ids"
    /\ answering[n] \in Answering
    /\ OnRecord \subseteq answering[n].seen
    /\ answering[n].got \in Seq(answering[n].seen)
    /\ \A i \in DOMAIN answering[n].got : answering[n].got[i].id = queries[n].refs[i]

\* A response that is on record, or an error, may be sent.
LEMMA RespondingKeeps ==
  ASSUME ResponsesInv, NEW n \in DOMAIN queries, NEW success \in BOOLEAN, NEW S, NEW held,
         Respond(n, success, S, held), UNCHANGED <<queries, learnt>>,
         success => OnRecordFor(queries[n], [irt |-> n, success |-> success, assertions |-> S,
                                             at |-> storeNow, held |-> held], S)
  PROVE  ResponsesInv'
  <1> DEFINE r0 == [irt |-> n, success |-> success, assertions |-> S, at |-> storeNow,
                    held |-> held]
  <1>1. r0.irt = n /\ r0.success = success /\ r0.assertions = S
    OBVIOUS
  <1>2. responses' = responses \union {r0}
    BY DEF Respond
  <1>3. r0.success => OnRecordFor(queries[n], r0, r0.assertions)
    BY <1>1
  <1> HIDE DEF r0
  <1>4. QED
    BY <1>1, <1>2, <1>3 DEF ResponsesInv

\* The answer to an authn query is on record.
LEMMA AuthnAnswerIsOnRecord ==
  ASSUME StoreInv, ResponsesInv, NEW n \in DOMAIN queries, AnswerAuthnQuery(n)
  PROVE  ResponsesInv'
  <1> DEFINE q == queries[n]
             s == q.subject
             held == OnRecord
  <1>1. UNCHANGED <<queries, learnt>>
    BY DEF AnswerAuthnQuery
  <1>2. PICK found \in {AssertionsForSubject(s)} \union {held} :
          IF s = Absent THEN Respond(n, FALSE, << >>, held)
          ELSE /\ Attributable(found, s)
               /\ IF Statements(found, q) = {} THEN Respond(n, FALSE, << >>, held)
                  ELSE Respond(n, TRUE, <<[id |-> Absent, subject |-> s, from |-> Absent,
                                           until |-> Absent,
                                           statements |-> Statements(found, q)]>>, held)
    BY DEF AnswerAuthnQuery
  <1>3. CASE Respond(n, FALSE, << >>, held)
    BY <1>1, <1>3, RespondingKeeps
  <1>4. ASSUME s # Absent, Attributable(found, s),
               Respond(n, TRUE, <<[id |-> Absent, subject |-> s, from |-> Absent,
                                   until |-> Absent,
                                   statements |-> Statements(found, q)]>>, held)
        PROVE  ResponsesInv'
    <2> DEFINE a0 == [id |-> Absent, subject |-> s, from |-> Absent, until |-> Absent,
                      statements |-> Statements(found, q)]
               one == <<a0>>
               r0 == [irt |-> n, success |-> TRUE, assertions |-> one, at |-> storeNow,
                      held |-> held]
    <2>1. found = {b \in held : b.subject = s}
      <3>1. CASE found = held
        BY <1>4, <3>1 DEF Attributable
      <3>2. CASE found = AssertionsForSubject(s)
        <4>1. Entry(bySubject, s) = {id \in DOMAIN byId : byId[id].subject = s}
          BY <1>4 DEF Entry, StoreInv, IndexIsExact
        <4>2. QED
          BY <3>2, <4>1 DEF AssertionsForSubject, OnRecord
      <3>3. QED
        BY <3>1, <3>2
    <2>2. /\ a0.subject = s /\ a0.statements = Statements(found, q)
          /\ r0.held = held /\ r0.at = storeNow
      OBVIOUS
    <2> HIDE DEF a0
    <2>3. {one[i] : i \in DOMAIN one} = {a0}
      OBVIOUS
    <2> HIDE DEF r0, held, one
    <2>4. {b \in found : InForce(b)} =
            {b \in held : /\ b.subject = s
                          /\ (b.from = Absent \/ b.from <= storeNow)
                          /\ b.until # Absent /\ storeNow < b.until}
      BY <2>1 DEF InForce
    <2>5. \A t : Matches(t, q) <=> /\ (t.until = Absent \/ storeNow < t.until)
                                   /\ q.session \in {Absent, t.session}
                                   /\ (q.classes = {} \/ t.class \in q.classes)
      BY DEF Matches
    <2>6. UNION {a.statements : a \in {a0}} = Statements(found, q)
      BY <2>2
    <2>7. OnRecordFor(q, r0, one)
      <3>1. q.kind # "ids" /\ q.subject = s
        BY DEF AnswerAuthnQuery
      <3> HIDE DEF q, s
      <3>2. QED
        BY <2>2, <2>3, <2>4, <2>5, <2>6, <3>1 DEF OnRecordFor, Statements
    <2>8. QED
      BY <1>1, <1>4, <2>7, RespondingKeeps DEF r0, one, a0
  <1>5. QED
    BY <1>2, <1>3, <1>4

\* A store or removal between two lookups takes nothing from what was seen.
LEMMA ChangingKeepsAnswering ==
  ASSUME StoreInv, ResponsesInv, AnsweringInv, NEW a,
         \/ a \in Assertions /\ StoreAssertion(a)
         \/ RemoveAssertion(a)
         \/ UNCHANGED <<byId, queries, answering>>
  PROVE  AnsweringInv'
  <1>1. CASE a \in Assertions /\ StoreAssertion(a)
    <2>1. /\ queries' = queries /\ DOMAIN answering' = DOMAIN answering
          /\ OnRecord' \subseteq OnRecord \union {a}
      BY <1>1 DEF StoreAssertion, OnRecord
    <2>2. ASSUME NEW n \in DOMAIN answering
          PROVE  /\ answering'[n].got = answering[n].got
                 /\ answering'[n].seen = answering[n].seen \union {a}
                 /\ answering'[n] \in Answering
      <3>1. answering[n] \in Answering
        BY DEF AnsweringInv
      <3>2. answering'[n] = [answering[n] EXCEPT !.seen = @ \union {a}]
        BY <1>1 DEF StoreAssertion
      <3>3. QED
        BY <1>1, <3>1, <3>2 DEF Answering
    <2>3. ASSUME NEW n \in DOMAIN answering
          PROVE  answering'[n].got \in Seq(answering'[n].seen)
      <3>1. answering[n].got \in Seq(answering[n].seen)
        BY DEF AnsweringInv
      <3> DEFINE got == answering[n].got
                 seen == answering[n].seen
      <3>2. \A i \in 1..Len(got) : got[i] \in seen \union {a}
        BY <3>1
      <3>3. got \in Seq(seen \union {a})
        BY <3>1, <3>2
      <3>4. QED
        BY <2>2, <3>3
    <2>4. QED
      BY <2>1, <2>2, <2>3 DEF AnsweringInv
  <1>2. CASE RemoveAssertion(a)
    <2>1. UNCHANGED <<queries, answering>> /\ OnRecord' \subseteq OnRecord
      BY <1>2 DEF RemoveAssertion, OnRecord
    <2>2. QED
      BY <2>1 DEF AnsweringInv
  <1>3. CASE UNCHANGED <<byId, queries, answering>>
    BY <1>3 DEF AnsweringInv, OnRecord
  <1>4. QED
    BY <1>1, <1>2, <1>3

\* Each lookup of an ID request gets what is on record under that reference then.
LEMMA IdAnswerIsOnRecord ==
  ASSUME StoreInv, ResponsesInv, AnsweringInv, NEW n \in DOMAIN queries,
         BeginIdAnswer(n) \/ LookUpReference(n) \/ AnswerIdRequest(n)
  PROVE  ResponsesInv' /\ AnsweringInv'
  <1> DEFINE refs == queries[n].refs
             got == answering[n].got
             seen == answering[n].seen
  <1>1. UNCHANGED <<byId, queries, learnt>> /\ OnRecord' = OnRecord
    BY DEF BeginIdAnswer, LookUpReference, AnswerIdRequest, OnRecord
  <1>2. ASSUME EndIdAnswer(n) PROVE AnsweringInv'
    <2>1. /\ DOMAIN answering' = DOMAIN answering \ {n}
          /\ \A m \in DOMAIN answering' : answering'[m] = answering[m]
      BY <1>2 DEF EndIdAnswer
    <2>2. QED
      BY <1>1, <2>1 DEF AnsweringInv
  <1>3. ASSUME UNCHANGED responses PROVE ResponsesInv'
    BY <1>1, <1>3 DEF ResponsesInv
  <1>4. CASE BeginIdAnswer(n)
    <2>1. /\ DOMAIN answering' = DOMAIN answering \union {n}
          /\ answering'[n].got = << >> /\ answering'[n].seen = OnRecord
          /\ \A m \in DOMAIN answering : m # n => answering'[m] = answering[m]
          /\ answering'[n] = [got |-> << >>, seen |-> OnRecord]
          /\ queries[n].kind = "ids" /\ responses' = responses
      BY <1>4 DEF BeginIdAnswer
    <2>2. OnRecord \subseteq Assertions
      BY DEF OnRecord, StoreInv, StoreTypeOK
    <2>3. answering'[n] \in Answering /\ answering'[n].got \in Seq(OnRecord)
      BY <2>1, <2>2 DEF Answering
    <2>4. DOMAIN answering'[n].got = {}
      BY <2>1
    <2>5. AnsweringInv'
      BY <1>1, <2>1, <2>3, <2>4 DEF AnsweringInv
    <2>6. QED
      BY <1>3, <2>1, <2>5
  <1>5. CASE LookUpReference(n)
    <2>1. n \in DOMAIN answering
      BY <1>5 DEF LookUpReference
    <2>2. CASE EndIdAnswer(n) /\ UNCHANGED responses
      BY <1>2, <1>3, <2>2
    <2>3. CASE EndIdAnswer(n) /\ Respond(n, FALSE, << >>, seen)
      BY <1>1, <1>2, <2>3, RespondingKeeps
    <2>4. ASSUME NEW a \in OnRecord, AskedFor(a, refs[Len(got) + 1]), UNCHANGED responses,
                 answering' = [answering EXCEPT ![n].got = Append(@, a)]
          PROVE  AnsweringInv'
      <3> DEFINE more == Append(got, a)
      <3>1. got \in Seq(seen) /\ a \in seen /\ a.id = refs[Len(got) + 1]
        BY <2>1, <2>4 DEF AnsweringInv, AskedFor
      <3>2. /\ DOMAIN answering' = DOMAIN answering
            /\ answering'[n].got = more /\ answering'[n].seen = seen
            /\ \A m \in DOMAIN answering : m # n => answering'[m] = answering[m]
            /\ answering'[n] \in Answering
        <4>1. answering[n] \in Answering
          BY <2>1 DEF AnsweringInv
        <4>2. /\ DOMAIN answering' = DOMAIN answering
              /\ answering'[n] = [answering[n] EXCEPT !.got = more]
              /\ \A m \in DOMAIN answering : m # n => answering'[m] = answering[m]
          BY <2>1, <2>4, <4>1
        <4>3. more \in Seq(Assertions)
          BY <4>1, <2>4 DEF Answering, OnRecord, StoreInv, StoreTypeOK
        <4> HIDE DEF more
        <4>4. QED
          BY <4>1, <4>2, <4>3 DEF Answering
      <3>3. more \in Seq(seen) /\ \A i \in DOMAIN more : more[i].id = refs[i]
        <4> HIDE DEF more
        <4>1. more = Append(got, a)
          BY DEF more
        <4>2. \A i \in DOMAIN got : got[i].id = refs[i]
          BY <2>1 DEF AnsweringInv
        <4> HIDE DEF got, seen, refs
        <4>3. QED
          BY <3>1, <4>1, <4>2, OneMore
      <3> HIDE DEF more
      <3>4. QED
        BY <1>1, <3>2, <3>3 DEF AnsweringInv
    <2>5. \A found \in Lookups(refs[Len(got) + 1]) : \A a \in found : a \in OnRecord
      BY DEF Lookups, OnRecord
    <2>6. QED
      BY <1>3, <1>5, <2>2, <2>3, <2>4, <2>5 DEF LookUpReference
  <1>6. CASE AnswerIdRequest(n)
    <2>1. /\ n \in DOMAIN answering /\ Len(got) = Len(refs)
          /\ Respond(n, TRUE, got, seen) /\ EndIdAnswer(n)
      BY <1>6 DEF AnswerIdRequest
    <2> DEFINE r0 == [irt |-> n, success |-> TRUE, assertions |-> got, at |-> storeNow,
                      held |-> seen]
    <2>2. r0.held = seen
      OBVIOUS
    <2>3. \A i \in DOMAIN got : got[i] \in seen /\ got[i].id = refs[i]
      BY <2>1, ElementOf DEF AnsweringInv
    <2> HIDE DEF r0
    <2>4. OnRecordFor(queries[n], r0, got)
      BY <2>1, <2>2, <2>3 DEF OnRecordFor, AnsweringInv
    <2>5. QED
      BY <1>1, <1>2, <2>1, <2>4, RespondingKeeps DEF r0
  <1>7. QED
    BY <1>4, <1>5, <1>6

RecordInv == ResponsesInv /\ AnsweringInv

LEMMA RecordInvNext == StoreInv /\ RecordInv /\ [StoreNext]_storeVars => RecordInv'
  <1> SUFFICES ASSUME StoreInv, ResponsesInv, AnsweringInv, [StoreNext]_storeVars
               PROVE  ResponsesInv' /\ AnsweringInv'
    BY DEF RecordInv
  <1>1. ASSUME UNCHANGED <<queries, responses, learnt>> PROVE ResponsesInv'
    BY <1>1 DEF ResponsesInv
  <1>2. ASSUME NEW q \in Queries, Ask(q) PROVE ResponsesInv' /\ AnsweringInv'
    <2>1. queries' = Append(queries, q) /\ UNCHANGED <<byId, answering, responses, learnt>>
      BY <1>2 DEF Ask
    <2>2. /\ queries' \in Seq(Queries)
          /\ \A n \in DOMAIN queries : n \in DOMAIN queries' /\ queries'[n] = queries[n]
      BY <2>1, OneMore DEF ResponsesInv
    <2>3. ResponsesInv'
      BY <2>1, <2>2 DEF ResponsesInv
    <2>4. AnsweringInv'
      BY <2>1, <2>2 DEF AnsweringInv, OnRecord
    <2>5. QED
      BY <2>3, <2>4
  <1>3. ASSUME NEW n \in DOMAIN queries, Learn(n) PROVE ResponsesInv' /\ AnsweringInv'
    <2>1. PICK r \in responses :
            /\ Answers(r, n)
            /\ learnt' = learnt \union {[query |-> n, assertions |-> r.assertions]}
      BY <1>3 DEF Learn
    <2> DEFINE l0 == [query |-> n, assertions |-> r.assertions]
    <2>2. r.irt = l0.query /\ r.success /\ r.assertions = l0.assertions
      BY <2>1 DEF Answers
    <2>3. learnt' = learnt \union {l0} /\ UNCHANGED <<byId, queries, answering, responses>>
      BY <1>3, <2>1 DEF Learn
    <2> HIDE DEF l0
    <2>4. ResponsesInv'
      BY <2>2, <2>3 DEF ResponsesInv
    <2>5. QED
      BY <2>3, <2>4, ChangingKeepsAnswering
  <1>4. ASSUME NEW n \in DOMAIN queries, AnswerAuthnQuery(n) PROVE ResponsesInv' /\ AnsweringInv'
    <2>1. UNCHANGED <<byId, queries, answering>>
      BY <1>4 DEF AnswerAuthnQuery
    <2>2. QED
      BY <1>4, <2>1, AuthnAnswerIsOnRecord, ChangingKeepsAnswering
  <1>5. ASSUME NEW a, (a \in Assertions /\ StoreAssertion(a)) \/ RemoveAssertion(a)
        PROVE  ResponsesInv' /\ AnsweringInv'
    <2>1. UNCHANGED <<queries, responses, learnt>>
      BY <1>5 DEF StoreAssertion, RemoveAssertion
    <2>2. QED
      BY <1>1, <1>5, <2>1, ChangingKeepsAnswering
  <1>6. CASE PassTime \/ UNCHANGED storeVars
    <2>1. UNCHANGED <<byId, queries, answering, responses, learnt>>
      BY <1>6 DEF PassTime, storeVars
    <2>2. QED
      BY <1>1, <2>1, ChangingKeepsAnswering
  <1>7. QED
    BY <1>2, <1>3, <1>4, <1>5, <1>6, IdAnswerIsOnRecord DEF StoreNext

\* Whoever asks by reference learns, for each reference, what was stored under
\* it while the request was answered, and whoever asks about a subject, the
\* statements in force then: whatever was stored, stored again or removed before,
\* after and between the lookups of one answer, and also from a faulty store.
THEOREM LearntIsOnRecord == StoreSpec => []WhatIsLearntIsOnRecord
  <1>1. StoreInit => RecordInv
    BY DEF StoreInit, RecordInv, ResponsesInv, AnsweringInv
  <1>2. RecordInv => WhatIsLearntIsOnRecord
    <2> SUFFICES ASSUME RecordInv, NEW l \in learnt
                 PROVE  \E r \in responses :
                          r.irt = l.query /\ OnRecordFor(queries[l.query], r, l.assertions)
      BY Zenon DEF WhatIsLearntIsOnRecord, OnRecordFor
    <2>1. QED
      BY Zenon DEF RecordInv, ResponsesInv
  <1>3. QED
    BY <1>1, <1>2, RecordInvNext, StoreInvHolds, PTL DEF StoreSpec

-----------------------------------------------------------------------------
(* Artifact resolution, for any peers, handles and number of resolves,       *)
(* whichever requests and answers are lost or repeated.                      *)

\* Whoever signs a resolve sends it.
SignedBySender == \A n \in DOMAIN resolves : resolves[n].signer \in {resolves[n].by, Nobody}

\* What waits in the store is what was put there.
PendingAsIssued == \A h \in DOMAIN pending : pending[h] = issued[h]

\* Answers are to resolves that were sent; a successful one carries the message
\* of the artifact, to the service provider it was issued for.
AnswersFit ==
  \A a \in answers :
    /\ a.irt \in DOMAIN resolves
    /\ a.success => /\ a.message = resolves[a.irt].artifact.handle
                    /\ a.message \in DOMAIN issued
                    /\ resolves[a.irt].by = issued[a.message]

AnsweredOnce ==
  \A a, b \in answers : a.success /\ b.success /\ a.message = b.message => a = b

GoneIffAnswered ==
  \A h \in DOMAIN issued : h \in DOMAIN pending <=> ~\E a \in answers : a.success /\ a.message = h

ArtifactInv ==
  /\ ArtifactTypeOK
  /\ SignedBySender /\ PendingAsIssued /\ AnswersFit /\ AnsweredOnce /\ GoneIffAnswered

-----------------------------------------------------------------------------

LEMMA StoreKeeps ==
  ASSUME ArtifactInv, NEW h \in Handles, NEW sp \in TrustedSPs, StoreForRecipient(h, sp)
  PROVE  ArtifactInv'
  <1>1. /\ DOMAIN issued' = DOMAIN issued \union {h} /\ issued'[h] = sp
        /\ DOMAIN pending' = DOMAIN pending \union {h} /\ pending'[h] = sp
        /\ \A k \in DOMAIN issued : issued'[k] = issued[k]
        /\ \A k \in DOMAIN pending : k # h /\ pending'[k] = pending[k]
        /\ h \notin DOMAIN issued
    BY DEF StoreForRecipient, ArtifactInv, ArtifactTypeOK
  <1>2. UNCHANGED <<resolves, answers>>
    BY DEF StoreForRecipient
  <1>3. ArtifactTypeOK'
    BY <1>1, <1>2 DEF ArtifactInv, ArtifactTypeOK
  <1>4. SignedBySender' /\ PendingAsIssued'
    BY <1>1, <1>2 DEF ArtifactInv, SignedBySender, PendingAsIssued, ArtifactTypeOK
  <1>5. AnswersFit' /\ AnsweredOnce'
    BY <1>1, <1>2 DEF ArtifactInv, AnswersFit, AnsweredOnce
  <1>6. GoneIffAnswered'
    <2>1. ~\E a \in answers : a.success /\ a.message = h
      BY <1>1 DEF ArtifactInv, AnswersFit
    <2>2. QED
      BY <1>1, <1>2, <2>1 DEF ArtifactInv, GoneIffAnswered
  <1>7. QED
    BY <1>3, <1>4, <1>5, <1>6 DEF ArtifactInv

\* One more resolve, whoever sends it, changes nothing but the list.
LEMMA ResolveSentKeeps ==
  ASSUME ArtifactInv, NEW r \in ArtifactResolve, r.signer \in {r.by, Nobody},
         Len(resolves) < MaxResolves, resolves' = Append(resolves, r),
         UNCHANGED <<pending, issued, answers>>
  PROVE  ArtifactInv'
  <1>1. /\ DOMAIN resolves' = DOMAIN resolves \union {Len(resolves) + 1}
        /\ resolves'[Len(resolves) + 1] = r
        /\ \A n \in DOMAIN resolves : resolves'[n] = resolves[n]
        /\ resolves' \in Seq(ArtifactResolve) /\ Len(resolves') <= MaxResolves
    BY ArtifactConstants DEF ArtifactInv, ArtifactTypeOK
  <1>2. ArtifactTypeOK'
    BY <1>1 DEF ArtifactInv, ArtifactTypeOK
  <1>3. SignedBySender' /\ PendingAsIssued'
    BY <1>1 DEF ArtifactInv, SignedBySender, PendingAsIssued
  <1>4. AnswersFit'
    BY <1>1 DEF ArtifactInv, AnswersFit
  <1>5. AnsweredOnce' /\ GoneIffAnswered'
    BY DEF ArtifactInv, AnsweredOnce, GoneIffAnswered
  <1>6. QED
    BY <1>2, <1>3, <1>4, <1>5 DEF ArtifactInv

\* An answer without a message.
LEMMA RefusalKeeps ==
  ASSUME ArtifactInv, NEW n \in DOMAIN resolves, Answer(n, FALSE, Nobody),
         UNCHANGED <<pending, issued, resolves>>
  PROVE  ArtifactInv'
  <1> DEFINE a == [irt |-> n, success |-> FALSE, message |-> Nobody]
  <1>1. answers' = answers \union {a}
    BY DEF Answer
  <1>2. n \in 1..MaxResolves
    BY ArtifactConstants DEF ArtifactInv, ArtifactTypeOK
  <1>3. ArtifactTypeOK'
    <2>1. a \in ArtifactResponse
      BY <1>2 DEF ArtifactResponse
    <2>2. QED
      BY <1>1, <2>1 DEF ArtifactInv, ArtifactTypeOK
  <1>4. SignedBySender' /\ PendingAsIssued' /\ AnswersFit' /\ AnsweredOnce' /\ GoneIffAnswered'
    BY <1>1 DEF ArtifactInv, SignedBySender, PendingAsIssued, AnswersFit, AnsweredOnce, GoneIffAnswered
  <1>5. QED
    BY <1>3, <1>4 DEF ArtifactInv

\* The message goes out and leaves the store.  Its signature binds the resolve
\* to its sender, and the store binds the message to its recipient.
LEMMA DeliveryKeeps ==
  ASSUME ArtifactInv, NEW n \in DOMAIN resolves,
         Authorized(resolves[n]), ForRequester(resolves[n]),
         Answer(n, TRUE, resolves[n].artifact.handle), Consume(resolves[n].artifact.handle),
         UNCHANGED <<issued, resolves>>
  PROVE  ArtifactInv'
  <1> DEFINE r == resolves[n]
             h == r.artifact.handle
             a == [irt |-> n, success |-> TRUE, message |-> h]
  <1>1. /\ answers' = answers \union {a}
        /\ DOMAIN pending' = DOMAIN pending \ {h}
        /\ \A k \in DOMAIN pending' : pending'[k] = pending[k]
    BY DEF Answer, Consume
  <1>2. n \in 1..MaxResolves /\ r \in ArtifactResolve
    BY ArtifactConstants DEF ArtifactInv, ArtifactTypeOK
  <1>3. h \in DOMAIN pending /\ h \in DOMAIN issued /\ pending[h] = r.issuer
    BY DEF ForRequester, Held, ArtifactInv, ArtifactTypeOK
  <1>4. r.by = issued[h]
    <2>1. r.signer \in {r.by, Nobody} /\ r.signer = r.issuer /\ r.issuer \in TrustedSPs
      BY DEF ArtifactInv, SignedBySender, Authorized
    <2>2. r.issuer # Nobody
      BY <2>1, ArtifactConstants
    <2>3. issued[h] = pending[h]
      BY <1>3 DEF ArtifactInv, PendingAsIssued
    <2>4. QED
      BY <1>3, <2>1, <2>2, <2>3
  <1>5. ~\E b \in answers : b.success /\ b.message = h
    BY <1>3 DEF ArtifactInv, GoneIffAnswered
  <1>6. ArtifactTypeOK'
    <2>1. a \in ArtifactResponse
      <3>1. h \in Handles
        BY <1>3 DEF ArtifactInv, ArtifactTypeOK
      <3>2. QED
        BY <1>2, <3>1 DEF ArtifactResponse
    <2>2. QED
      BY <1>1, <2>1 DEF ArtifactInv, ArtifactTypeOK
  <1>7. SignedBySender' /\ PendingAsIssued'
    BY <1>1 DEF ArtifactInv, SignedBySender, PendingAsIssued
  <1>8. AnswersFit'
    BY <1>1, <1>3, <1>4 DEF ArtifactInv, AnswersFit
  <1>9. AnsweredOnce'
    <2>1. a.success /\ a.message = h
      OBVIOUS
    <2>2. ASSUME NEW b \in answers, b.success PROVE b.message # a.message
      BY <1>5, <2>1, <2>2
    <2>3. ASSUME NEW b \in answers', NEW c \in answers',
                 b.success, c.success, b.message = c.message
          PROVE  b = c
      <3> HIDE DEF a, h, r
      <3>1. CASE b \in answers /\ c \in answers
        BY <2>3, <3>1 DEF ArtifactInv, AnsweredOnce
      <3>2. CASE b = a
        BY <1>1, <2>2, <2>3, <3>2
      <3>3. CASE c = a
        BY <1>1, <2>2, <2>3, <3>3
      <3>4. QED
        BY <1>1, <3>1, <3>2, <3>3
    <2>4. QED
      <3> HIDE DEF a, h, r
      <3>1. QED
        BY <2>3 DEF AnsweredOnce
  <1>10. GoneIffAnswered'
    <2>1. a.success /\ a.message = h
      OBVIOUS
    <2> HIDE DEF a, h, r
    <2>2. ASSUME NEW k \in DOMAIN issued
          PROVE  k \in DOMAIN pending' <=> ~\E b \in answers' : b.success /\ b.message = k
      <3>1. CASE k = h
        BY <1>1, <2>1, <3>1
      <3>2. CASE k # h
        BY <1>1, <2>1, <3>2 DEF ArtifactInv, GoneIffAnswered
      <3>3. QED
        BY <3>1, <3>2
    <2>3. QED
      BY <2>2 DEF GoneIffAnswered
  <1>11. QED
    BY <1>6, <1>7, <1>8, <1>9, <1>10 DEF ArtifactInv

LEMMA InvInductive ==
  ASSUME ArtifactInv, [ArtifactNext]_artifactVars
  PROVE  ArtifactInv'
  <1>1. ASSUME NEW h \in Handles, NEW sp \in TrustedSPs, StoreForRecipient(h, sp)
        PROVE  ArtifactInv'
    BY <1>1, StoreKeeps
  <1>2. ASSUME NEW sp \in TrustedSPs, NEW artifact \in Artifact, RequestArtifact(sp, artifact)
        PROVE  ArtifactInv'
    <2> DEFINE r == [by |-> sp, issuer |-> sp, signer |-> sp, covers |-> TRUE, artifact |-> artifact]
    <2>1. r \in ArtifactResolve /\ r.signer \in {r.by, Nobody}
      BY ArtifactConstants DEF ArtifactResolve
    <2>2. QED
      BY <1>2, <2>1, ResolveSentKeeps DEF RequestArtifact
  <1>3. ASSUME NEW by \in Peers, NEW issuer \in Peers \union {Nobody},
               NEW signer \in Peers \union {Nobody}, NEW covers \in BOOLEAN,
               NEW artifact \in Artifact, ClaimArtifact(by, issuer, signer, covers, artifact)
        PROVE  ArtifactInv'
    <2> DEFINE r == [by |-> by, issuer |-> issuer, signer |-> signer, covers |-> covers,
                     artifact |-> artifact]
    <2>1. r \in ArtifactResolve /\ r.signer \in {r.by, Nobody}
      BY <1>3 DEF ArtifactResolve, ClaimArtifact
    <2>2. QED
      BY <1>3, <2>1, ResolveSentKeeps DEF ClaimArtifact
  <1>4. ASSUME NEW n \in DOMAIN resolves, ResolveArtifact(n)
        PROVE  ArtifactInv'
    BY <1>4, DeliveryKeeps, RefusalKeeps DEF ResolveArtifact
  <1>5. ASSUME NEW n \in DOMAIN resolves, StoreRefuses(n)
        PROVE  ArtifactInv'
    BY <1>5, RefusalKeeps DEF StoreRefuses
  <1>6. CASE UNCHANGED artifactVars
    BY <1>6 DEF artifactVars, ArtifactInv, ArtifactTypeOK, SignedBySender, PendingAsIssued, AnswersFit,
         AnsweredOnce, GoneIffAnswered
  <1>7. QED
    BY <1>1, <1>2, <1>3, <1>4, <1>5, <1>6 DEF ArtifactNext

\* A message leaves the store once, to the service provider it is for, in an
\* answer to a resolve of its own, and nothing else takes it out: idp_artifact_resolve
\* over a store that keeps the contract of resolve_and_consume_for_requester.
THEOREM MessagesGoOnce == ArtifactSpec => []ArtifactsGoOnce
  <1>1. ArtifactInit => ArtifactInv
    BY ArtifactConstants DEF ArtifactInit, ArtifactInv, ArtifactTypeOK, SignedBySender, PendingAsIssued,
         AnswersFit, AnsweredOnce, GoneIffAnswered
  <1>2. ArtifactInv /\ [ArtifactNext]_artifactVars => ArtifactInv'
    BY InvInductive
  <1>3. ArtifactInv => ArtifactsGoOnce
    BY DEF ArtifactInv, AnswersFit, AnsweredOnce, GoneIffAnswered, ArtifactsGoOnce, AcceptedFor
  <1>4. QED
    BY <1>1, <1>2, <1>3, PTL DEF ArtifactSpec

-----------------------------------------------------------------------------
(* The example's forms and sessions, for any requests, users, browsers and   *)
(* threads, and tables of any size.                                         *)

IdpClasses == {Unspecified, Password, ProtectedTransport}
AskedForm == [request : LoginRequests, at : Nat]
LoginSession == [user : Users, at : Nat, class : IdpClasses]
Answered == [form : Nat, request : LoginRequests, session : Nat,
             denial : {"none", "NoPassive", "NoAuthnContext"}, at : Nat]

IdpTyped ==
  /\ now \in Nat
  /\ asked \in Seq(AskedForm) /\ sessions \in Seq(LoginSession) /\ sent \in Seq(Answered)
  /\ submitted \in [LoginThreads -> SUBSET [form : Nat, user : Users]]
  /\ cookie \in [Browsers -> Nat]
  /\ \A b \in Browsers : cookie[b] # 0 => cookie[b] \in DOMAIN sessions

\* Forms wait as they were shown, each for a request that some method can answer.
TableInv ==
  /\ DOMAIN forms \subseteq DOMAIN asked
  /\ \A f \in DOMAIN forms : forms[f] = asked[f]
  /\ IsFiniteSet(DOMAIN forms) /\ Cardinality(DOMAIN forms) <= FormSlots
  /\ \A f \in DOMAIN asked :
       asked[f].at <= now /\ Pick(IdpBroker, asked[f].request.context) # {}

\* What is answered waits no longer.
AnsweredInv ==
  \A i \in DOMAIN sent : sent[i].form # 0 => sent[i].form \in DOMAIN asked \ DOMAIN forms

\* The answer e, given from the sessions ss to the forms shown as.
AsAsked(e, ss, as) ==
  LET s == ss[e.session]
      c == e.request.context
  IN /\ e.request.force => e.form # 0 /\ s.at >= as[e.form].at
     /\ e.at < s.at + SessionLife \/ s.at = e.at
     /\ c # NoContext =>
          s.class \in {IdpBroker.methods[k].class : k \in Pick(IdpBroker, c)} \union
                      (IF c.comparison = "exact" THEN c.refs ELSE {})

SessionsInv ==
  \A i \in DOMAIN sent : sent[i].session # 0 =>
    sent[i].session \in DOMAIN sessions /\ AsAsked(sent[i], sessions, asked)

IdpInv == IdpTyped /\ TableInv /\ AnsweredInv /\ FormsAnswerOnce /\ SessionsInv

LEMMA AskedIsTyped ==
  ASSUME IdpTyped
  PROVE  \A f \in DOMAIN asked : asked[f].request \in LoginRequests /\ asked[f].at \in Nat
  <1>1. \A f \in DOMAIN asked : asked[f] \in AskedForm
    BY ElementOf DEF IdpTyped
  <1>2. QED
    BY <1>1 DEF AskedForm

\* Forms that are dropped are expired, and the table does not grow.
LEMMA PurgedKeeps ==
  ASSUME TableInv, IdpTyped
  PROVE  /\ LiveForms \subseteq DOMAIN forms /\ IsFiniteSet(LiveForms)
         /\ Cardinality(LiveForms) <= Cardinality(DOMAIN forms)
         /\ Cardinality(LiveForms) \in Nat /\ Cardinality(LiveForms) <= FormSlots
         /\ \A f \in DOMAIN forms \ LiveForms : now > asked[f].at + FormTtl
         /\ \A f \in LiveForms : forms[f] = asked[f] /\ now <= asked[f].at + FormTtl
  <1>1. LiveForms \subseteq DOMAIN forms /\ IsFiniteSet(DOMAIN forms)
    BY DEF LiveForms, TableInv
  <1>2. /\ IsFiniteSet(LiveForms) /\ Cardinality(LiveForms) <= Cardinality(DOMAIN forms)
        /\ Cardinality(LiveForms) \in Nat /\ Cardinality(DOMAIN forms) \in Nat
    BY <1>1, FS_Subset, FS_CardinalityType
  <1>3. Cardinality(LiveForms) <= FormSlots
    BY <1>2, ExampleIdpAssumption DEF TableInv
  <1>4. \A f \in DOMAIN asked : asked[f].at \in Nat
    BY AskedIsTyped
  <1>5. \A f \in DOMAIN forms : forms[f] = asked[f] /\ asked[f].at \in Nat
    BY <1>4 DEF TableInv
  <1>6. /\ \A f \in DOMAIN forms \ LiveForms : now > asked[f].at + FormTtl
        /\ \A f \in LiveForms : forms[f] = asked[f] /\ now <= asked[f].at + FormTtl
    <2>1. now \in Nat /\ FormTtl \in Nat
      BY ExampleIdpAssumption DEF IdpTyped
    <2>2. \A f \in DOMAIN forms : f \in LiveForms <=> now - asked[f].at <= FormTtl
      BY <1>5 DEF LiveForms
    <2>3. \A at \in Nat : now - at <= FormTtl <=> now <= at + FormTtl
      BY <2>1
    <2>4. \A f \in DOMAIN forms : f \in LiveForms <=> now <= asked[f].at + FormTtl
      BY <1>5, <2>2, <2>3
    <2>5. \A at \in Nat : now > at + FormTtl <=> ~(now <= at + FormTtl)
      BY <2>1
    <2>6. QED
      BY <1>1, <1>5, <2>4, <2>5
  <1>7. QED
    BY <1>1, <1>2, <1>3, <1>6

\* Steps that only look at the table.
LEMMA PurgeKeepsIdp ==
  ASSUME IdpInv, forms' = Purged, UNCHANGED <<now, asked, sessions, cookie, sent>>,
         submitted' \in [LoginThreads -> SUBSET [form : Nat, user : Users]]
  PROVE  IdpInv'
  <1>1. IdpTyped'
    BY DEF IdpInv, IdpTyped
  <1>2. DOMAIN forms' = LiveForms /\ \A f \in LiveForms : forms'[f] = forms[f]
    BY DEF Purged
  <1>3. /\ LiveForms \subseteq DOMAIN forms /\ IsFiniteSet(LiveForms)
        /\ Cardinality(LiveForms) <= FormSlots
        /\ \A f \in DOMAIN forms \ LiveForms : now > asked[f].at + FormTtl
    BY PurgedKeeps DEF IdpInv
  <1>4. TableInv'
    BY <1>2, <1>3 DEF IdpInv, TableInv
  <1>5. AnsweredInv'
    BY <1>2, <1>3 DEF IdpInv, AnsweredInv
  <1>6. FormsAnswerOnce'
    BY <1>2, <1>3 DEF IdpInv, FormsAnswerOnce
  <1>7. SessionsInv'
    BY DEF IdpInv, SessionsInv
  <1>8. QED
    BY <1>1, <1>4, <1>5, <1>6, <1>7 DEF IdpInv

LEMMA IdpTickKeeps == ASSUME IdpInv, IdpTick PROVE IdpInv'
  <1>1. now \in Nat /\ now' = now + 1 /\ \A f \in DOMAIN asked : asked[f].at \in Nat
    BY AskedIsTyped DEF IdpInv, IdpTyped, IdpTick
  <1>2. IdpTyped'
    BY <1>1 DEF IdpInv, IdpTyped, IdpTick
  <1>3. TableInv'
    BY <1>1 DEF IdpInv, TableInv, IdpTick
  <1>4. FormsAnswerOnce'
    BY <1>1, ExampleIdpAssumption DEF IdpInv, FormsAnswerOnce, IdpTick
  <1>5. QED
    BY <1>2, <1>3, <1>4 DEF IdpInv, AnsweredInv, SessionsInv, IdpTick

\* An answer that rests on an older session, or on none.
LEMMA AtOnceKeeps ==
  ASSUME IdpInv, NEW e \in Answered, e.form = 0, sent' = Append(sent, e),
         e.session # 0 => e.session \in DOMAIN sessions /\ AsAsked(e, sessions, asked),
         UNCHANGED <<now, forms, asked, submitted, sessions, cookie>>
  PROVE  IdpInv'
  <1> DEFINE n == Len(sent) + 1
  <1>1. /\ sent' \in Seq(Answered) /\ sent'[n] = e /\ n \in DOMAIN sent' /\ n \notin DOMAIN sent
        /\ \A i \in DOMAIN sent : i \in DOMAIN sent' /\ sent'[i] = sent[i]
        /\ \A i \in DOMAIN sent' : i \in DOMAIN sent \/ i = n
    BY OneMore DEF IdpInv, IdpTyped
  <1> HIDE DEF n
  <1>2. IdpTyped'
    BY <1>1 DEF IdpInv, IdpTyped
  <1>3. AnsweredInv'
    BY <1>1 DEF IdpInv, AnsweredInv
  <1>4. FormsAnswerOnce'
    <2>1. /\ \A i, j \in DOMAIN sent' : sent'[i].form = sent'[j].form /\ sent'[i].form # 0 => i = j
          /\ \A i \in DOMAIN sent' : sent'[i].form # 0 =>
               /\ sent'[i].request = asked[sent'[i].form].request
               /\ sent'[i].at <= asked[sent'[i].form].at + FormTtl
      BY <1>1 DEF IdpInv, FormsAnswerOnce
    <2>2. \A f \in DOMAIN asked :
            \/ f \in DOMAIN forms
            \/ now > asked[f].at + FormTtl
            \/ \E i \in DOMAIN sent' : sent'[i].form = f
      BY <1>1 DEF IdpInv, FormsAnswerOnce
    <2>3. QED
      BY <2>1, <2>2 DEF IdpInv, FormsAnswerOnce
  <1>5. SessionsInv'
    BY <1>1 DEF IdpInv, SessionsInv
  <1>6. QED
    BY <1>2, <1>3, <1>4, <1>5 DEF IdpInv, TableInv

\* A new form takes a slot that is left.
LEMMA ShowKeeps ==
  ASSUME IdpInv, NEW r \in LoginRequests, Pick(IdpBroker, r.context) # {},
         SlotLeft, StorePending(Len(asked) + 1, r),
         asked' = Append(asked, [request |-> r, at |-> now]),
         UNCHANGED <<now, submitted, sessions, cookie, sent>>
  PROVE  IdpInv'
  <1> DEFINE f == Len(asked) + 1
             shown == [request |-> r, at |-> now]
  <1>1. shown \in AskedForm /\ now \in Nat
    BY DEF IdpInv, IdpTyped, AskedForm
  <1>2. shown.request = r /\ shown.at = now
    OBVIOUS
  <1> HIDE DEF shown
  <1>3. /\ asked' \in Seq(AskedForm) /\ asked'[f] = shown /\ f \in DOMAIN asked'
        /\ f \notin DOMAIN asked
        /\ \A g \in DOMAIN asked : g \in DOMAIN asked' /\ asked'[g] = asked[g]
        /\ \A g \in DOMAIN asked' : g \in DOMAIN asked \/ g = f
    BY <1>1, OneMore DEF shown, IdpInv, IdpTyped
  <1>4. /\ DOMAIN forms' = LiveForms \union {f} /\ forms'[f] = shown
        /\ \A g \in LiveForms : g # f => forms'[g] = forms[g]
    BY DEF StorePending, shown
  <1> HIDE DEF f
  <1>5. /\ LiveForms \subseteq DOMAIN forms /\ IsFiniteSet(LiveForms)
        /\ Cardinality(LiveForms) \in Nat
        /\ \A g \in DOMAIN forms \ LiveForms : now > asked[g].at + FormTtl
        /\ \A g \in LiveForms : forms[g] = asked[g] /\ now <= asked[g].at + FormTtl
    BY PurgedKeeps DEF IdpInv
  <1>6. LiveForms \subseteq DOMAIN asked /\ DOMAIN forms \subseteq DOMAIN asked
    BY <1>5 DEF IdpInv, TableInv
  <1>7. IsFiniteSet(DOMAIN forms') /\ Cardinality(DOMAIN forms') <= FormSlots
    <2>1. Cardinality(LiveForms \union {f}) = Cardinality(LiveForms) + 1
      BY <1>3, <1>5, <1>6, FS_AddElement
    <2>2. Cardinality(LiveForms) < FormSlots
      BY DEF SlotLeft
    <2>3. IsFiniteSet(LiveForms \union {f})
      BY <1>5, FS_AddElement
    <2>4. Cardinality(LiveForms) + 1 <= FormSlots
      BY <1>5, <2>2, ExampleIdpAssumption
    <2>5. QED
      BY <1>4, <2>1, <2>3, <2>4
  <1>8. IdpTyped'
    BY <1>3 DEF IdpInv, IdpTyped
  <1>9. TableInv'
    <2>1. \A g \in DOMAIN forms' : g \in DOMAIN asked' /\ forms'[g] = asked'[g]
      BY <1>3, <1>4, <1>5, <1>6
    <2>2. ASSUME NEW g \in DOMAIN asked'
          PROVE  asked'[g].at <= now /\ Pick(IdpBroker, asked'[g].request.context) # {}
      <3>1. CASE g = f
        <4>1. asked'[g].at = now /\ asked'[g].request = r
          BY <1>2, <1>3, <3>1
        <4>2. QED
          BY <1>1, <4>1
      <3>2. CASE g # f
        <4>1. g \in DOMAIN asked /\ asked'[g] = asked[g]
          BY <1>3, <3>2
        <4>2. asked[g].at <= now /\ Pick(IdpBroker, asked[g].request.context) # {}
          BY <4>1 DEF IdpInv, TableInv
        <4>3. QED
          BY <4>1, <4>2
      <3>3. QED
        BY <3>1, <3>2
    <2>3. QED
      BY <1>7, <2>1, <2>2 DEF TableInv
  <1>10. AnsweredInv'
    <2>1. \A g \in DOMAIN asked \ DOMAIN forms : g \in DOMAIN asked' \ DOMAIN forms'
      BY <1>3, <1>4, <1>5
    <2>2. QED
      BY <2>1 DEF IdpInv, AnsweredInv
  <1>11. FormsAnswerOnce'
    <2>1. \A i \in DOMAIN sent : sent[i].form # 0 => asked'[sent[i].form] = asked[sent[i].form]
      BY <1>3 DEF IdpInv, AnsweredInv
    <2>2. \A i \in DOMAIN sent : sent[i].form # 0 =>
               /\ sent[i].request = asked'[sent[i].form].request
               /\ sent[i].at <= asked'[sent[i].form].at + FormTtl
      BY <2>1 DEF IdpInv, FormsAnswerOnce
    <2>3. \A g \in DOMAIN asked' :
            \/ g \in DOMAIN forms'
            \/ now > asked'[g].at + FormTtl
            \/ \E i \in DOMAIN sent : sent[i].form = g
      <3> SUFFICES ASSUME NEW g \in DOMAIN asked', g # f, g \notin LiveForms
                   PROVE  \/ now > asked'[g].at + FormTtl
                          \/ \E i \in DOMAIN sent : sent[i].form = g
        BY <1>4
      <3>1. g \in DOMAIN asked /\ asked'[g] = asked[g]
        BY <1>3
      <3>2. CASE g \in DOMAIN forms
        BY <1>5, <3>1, <3>2
      <3>3. CASE g \notin DOMAIN forms
        BY <3>1, <3>3 DEF IdpInv, FormsAnswerOnce
      <3>4. QED
        BY <3>2, <3>3
    <2>4. QED
      BY <1>7, <2>2, <2>3 DEF IdpInv, FormsAnswerOnce
  <1>12. SessionsInv'
    <2>1. \A i \in DOMAIN sent : sent[i].form # 0 => asked'[sent[i].form] = asked[sent[i].form]
      BY <1>3 DEF IdpInv, AnsweredInv
    <2>2. QED
      BY <2>1 DEF IdpInv, SessionsInv, AsAsked
  <1>13. QED
    BY <1>8, <1>9, <1>10, <1>11, <1>12 DEF IdpInv

\* The method chosen is one of those that were offered.
LEMMA SelectedIsOffered ==
  ASSUME NEW r, Pick(IdpBroker, r.context) # {}
  PROVE  /\ \E k \in Pick(IdpBroker, r.context) : Selected(r) = IdpBroker.methods[k].class
         /\ Selected(r) \in IdpClasses
  <1> DEFINE offered == Pick(IdpBroker, r.context)
             level(k) == IdpBroker.methods[k].level
  <1>1. /\ DOMAIN IdpBroker.methods = {1, 2, 3}
        /\ level(1) = 0 /\ level(2) = 1 /\ level(3) = 2
        /\ \A k \in {1, 2, 3} : IdpBroker.methods[k].class \in IdpClasses
    BY DEF IdpBroker, IdpClasses
  <1>2. offered \subseteq DOMAIN IdpBroker.methods
    BY DEF Pick, PickByClass
  <1> HIDE DEF level, offered
  <1>3. \E k \in offered : \A j \in offered : level(j) <= level(k)
    <2>1. CASE 3 \in offered
      BY <1>1, <1>2, <2>1
    <2>2. CASE 3 \notin offered /\ 2 \in offered
      BY <1>1, <1>2, <2>2
    <2>3. CASE 3 \notin offered /\ 2 \notin offered
      BY <1>1, <1>2, <2>3 DEF offered
    <2>4. QED
      BY <2>1, <2>2, <2>3
  <1>4. PICK k \in offered : Selected(r) = IdpBroker.methods[k].class
    BY <1>3 DEF Selected, offered, level
  <1>5. QED
    BY <1>1, <1>2, <1>4 DEF offered

\* One thread takes the form; the login it answers from is new.
LEMMA FinishKeeps ==
  ASSUME IdpInv, NEW t \in LoginThreads, NEW b \in Browsers, FinishLogin(t, b)
  PROVE  IdpInv'
  <1>1. PICK s \in submitted[t] :
          /\ s.form \in LiveForms
          /\ sessions' = Append(sessions, [user |-> s.user, at |-> now,
                                           class |-> Selected(forms[s.form].request)])
          /\ cookie' = [cookie EXCEPT ![b] = Len(sessions) + 1]
          /\ sent' = Append(sent, [form |-> s.form, request |-> forms[s.form].request,
                                   session |-> Len(sessions) + 1, denial |-> "none", at |-> now])
          /\ forms' = TakePending(s.form)
    BY DEF FinishLogin, Send
  <1>2. UNCHANGED <<now, asked>> /\ submitted' = [submitted EXCEPT ![t] = {}]
    BY DEF FinishLogin
  <1> DEFINE f == s.form
             r == forms[f].request
             n == Len(sessions) + 1
             m == Len(sent) + 1
             login == [user |-> s.user, at |-> now, class |-> Selected(r)]
             e == [form |-> f, request |-> r, session |-> n, denial |-> "none", at |-> now]
  <1>3. s.user \in Users /\ now \in Nat /\ n \in Nat \ {0}
    BY ElementOf DEF IdpInv, IdpTyped
  <1>4. /\ LiveForms \subseteq DOMAIN forms /\ IsFiniteSet(LiveForms)
        /\ Cardinality(LiveForms) \in Nat /\ Cardinality(LiveForms) <= FormSlots
        /\ \A g \in DOMAIN forms \ LiveForms : now > asked[g].at + FormTtl
        /\ \A g \in LiveForms : forms[g] = asked[g] /\ now <= asked[g].at + FormTtl
    BY PurgedKeeps DEF IdpInv
  <1>5. f \in DOMAIN forms /\ f \in DOMAIN asked /\ asked[f] = forms[f]
    BY <1>1, <1>4 DEF IdpInv, TableInv
  <1>6. /\ f \in Nat \ {0} /\ r \in LoginRequests /\ r = asked[f].request
        /\ asked[f].at <= now /\ now <= asked[f].at + FormTtl
        /\ Pick(IdpBroker, r.context) # {}
    BY <1>1, <1>4, <1>5, ElementOf, AskedIsTyped DEF IdpInv, IdpTyped, TableInv
  <1>7. PICK k \in Pick(IdpBroker, r.context) : Selected(r) = IdpBroker.methods[k].class
    BY <1>6, SelectedIsOffered
  <1>8. Selected(r) \in IdpClasses
    BY <1>6, SelectedIsOffered
  <1>9. /\ login \in LoginSession /\ login.at = now /\ login.class = Selected(r)
        /\ e \in Answered /\ e.form = f /\ e.request = r /\ e.session = n /\ e.at = now
    BY <1>3, <1>6, <1>8 DEF LoginSession, Answered
  <1>10. sessions' = Append(sessions, login) /\ sent' = Append(sent, e)
    BY <1>1
  <1> HIDE DEF login, e
  <1>11. /\ sessions' \in Seq(LoginSession) /\ sessions'[n] = login /\ n \in DOMAIN sessions'
         /\ \A i \in DOMAIN sessions : i \in DOMAIN sessions' /\ sessions'[i] = sessions[i]
    BY <1>9, <1>10, OneMore DEF IdpInv, IdpTyped
  <1>12. /\ sent' \in Seq(Answered) /\ sent'[m] = e /\ m \in DOMAIN sent' /\ m \notin DOMAIN sent
         /\ \A i \in DOMAIN sent : i \in DOMAIN sent' /\ sent'[i] = sent[i]
         /\ \A i \in DOMAIN sent' : i \in DOMAIN sent \/ i = m
    BY <1>9, <1>10, OneMore DEF IdpInv, IdpTyped
  <1>13. /\ DOMAIN forms' = LiveForms \ {f}
         /\ \A g \in LiveForms \ {f} : forms'[g] = forms[g]
    BY <1>1 DEF TakePending
  <1> HIDE DEF n, m, r, f
  <1>14. IdpTyped'
    <2>1. /\ cookie' \in [Browsers -> Nat]
          /\ \A c \in Browsers : cookie'[c] # 0 => cookie'[c] \in DOMAIN sessions'
      BY <1>1, <1>3, <1>11 DEF IdpInv, IdpTyped, n
    <2>2. QED
      BY <1>2, <1>11, <1>12, <2>1 DEF IdpInv, IdpTyped
  <1>15. IsFiniteSet(DOMAIN forms') /\ Cardinality(DOMAIN forms') <= FormSlots
    <2>1. /\ IsFiniteSet(LiveForms \ {f})
          /\ Cardinality(LiveForms \ {f}) <= Cardinality(LiveForms)
          /\ Cardinality(LiveForms \ {f}) \in Nat
      <3>1. LiveForms \ {f} \subseteq LiveForms
        OBVIOUS
      <3>2. QED
        BY <1>4, <3>1, FS_Subset, FS_CardinalityType
    <2>2. QED
      BY <1>4, <1>13, <2>1, ExampleIdpAssumption
  <1>16. TableInv'
    BY <1>2, <1>4, <1>13, <1>15 DEF IdpInv, TableInv
  <1>17. AnsweredInv'
    BY <1>2, <1>4, <1>5, <1>9, <1>12, <1>13 DEF IdpInv, AnsweredInv
  <1>18. FormsAnswerOnce'
    <2>1. \A i \in DOMAIN sent : sent[i].form # f \/ f = 0
      BY <1>5 DEF IdpInv, AnsweredInv
    <2>2. \A i, j \in DOMAIN sent' : sent'[i].form = sent'[j].form /\ sent'[i].form # 0 => i = j
      BY <1>6, <1>9, <1>12, <2>1 DEF IdpInv, FormsAnswerOnce
    <2>3. \A i \in DOMAIN sent' : sent'[i].form # 0 =>
               /\ sent'[i].request = asked[sent'[i].form].request
               /\ sent'[i].at <= asked[sent'[i].form].at + FormTtl
      BY <1>6, <1>9, <1>12 DEF IdpInv, FormsAnswerOnce
    <2>4. \A g \in DOMAIN asked :
            \/ g \in DOMAIN forms'
            \/ now > asked[g].at + FormTtl
            \/ \E i \in DOMAIN sent' : sent'[i].form = g
      <3> SUFFICES ASSUME NEW g \in DOMAIN asked, g \notin DOMAIN forms'
                   PROVE  \/ now > asked[g].at + FormTtl
                          \/ \E i \in DOMAIN sent' : sent'[i].form = g
        OBVIOUS
      <3>1. CASE g = f
        BY <1>9, <1>12, <3>1
      <3>2. CASE g # f /\ g \in DOMAIN forms
        BY <1>4, <1>13, <3>2
      <3>3. CASE g \notin DOMAIN forms
        BY <1>12, <3>3 DEF IdpInv, FormsAnswerOnce
      <3>4. QED
        BY <3>1, <3>2, <3>3
    <2>5. QED
      BY <1>2, <1>15, <2>2, <2>3, <2>4 DEF FormsAnswerOnce
  <1>19. SessionsInv'
    <2>1. AsAsked(e, sessions', asked)
      BY <1>6, <1>7, <1>9, <1>11 DEF AsAsked
    <2>2. ASSUME NEW i \in DOMAIN sent', sent'[i].session # 0
          PROVE  /\ sent'[i].session \in DOMAIN sessions'
                 /\ AsAsked(sent'[i], sessions', asked)
      <3>1. CASE i = m
        BY <1>9, <1>11, <1>12, <2>1, <3>1
      <3>2. CASE i \in DOMAIN sent
        BY <1>11, <1>12, <2>2, <3>2 DEF IdpInv, SessionsInv, AsAsked
      <3>3. QED
        BY <1>12, <3>1, <3>2
    <2>3. QED
      BY <1>2, <2>2 DEF SessionsInv
  <1>20. QED
    BY <1>14, <1>16, <1>17, <1>18, <1>19 DEF IdpInv

LEMMA IdpStepKeeps == IdpInv /\ [IdpNext]_idpVars => IdpInv'
  <1> SUFFICES ASSUME IdpInv, [IdpNext]_idpVars PROVE IdpInv'
    OBVIOUS
  <1>1. CASE IdpTick
    BY <1>1, IdpTickKeeps
  <1>2. ASSUME NEW t \in LoginThreads, NEW f \in 1..MaxForms, NEW u \in Users, Submit(t, f, u)
        PROVE  IdpInv'
    <2>1. f \in Nat
      <3>1. f \in DOMAIN asked
        BY <1>2, PurgedKeeps DEF Submit, IdpInv, TableInv
      <3>2. QED
        BY <3>1, ElementOf DEF IdpInv, IdpTyped
    <2>2. submitted' \in [LoginThreads -> SUBSET [form : Nat, user : Users]]
      BY <1>2, <2>1 DEF Submit, IdpInv, IdpTyped
    <2>3. QED
      BY <1>2, <2>2, PurgeKeepsIdp DEF Submit
  <1>3. ASSUME NEW f, Mistype(f) PROVE IdpInv'
    BY <1>3, PurgeKeepsIdp DEF Mistype, IdpInv, IdpTyped
  <1>4. ASSUME NEW t \in LoginThreads, LoginTooLate(t) PROVE IdpInv'
    <2>1. submitted' \in [LoginThreads -> SUBSET [form : Nat, user : Users]]
      BY <1>4 DEF LoginTooLate, IdpInv, IdpTyped
    <2>2. QED
      BY <1>4, <2>1, PurgeKeepsIdp DEF LoginTooLate
  <1>5. ASSUME NEW b \in Browsers, NEW r \in LoginRequests, HandleAuthnRequest(b, r)
        PROVE  IdpInv'
    <2> DEFINE n == cookie[b]
               d == Disposition(r, n)
    <2>1. UNCHANGED <<now, submitted, sessions, cookie>>
      BY <1>5 DEF HandleAuthnRequest
    <2>2. now \in Nat /\ n \in Nat /\ (n # 0 => n \in DOMAIN sessions)
      BY DEF IdpInv, IdpTyped
    <2>3. CASE d = "reuse" /\ Send(0, r, n, "none") /\ UNCHANGED <<forms, asked>>
      <3> DEFINE e == [form |-> 0, request |-> r, session |-> n, denial |-> "none", at |-> now]
      <3>1. ReusableSession(r, n)
        BY <2>3 DEF Disposition
      <3>2. /\ e \in Answered /\ e.form = 0 /\ e.request = r /\ e.session = n /\ e.at = now
            /\ sent' = Append(sent, e)
        BY <2>2, <2>3 DEF Answered, Send
      <3> HIDE DEF e
      <3>3. AsAsked(e, sessions, asked)
        <4>1. r.context # NoContext =>
                sessions[n].class \in
                  {IdpBroker.methods[k].class : k \in Pick(IdpBroker, r.context)} \union
                  (IF r.context.comparison = "exact" THEN r.context.refs ELSE {})
          BY <3>1 DEF ReusableSession, ClassSatisfies
        <4>2. ~r.force /\ now < sessions[n].at + SessionLife
          BY <3>1 DEF ReusableSession
        <4>3. QED
          BY <3>2, <4>1, <4>2 DEF AsAsked
      <3>4. QED
        BY <2>1, <2>2, <2>3, <3>2, <3>3, AtOnceKeeps
    <2>4. CASE d \in {"NoPassive", "NoAuthnContext"} /\ Send(0, r, 0, d)
               /\ UNCHANGED <<forms, asked>>
      <3> DEFINE e == [form |-> 0, request |-> r, session |-> 0, denial |-> d, at |-> now]
      <3>1. /\ e \in Answered /\ e.form = 0 /\ e.session = 0 /\ sent' = Append(sent, e)
        BY <2>2, <2>4 DEF Answered, Send
      <3> HIDE DEF e
      <3>2. QED
        BY <2>1, <2>4, <3>1, AtOnceKeeps
    <2>5. CASE /\ d = "authenticate" /\ SlotLeft /\ StorePending(Len(asked) + 1, r)
               /\ asked' = Append(asked, [request |-> r, at |-> now]) /\ UNCHANGED sent
      <3>1. Pick(IdpBroker, r.context) # {}
        <4>1. r.context # NoContext => Pick(IdpBroker, r.context) # {}
          BY <2>5 DEF Disposition
        <4>2. DOMAIN IdpBroker.methods # {}
          BY DEF IdpBroker
        <4>3. Pick(IdpBroker, NoContext) # {}
          BY <4>2, Zenon DEF Pick
        <4>4. QED
          BY <4>1, <4>3
      <3>2. QED
        BY <2>1, <2>5, <3>1, ShowKeeps
    <2>6. CASE forms' = Purged /\ UNCHANGED <<asked, sent>>
      BY <2>1, <2>6, PurgeKeepsIdp DEF IdpInv, IdpTyped
    <2>7. QED
      BY <1>5, <2>3, <2>4, <2>5, <2>6 DEF HandleAuthnRequest
  <1>6. CASE UNCHANGED idpVars
    BY <1>6 DEF idpVars, IdpInv, IdpTyped, TableInv, AnsweredInv, FormsAnswerOnce, SessionsInv
  <1>7. QED
    BY <1>1, <1>2, <1>3, <1>4, <1>5, <1>6, FinishKeeps DEF IdpNext

LEMMA IdpInvHolds == IdpSpec => []IdpInv
  <1>1. IdpInit => IdpInv
    <2> SUFFICES ASSUME IdpInit PROVE IdpInv
      OBVIOUS
    <2>1. /\ DOMAIN forms = {} /\ DOMAIN asked = {} /\ DOMAIN sent = {} /\ DOMAIN sessions = {}
          /\ IsFiniteSet({}) /\ Cardinality({}) = 0
      BY FS_EmptySet DEF IdpInit
    <2>2. IdpTyped
      BY DEF IdpInit, IdpTyped
    <2>3. Cardinality(DOMAIN forms) <= FormSlots
      BY <2>1, ExampleIdpAssumption
    <2>4. QED
      BY <2>1, <2>2, <2>3 DEF IdpInv, TableInv, AnsweredInv, FormsAnswerOnce, SessionsInv
  <1>2. QED
    BY <1>1, IdpStepKeeps, PTL DEF IdpSpec

\* A form is answered once, in time and as it was shown, and waits until then.
THEOREM FormsAreAnsweredOnce == IdpSpec => []FormsAnswerOnce
  BY IdpInvHolds, PTL DEF IdpInv

\* A response rests on a login that is fresh if it must be, not outlived, and of
\* a class the request accepts.
THEOREM SessionsAnswerTheirRequests == IdpSpec => []SessionsAnswerAsAsked
  <1>1. IdpInv => SessionsAnswerAsAsked
    BY DEF IdpInv, SessionsInv, SessionsAnswerAsAsked, AsAsked
  <1>2. QED
    BY <1>1, IdpInvHolds, PTL

-----------------------------------------------------------------------------
(* Targeted identifiers, for any threads, targets and secrets.              *)

\* The parts of a joined sequence are known from it and the length of one.
LEMMA JoinCancels ==
  ASSUME NEW S, NEW a \in Seq(S), NEW b \in Seq(S), NEW c \in Seq(S), NEW d \in Seq(S),
         a \o b = c \o d, Len(a) = Len(c) \/ Len(b) = Len(d)
  PROVE  a = c /\ b = d
  <1>1. Len(a) = Len(c) /\ Len(b) = Len(d)
    <2>1. Len(a \o b) = Len(a) + Len(b) /\ Len(c \o d) = Len(c) + Len(d)
      OBVIOUS
    <2>2. QED
      BY <2>1
  <1>2. ASSUME NEW i \in 1..Len(a) PROVE a[i] = c[i]
    <2>1. (a \o b)[i] = a[i] /\ (c \o d)[i] = c[i]
      BY <1>1
    <2>2. QED
      BY <2>1
  <1>3. ASSUME NEW i \in 1..Len(b) PROVE b[i] = d[i]
    <2>1. (a \o b)[Len(a) + i] = b[i] /\ (c \o d)[Len(c) + i] = d[i]
      BY <1>1
    <2>2. QED
      BY <1>1, <2>1
  <1>4. a = c
    BY <1>1, <1>2, SeqEqual
  <1>5. b = d
    BY <1>1, <1>3, SeqEqual
  <1>6. QED
    BY <1>4, <1>5

\* What keys and prefixes are made of.
Symbols == Tokens \union {Bang, Join}

\* Made, with any secret.
ValueOf(target, s) == Append(Prefix(target), <<"hex", target.user \o target.sp \o s>>)

SamePair(t, u) == t.idp = u.idp /\ t.sp = u.sp

\* The names of a deployment can be told apart once they are joined: "!" is legal
\* in an entity ID, and a pair (i!s, t) would have the prefix of the pair (i, s!t).
\* The digest joins without separators, which is unambiguous for a fixed pair if
\* every secret has the same length.
Distinguishable ==
  /\ \A t, u \in Targets : Prefix(t) = Prefix(u) => SamePair(t, u)
  /\ \A s, r \in Secrets : Len(s) = Len(r)

\* An appended sequence, whatever is appended.
LEMMA Extended ==
  ASSUME NEW S, NEW p \in Seq(S), NEW d
  PROVE  /\ Len(Append(p, d)) = Len(p) + 1 /\ Len(p) \in Nat
         /\ Append(p, d)[Len(p) + 1] = d
         /\ \A i \in 1..Len(p) : Append(p, d)[i] = p[i]
  <1> DEFINE T == S \union {d}
  <1>1. p \in Seq(T) /\ d \in T
    OBVIOUS
  <1> HIDE DEF T
  <1>2. QED
    BY <1>1

\* Joining keeps the elements in their order.
LEMMA Joined ==
  ASSUME NEW S, NEW a \in Seq(S), NEW b \in Seq(S)
  PROVE  /\ a \o b \in Seq(S) /\ Len(a \o b) = Len(a) + Len(b)
         /\ Len(a) \in Nat /\ Len(b) \in Nat
         /\ Len(b) = 1 => (a \o b)[Len(a) + 1] = b[1]
  OBVIOUS

\* A target is its three names.
LEMMA TargetParts ==
  ASSUME NEW t \in Targets
  PROVE  /\ t.idp \in Seq(Symbols) /\ t.sp \in Seq(Symbols) /\ t.user \in Seq(Symbols)
         /\ t = [idp |-> t.idp, sp |-> t.sp, user |-> t.user]
  <1>1. /\ t.idp \in Seq(Tokens) /\ t.sp \in Seq(Tokens) /\ t.user \in Seq(Tokens)
        /\ t = [idp |-> t.idp, sp |-> t.sp, user |-> t.user]
    BY EptidAssumption
  <1>2. ASSUME NEW s \in Seq(Tokens) PROVE s \in Seq(Symbols)
    BY DEF Symbols
  <1>3. QED
    BY <1>1, <1>2

\* The name of a pair of providers ends in the separator.
LEMMA PrefixShape ==
  ASSUME NEW t \in Targets
  PROVE  /\ Prefix(t) \in Seq(Symbols) /\ Len(Prefix(t)) \in Nat \ {0}
         /\ Prefix(t)[Len(Prefix(t))] = Bang
  <1> DEFINE a == t.idp \o <<Bang>> \o t.sp
  <1>0. \A e \in Symbols : <<e>> \in Seq(Symbols)
    OBVIOUS
  <1>1. t.idp \in Seq(Symbols) /\ t.sp \in Seq(Symbols) /\ Bang \in Symbols
    BY TargetParts DEF Symbols
  <1> DEFINE sep == <<Bang>>
  <1>5. sep \in Seq(Symbols) /\ Len(sep) = 1 /\ sep[1] = Bang
    BY <1>0, <1>1
  <1>3. Prefix(t) = a \o sep
    BY DEF Prefix
  <1>2. a \in Seq(Symbols)
    <2> HIDE DEF sep
    <2>1. a = t.idp \o sep \o t.sp
      BY DEF sep
    <2>2. QED
      BY <1>1, <1>5, <2>1
  <1> HIDE DEF a, sep
  <1>4. a \o sep \in Seq(Symbols) /\ Len(a \o sep) = Len(a) + 1 /\ Len(a) \in Nat
    BY <1>5, <1>2, Joined
  <1>6. (a \o sep)[Len(a) + 1] = Bang
    <2>1. (a \o sep)[Len(a) + 1] = sep[1]
      BY <1>5, <1>2, Joined
    <2>2. QED
      BY <1>5, <2>1
  <1>7. QED
    BY <1>4, <1>3, <1>6

\* A value names the pair it was made for, and nothing else passes for it.
LEMMA ValueShape ==
  ASSUME NEW t \in Targets, NEW s
  PROVE  /\ Len(ValueOf(t, s)) = Len(Prefix(t)) + 1
         /\ ValueOf(t, s)[Len(Prefix(t)) + 1] = <<"hex", t.user \o t.sp \o s>>
         /\ \A i \in 1..Len(Prefix(t)) : ValueOf(t, s)[i] = Prefix(t)[i]
         /\ ValueOf(t, s)[Len(Prefix(t))] = Bang
  <1>1. Prefix(t) \in Seq(Symbols) /\ Len(Prefix(t)) \in Nat \ {0} /\ Prefix(t)[Len(Prefix(t))] = Bang
    BY PrefixShape
  <1> DEFINE p == Prefix(t)
             d == <<"hex", t.user \o t.sp \o s>>
  <1>2. ValueOf(t, s) = Append(p, d)
    BY DEF ValueOf
  <1>3. p \in Seq(Symbols) /\ Len(p) \in Nat \ {0} /\ p[Len(p)] = Bang
    BY <1>1
  <1> HIDE DEF p, d
  <1>4. /\ Len(Append(p, d)) = Len(p) + 1 /\ Append(p, d)[Len(p) + 1] = d
        /\ \A i \in 1..Len(p) : Append(p, d)[i] = p[i]
    BY <1>3, Extended
  <1>5. Append(p, d)[Len(p)] = Bang
    BY <1>3, <1>4
  <1>6. QED
    BY <1>2, <1>4, <1>5 DEF p, d

\* No value is made for two targets.
LEMMA ValueTellsTarget ==
  ASSUME Distinguishable, NEW t \in Targets, NEW u \in Targets,
         NEW s \in Secrets, NEW r \in Secrets, ValueOf(t, s) = ValueOf(u, r)
  PROVE  t = u
  <1> DEFINE p == Prefix(t)
             q == Prefix(u)
  <1>1. p \in Seq(Symbols) /\ q \in Seq(Symbols) /\ Len(p) \in Nat /\ Len(q) \in Nat
    BY PrefixShape
  <1>2. Len(p) = Len(q)
    <2>1. Len(p) + 1 = Len(q) + 1
      BY ValueShape
    <2>2. QED
      BY <1>1, <2>1
  <1>3. <<"hex", t.user \o t.sp \o s>> = <<"hex", u.user \o u.sp \o r>>
    <2>1. /\ ValueOf(t, s)[Len(p) + 1] = <<"hex", t.user \o t.sp \o s>>
          /\ ValueOf(u, r)[Len(q) + 1] = <<"hex", u.user \o u.sp \o r>>
      BY ValueShape, Zenon
    <2>2. QED
      BY <1>2, <2>1, Zenon
  <1>4. t.user \o t.sp \o s = u.user \o u.sp \o r
    BY <1>3
  <1>5. p = q
    <2>1. \A i \in 1..Len(p) : p[i] = q[i]
      <3>1. /\ \A i \in 1..Len(p) : ValueOf(t, s)[i] = p[i]
            /\ \A i \in 1..Len(q) : ValueOf(u, r)[i] = q[i]
        BY ValueShape, Zenon
      <3>2. QED
        BY <1>2, <3>1, Zenon
    <2> HIDE DEF p, q
    <2>2. QED
      BY <1>1, <1>2, <2>1
  <1>6. t.idp = u.idp /\ t.sp = u.sp /\ Len(s) = Len(r)
    BY <1>5 DEF Distinguishable, SamePair
  <1>7. /\ t.user \in Seq(Symbols) /\ t.sp \in Seq(Symbols) /\ s \in Seq(Symbols)
        /\ u.user \in Seq(Symbols) /\ r \in Seq(Symbols)
    <2>1. s \in Seq(Tokens) /\ r \in Seq(Tokens)
      BY EptidAssumption
    <2>2. QED
      BY TargetParts, <2>1 DEF Symbols
  <1>8. t.user \o t.sp = u.user \o t.sp
    <2>1. t.user \o t.sp \in Seq(Symbols) /\ u.user \o t.sp \in Seq(Symbols)
      BY <1>7
    <2>2. (t.user \o t.sp) \o s = (u.user \o t.sp) \o r
      BY <1>4, <1>6
    <2> DEFINE a == t.user \o t.sp
               c == u.user \o t.sp
    <2>3. a \in Seq(Symbols) /\ c \in Seq(Symbols) /\ a \o s = c \o r
      BY <2>1, <2>2
    <2> HIDE DEF a, c
    <2>4. a = c
      BY <1>6, <1>7, <2>3, JoinCancels, Zenon
    <2>5. QED
      BY <2>4 DEF a, c
  <1>9. t.user = u.user
    <2> DEFINE a == t.user
               c == u.user
               b == t.sp
               d == t.sp
    <2>1. /\ a \in Seq(Symbols) /\ b \in Seq(Symbols) /\ c \in Seq(Symbols) /\ d \in Seq(Symbols)
          /\ Len(b) = Len(d) /\ a \o b = c \o d
      BY <1>7, <1>8
    <2> HIDE DEF a, b, c, d
    <2>2. a = c
      BY <2>1, JoinCancels, Zenon
    <2>3. QED
      BY <2>2 DEF a, c
  <1>10. QED
    BY <1>6, <1>9, TargetParts

\* The shape test of Eptid::get tells the pair of providers, and them only.
LEMMA ShapeTellsPair ==
  ASSUME Distinguishable, NEW t \in Targets, NEW u \in Targets, NEW s,
         RightShape(ValueOf(u, s), t)
  PROVE  SamePair(t, u)
  <1> DEFINE p == Prefix(t)
             q == Prefix(u)
             v == ValueOf(u, s)
             opaque == SubSeq(v, Len(p) + 1, Len(v))
  <1>1. p \in Seq(Symbols) /\ q \in Seq(Symbols) /\ Len(p) \in Nat \ {0} /\ Len(q) \in Nat \ {0}
    BY PrefixShape
  <1>2. Len(v) = Len(q) + 1 /\ v[Len(q)] = Bang /\ \A i \in 1..Len(q) : v[i] = q[i]
    BY ValueShape
  <1>3. Len(v) > Len(p) /\ SubSeq(v, 1, Len(p)) = p /\ \A i \in DOMAIN opaque : opaque[i] # Bang
    BY DEF RightShape, HasPrefix
  <1> HIDE DEF p, q, v
  <1>4. ~(Len(q) >= Len(p) + 1)
    <2> SUFFICES ASSUME Len(q) >= Len(p) + 1 PROVE FALSE
      OBVIOUS
    <2>1. Len(q) - Len(p) \in DOMAIN opaque /\ opaque[Len(q) - Len(p)] = v[Len(q)]
      BY <1>1, <1>2
    <2>2. QED
      BY <2>1, <1>2, <1>3
  <1>5. Len(p) = Len(q)
    BY <1>1, <1>2, <1>3, <1>4
  <1>6. \A i \in 1..Len(p) : p[i] = v[i]
    BY <1>1, <1>2, <1>3
  <1>7. p = q
    BY <1>1, <1>2, <1>5, <1>6
  <1>8. QED
    BY <1>7 DEF Distinguishable, p, q

\* For one pair of providers, a key of the cache tells the user.
LEMMA KeyTellsUser ==
  ASSUME NEW t \in Targets, NEW u \in Targets, SamePair(t, u), CacheKey(t) = CacheKey(u)
  PROVE  t = u
  <1> DEFINE a == t.idp \o <<Join>> \o t.sp \o <<Join>>
             sep == <<Join>>
  <1>1. /\ t.idp \in Seq(Symbols) /\ t.sp \in Seq(Symbols) /\ sep \in Seq(Symbols)
        /\ t.user \in Seq(Symbols) /\ u.user \in Seq(Symbols)
    <2>1. Join \in Symbols
      BY DEF Symbols
    <2>2. \A e \in Symbols : <<e>> \in Seq(Symbols)
      OBVIOUS
    <2>3. QED
      BY TargetParts, <2>1, <2>2
  <1>2. CacheKey(t) = a \o t.user /\ CacheKey(u) = a \o u.user
    BY DEF CacheKey, SamePair
  <1>3. a \in Seq(Symbols)
    <2>1. a = t.idp \o sep \o t.sp \o sep
      OBVIOUS
    <2> HIDE DEF a, sep
    <2>2. QED
      BY <1>1, <2>1
  <1> HIDE DEF a
  <1>4. t.user = u.user
    <2>1. a \o t.user = a \o u.user
      BY <1>2
    <2>2. QED
      BY <1>1, <1>3, <2>1, JoinCancels, Zenon
  <1>5. QED
    BY <1>4, TargetParts DEF SamePair

\* A value is made of its target with the secret of the process, or with an
\* earlier one once that has changed.
MadeFor(v, t, s, happened) ==
  \E r \in Secrets : v = ValueOf(t, r) /\ ("secret" \notin happened => r = s)

Belongs(v, t) == \E r \in Secrets : v = ValueOf(t, r)

EptidTypeOK ==
  /\ secret \in Secrets /\ upheavals \subseteq {"flush", "secret"}
  /\ getting \in [Askers -> SUBSET Targets]

GivenOK == \A g \in given : g.target \in Targets /\ MadeFor(g.value, g.target, secret, upheavals)

\* A value filed under a key is of some target, and of the target that has this
\* key if their providers are the same.
CacheOK ==
  \A k \in DOMAIN cache : \E u \in Targets :
    /\ MadeFor(cache[k], u, secret, upheavals)
    /\ \A t \in Targets : CacheKey(t) = k /\ SamePair(t, u) => t = u

\* What holds of the identifiers as long as the store loses nothing.
Recorded == \A g \in given : CacheKey(g.target) \in DOMAIN cache
Pending ==
  \A a \in Askers : \A u \in getting[a] : \A g \in given : g.target = u => g.value = Made(u)
OwnFound ==
  \A u \in Targets : CacheKey(u) \in DOMAIN cache /\ Belongs(cache[CacheKey(u)], u) =>
    /\ \A g \in given : g.target = u => g.value = cache[CacheKey(u)]
    /\ \A a \in Askers : u \in getting[a] => cache[CacheKey(u)] = Made(u)
Same == \A g, h \in given : g.target = h.target => g.value = h.value
Steady == Recorded /\ Pending /\ OwnFound /\ Same

EptidInv == EptidTypeOK /\ GivenOK /\ CacheOK /\ ("flush" \notin upheavals => Steady)

\* What is made now is made with the secret of now.
LEMMA MadeIsOwn ==
  ASSUME NEW t \in Targets, secret \in Secrets
  PROVE  MadeFor(Made(t), t, secret, upheavals) /\ Belongs(Made(t), t)
  BY DEF MadeFor, Belongs, Made, Digest, ValueOf

\* A value belongs to one target.
LEMMA OneOwner ==
  ASSUME Distinguishable, NEW v, NEW t \in Targets, NEW u \in Targets, Belongs(v, t), Belongs(v, u)
  PROVE  t = u
  <1>1. PICK r \in Secrets : v = ValueOf(t, r)
    BY DEF Belongs
  <1>2. PICK s \in Secrets : v = ValueOf(u, s)
    BY DEF Belongs
  <1>3. QED
    BY <1>1, <1>2, ValueTellsTarget

\* A value that passes for a target under its key was made for it.
LEMMA HitIsOwn ==
  ASSUME VerifyCache, Distinguishable, CacheOK, NEW t \in Targets,
         CacheKey(t) \in DOMAIN cache, Trusted(cache[CacheKey(t)], t)
  PROVE  /\ MadeFor(cache[CacheKey(t)], t, secret, upheavals)
         /\ Belongs(cache[CacheKey(t)], t)
  <1> DEFINE v == cache[CacheKey(t)]
  <1>1. PICK u \in Targets :
          /\ MadeFor(v, u, secret, upheavals)
          /\ \A w \in Targets : CacheKey(w) = CacheKey(t) /\ SamePair(w, u) => w = u
    BY DEF CacheOK
  <1>2. PICK r \in Secrets : v = ValueOf(u, r)
    BY <1>1 DEF MadeFor
  <1>3. RightShape(v, t)
    BY DEF Trusted
  <1>4. SamePair(t, u)
    BY <1>2, <1>3, ShapeTellsPair
  <1>5. t = u
    BY <1>1, <1>4
  <1>6. QED
    BY <1>1, <1>5, <1>2 DEF Belongs

\* The invariant holds of an empty store.
LEMMA EptidStarts == EptidInit => EptidInv
  BY DEF EptidInit, EptidInv, EptidTypeOK, GivenOK, CacheOK, Steady, Recorded, Pending, OwnFound, Same

\* A hit hands out what everyone before was given; a miss means that nobody was
\* given anything yet, unless the store was flushed.
LEMMA LookupKeepsInv ==
  ASSUME VerifyCache, Distinguishable, EptidInv,
         NEW a \in Askers, NEW t \in Targets, Lookup(a, t)
  PROVE  EptidInv'
  <1> DEFINE k == CacheKey(t)
             v == cache[k]
             new == [target |-> t, value |-> v]
  <1>1. UNCHANGED <<cache, secret, upheavals>> /\ getting[a] = {} /\ EptidTypeOK /\ GivenOK /\ CacheOK
    BY DEF Lookup, EptidInv
  <1>2. CacheOK'
    BY <1>1 DEF CacheOK
  <1>3. CASE k \in DOMAIN cache
    <2>1. Trusted(v, t) /\ given' = given \union {new} /\ getting' = getting
      BY <1>3 DEF Lookup, Give
    <2>2. MadeFor(v, t, secret, upheavals) /\ Belongs(v, t)
      BY <1>1, <1>3, <2>1, HitIsOwn
    <2>3. new.target = t /\ new.value = v
      OBVIOUS
    <2> HIDE DEF new
    <2>4. GivenOK'
      BY <1>1, <2>1, <2>2, <2>3 DEF GivenOK
    <2>5. EptidTypeOK'
      BY <1>1, <2>1 DEF EptidTypeOK
    <2>6. ASSUME Steady PROVE Steady'
      <3>1. (\A g \in given : g.target = t => g.value = v) /\ \A b \in Askers : t \in getting[b] => v = Made(t)
        BY <1>3, <2>2, <2>6 DEF Steady, OwnFound
      <3>2. Recorded'
        BY <1>1, <1>3, <2>1, <2>3, <2>6 DEF Steady, Recorded
      <3>3. Pending'
        BY <1>1, <2>1, <2>3, <2>6, <3>1 DEF Steady, Pending, Made, Digest
      <3>4. OwnFound'
        BY <1>1, <2>1, <2>3, <2>6 DEF Steady, OwnFound, Made, Digest
      <3>5. Same'
        BY <2>1, <2>3, <2>6, <3>1 DEF Steady, Same
      <3>6. QED
        BY <3>2, <3>3, <3>4, <3>5 DEF Steady
    <2>7. QED
      BY <1>1, <1>2, <2>4, <2>5, <2>6 DEF EptidInv
  <1>4. CASE k \notin DOMAIN cache
    <2>1. getting' = [getting EXCEPT ![a] = {t}] /\ given' = given
      BY <1>4 DEF Lookup
    <2>2. EptidTypeOK' /\ GivenOK'
      BY <1>1, <2>1 DEF EptidTypeOK, GivenOK
    <2>3. \A b \in Askers : \A u \in getting'[b] : u \in getting[b] \/ u = t
      BY <1>1, <2>1 DEF EptidTypeOK
    <2>4. ASSUME Steady PROVE Steady'
      <3>1. \A g \in given : g.target # t
        BY <1>4, <2>4 DEF Steady, Recorded
      <3>2. Recorded' /\ Same'
        BY <1>1, <2>1, <2>4 DEF Steady, Recorded, Same
      <3>3. Pending'
        BY <1>1, <2>1, <2>3, <2>4, <3>1 DEF Steady, Pending, Made, Digest
      <3>4. OwnFound'
        BY <1>1, <1>4, <2>1, <2>3, <2>4 DEF Steady, OwnFound, Made, Digest
      <3>5. QED
        BY <3>2, <3>3, <3>4 DEF Steady
    <2>5. QED
      BY <1>1, <1>2, <2>2, <2>4 DEF EptidInv
  <1>5. QED
    BY <1>3, <1>4

\* Two threads that both missed make the same value, since a new secret ends
\* every call in progress.
LEMMA RememberKeepsInv ==
  ASSUME VerifyCache, Distinguishable, EptidInv, NEW a \in Askers, Remember(a)
  PROVE  EptidInv'
  <1>1. PICK t \in getting[a] : cache' = Written(CacheKey(t), Made(t)) /\ Give(t, Made(t))
    BY DEF Remember
  <1> DEFINE k == CacheKey(t)
             new == [target |-> t, value |-> Made(t)]
  <1>2. /\ UNCHANGED <<secret, upheavals>> /\ EptidTypeOK /\ GivenOK /\ CacheOK
        /\ getting' = [getting EXCEPT ![a] = {}]
    BY DEF Remember, EptidInv
  <1>3. t \in Targets /\ MadeFor(Made(t), t, secret, upheavals) /\ Belongs(Made(t), t)
    <2>1. t \in Targets
      BY <1>2 DEF EptidTypeOK
    <2>2. QED
      BY <1>2, <2>1, MadeIsOwn DEF EptidTypeOK
  <1>4. /\ DOMAIN cache' = DOMAIN cache \union {k} /\ cache'[k] = Made(t)
        /\ \A l \in DOMAIN cache : l # k => cache'[l] = cache[l]
    BY <1>1 DEF Written
  <1>5. given' = given \union {new} /\ new.target = t /\ new.value = Made(t)
    BY <1>1 DEF Give
  <1> HIDE DEF new
  <1>6. \A b \in Askers : getting'[b] \subseteq getting[b]
    BY <1>2 DEF EptidTypeOK
  <1>7. EptidTypeOK' /\ GivenOK'
    BY <1>2, <1>3, <1>5 DEF EptidTypeOK, GivenOK
  <1>8. CacheOK'
    <2> SUFFICES ASSUME NEW l \in DOMAIN cache'
                 PROVE  \E u \in Targets :
                          /\ MadeFor(cache'[l], u, secret, upheavals)
                          /\ \A w \in Targets : CacheKey(w) = l /\ SamePair(w, u) => w = u
      BY <1>2 DEF CacheOK
    <2>1. CASE l = k
      BY <1>3, <1>4, <2>1, KeyTellsUser
    <2>2. CASE l # k
      BY <1>2, <1>4, <2>2 DEF CacheOK
    <2>3. QED
      BY <2>1, <2>2
  <1>9. ASSUME Steady PROVE Steady'
    <2>1. \A g \in given : g.target = t => g.value = Made(t)
      BY <1>9 DEF Steady, Pending
    <2>2. \A u : Made(u)' = Made(u)
      BY <1>2 DEF Made, Digest
    <2>3. Recorded'
      BY <1>4, <1>5, <1>9 DEF Steady, Recorded
    <2>4. Pending'
      BY <1>5, <1>6, <1>9, <2>2 DEF Steady, Pending
    <2>5. OwnFound'
      <3> SUFFICES ASSUME NEW u \in Targets, CacheKey(u) \in DOMAIN cache', Belongs(cache'[CacheKey(u)], u)
                   PROVE  /\ \A g \in given' : g.target = u => g.value = cache'[CacheKey(u)]
                          /\ \A b \in Askers : u \in getting'[b] => cache'[CacheKey(u)] = Made(u)
        BY <2>2 DEF OwnFound
      <3>1. CASE CacheKey(u) = k
        <4>1. u = t
          BY <1>3, <1>4, <3>1, OneOwner
        <4>2. QED
          BY <1>4, <1>5, <2>1, <4>1
      <3>2. CASE CacheKey(u) # k
        BY <1>4, <1>5, <1>6, <1>9, <3>2 DEF Steady, OwnFound
      <3>3. QED
        BY <3>1, <3>2
    <2>6. Same'
      BY <1>5, <1>9, <2>1 DEF Steady, Same
    <2>7. QED
      BY <2>3, <2>4, <2>5, <2>6 DEF Steady
  <1>10. QED
    BY <1>2, <1>7, <1>8, <1>9 DEF EptidInv

\* A value under another tenant's key passes for none of its targets.
LEMMA MisfileKeepsInv ==
  ASSUME VerifyCache, Distinguishable, EptidInv, NEW g \in given, NEW to \in Targets, Misfile(g, to)
  PROVE  EptidInv'
  <1> DEFINE k == CacheKey(to)
             u == g.target
  <1>1. /\ UNCHANGED <<secret, getting, given, upheavals>> /\ EptidTypeOK /\ GivenOK /\ CacheOK
        /\ cache' = Written(k, g.value)
    BY DEF Misfile, EptidInv
  <1>2. \A t \in Targets : CacheKey(t) = k => ~SamePair(t, u)
    BY DEF Misfile, SamePair
  <1>3. u \in Targets /\ MadeFor(g.value, u, secret, upheavals) /\ Belongs(g.value, u)
    BY <1>1 DEF GivenOK, MadeFor, Belongs
  <1>4. /\ DOMAIN cache' = DOMAIN cache \union {k} /\ cache'[k] = g.value
        /\ \A l \in DOMAIN cache : l # k => cache'[l] = cache[l]
    BY <1>1 DEF Written
  <1>5. EptidTypeOK' /\ GivenOK'
    BY <1>1 DEF EptidTypeOK, GivenOK
  <1>6. CacheOK'
    <2> SUFFICES ASSUME NEW l \in DOMAIN cache'
                 PROVE  \E w \in Targets :
                          /\ MadeFor(cache'[l], w, secret, upheavals)
                          /\ \A t \in Targets : CacheKey(t) = l /\ SamePair(t, w) => t = w
      BY <1>1 DEF CacheOK
    <2>1. CASE l = k
      BY <1>2, <1>3, <1>4, <2>1
    <2>2. CASE l # k
      BY <1>1, <1>4, <2>2 DEF CacheOK
    <2>3. QED
      BY <2>1, <2>2
  <1>7. ASSUME Steady PROVE Steady'
    <2>1. \A w : Made(w)' = Made(w)
      BY <1>1 DEF Made, Digest
    <2>2. Recorded' /\ Same'
      BY <1>1, <1>4, <1>7 DEF Steady, Recorded, Same
    <2>3. Pending'
      BY <1>1, <1>7, <2>1 DEF Steady, Pending
    <2>4. OwnFound'
      <3> SUFFICES ASSUME NEW w \in Targets, CacheKey(w) \in DOMAIN cache', Belongs(cache'[CacheKey(w)], w)
                   PROVE  /\ \A h \in given : h.target = w => h.value = cache'[CacheKey(w)]
                          /\ \A b \in Askers : w \in getting[b] => cache'[CacheKey(w)] = Made(w)
        BY <1>1, <2>1 DEF OwnFound
      <3>1. CacheKey(w) # k
        <4> SUFFICES ASSUME CacheKey(w) = k PROVE FALSE
          OBVIOUS
        <4>1. w = u
          BY <1>3, <1>4, OneOwner
        <4>2. QED
          BY <1>2, <4>1 DEF SamePair
      <3>2. QED
        BY <1>4, <1>7, <3>1 DEF Steady, OwnFound
    <2>5. QED
      BY <2>2, <2>3, <2>4 DEF Steady
  <1>8. QED
    BY <1>1, <1>5, <1>6, <1>7 DEF EptidInv

\* Every step keeps the invariant.
LEMMA EptidStep ==
  ASSUME VerifyCache, Distinguishable, EptidInv, [EptidNext]_eptidVars
  PROVE  EptidInv'
  <1>1. ASSUME NEW a \in Askers, SetFails(a) PROVE EptidInv'
    <2>1. /\ UNCHANGED <<cache, secret, given, upheavals>>
          /\ \A b \in Askers : getting'[b] \subseteq getting[b]
      BY <1>1 DEF SetFails, GiveNothing, EptidInv, EptidTypeOK
    <2>2. EptidTypeOK' /\ GivenOK' /\ CacheOK'
      BY <1>1, <2>1 DEF SetFails, EptidInv, EptidTypeOK, GivenOK, CacheOK
    <2>3. Steady => Steady'
      BY <2>1 DEF Steady, Recorded, Pending, OwnFound, Same, Made, Digest
    <2>4. QED
      BY <2>1, <2>2, <2>3 DEF EptidInv
  <1>2. ASSUME NEW s \in Secrets, Restart(s) PROVE EptidInv'
    <2>1. /\ UNCHANGED <<cache, given>> /\ secret' = s /\ upheavals' = upheavals \union {"secret"}
          /\ getting' = [t \in Askers |-> {}]
      BY <1>2 DEF Restart
    <2>2. EptidTypeOK'
      BY <2>1 DEF EptidInv, EptidTypeOK
    <2>3. \A v, t : MadeFor(v, t, secret, upheavals) => MadeFor(v, t, secret', upheavals')
      BY <2>1 DEF MadeFor
    <2>4. GivenOK'
      BY <2>1, <2>3 DEF EptidInv, GivenOK
    <2>5. CacheOK'
      BY <2>1, <2>3 DEF EptidInv, CacheOK
    <2>6. Steady => Steady'
      BY <2>1 DEF Steady, Recorded, Pending, OwnFound, Same
    <2>7. QED
      BY <2>1, <2>2, <2>4, <2>5, <2>6 DEF EptidInv
  <1>3. CASE Flush
    <2>1. UNCHANGED <<given, secret, getting>> /\ cache' = << >> /\ upheavals' = upheavals \union {"flush"}
      BY <1>3 DEF Flush
    <2>2. \A v, t : MadeFor(v, t, secret, upheavals) => MadeFor(v, t, secret', upheavals')
      BY <2>1 DEF MadeFor
    <2>3. EptidTypeOK' /\ CacheOK'
      BY <2>1 DEF EptidInv, EptidTypeOK, CacheOK
    <2>4. GivenOK'
      BY <2>1, <2>2 DEF EptidInv, GivenOK
    <2>5. QED
      BY <2>1, <2>3, <2>4 DEF EptidInv
  <1>4. CASE UNCHANGED eptidVars
    BY <1>4 DEF eptidVars, EptidInv, EptidTypeOK, GivenOK, CacheOK, Steady, Recorded, Pending, OwnFound,
                Same, Made, Digest
  <1>5. QED
    BY <1>1, <1>2, <1>3, <1>4, LookupKeepsInv, RememberKeepsInv, MisfileKeepsInv DEF EptidNext

\* The invariant is as strong as the property.
LEMMA EptidInvShows ==
  ASSUME Distinguishable, EptidInv PROVE IdentifiersAreStable
  <1> SUFFICES ASSUME NEW g \in given, NEW h \in given
               PROVE  /\ g.target = h.target /\ g.value # h.value => upheavals = {"flush", "secret"}
                      /\ g.value = h.value => g.target = h.target
    BY DEF IdentifiersAreStable
  <1>1. /\ g.target \in Targets /\ MadeFor(g.value, g.target, secret, upheavals)
        /\ h.target \in Targets /\ MadeFor(h.value, h.target, secret, upheavals)
    BY DEF EptidInv, GivenOK
  <1>2. ASSUME g.target = h.target, g.value # h.value PROVE upheavals = {"flush", "secret"}
    <2>1. "flush" \in upheavals
      BY <1>2 DEF EptidInv, Steady, Same
    <2>2. "secret" \in upheavals
      BY <1>1, <1>2 DEF MadeFor
    <2>3. QED
      BY <2>1, <2>2 DEF EptidInv, EptidTypeOK
  <1>3. g.value = h.value => g.target = h.target
    BY <1>1, OneOwner DEF MadeFor, Belongs
  <1>4. QED
    BY <1>2, <1>3

\* The identifier of a user at a service provider changes only after the store was
\* flushed and the secret replaced, and no identifier stands for two users or two
\* providers: for any threads, targets, secrets, collisions of joined keys and
\* misfiled values, provided that Eptid checks what the store returns.
THEOREM IdentifiersStayStable ==
  ASSUME VerifyCache, Distinguishable
  PROVE  EptidSpec => []IdentifiersAreStable
  <1>1. EptidInv /\ [EptidNext]_eptidVars => EptidInv'
    BY EptidStep
  <1>2. EptidInv => IdentifiersAreStable
    BY EptidInvShows
  <1>3. QED
    BY EptidStarts, <1>1, <1>2, PTL DEF EptidSpec

-----------------------------------------------------------------------------
(* The release of attributes, for any attribute maps that know the format in  *)
(* use and the way back, any chain of policies whose category rules yield to  *)
(* the stricter access categories, and any requests of which each means one   *)
(* of the attributes held.                                                    *)

\* An attribute n under way: its wire name, and n as its FriendlyName.
Wired(a, n) ==
  /\ a = Attribute(a.name, {UriFormat}, {n}, a.values)
  /\ WireNames(n) = {a.name}

\* All of a set of attributes are under way, and are of what the application holds.
UnderWay(set, held) == \A a \in set : \E l \in held : Wired(a, l.name)

Carries(set, n, v) == \E a \in set : a.friendly = {n} /\ v \in a.values

\* A wire name leads back to where it came from, or nowhere.
LEMMA WayBack ==
  ASSUME NEW a, NEW n, Wired(a, n)
  PROVE  /\ LocalNameViaConverters(Converters, a) \in {{}, {n}}
         /\ LocalName(Converters, a) = {n} /\ LocalKey(a) = n
         /\ a.friendly = {n} /\ a.format = {UriFormat}
  <1>1. a.format = {UriFormat} /\ a.friendly = {n}
    BY DEF Wired, Attribute
  <1>2. PICK i \in DOMAIN Converters :
          /\ ConverterFor(Converters, UriFormat) = {Converters[i]}
          /\ \A m \in DOMAIN Converters[i].to :
               Converters[i].to[m] \in DOMAIN Converters[i].fro
                 => Converters[i].fro[Converters[i].to[m]] = m
    BY ConvertersAssumption
  <1> DEFINE c == Converters[i]
  <1>3. WireNames(n) = Lookup1(c.to, n)
    BY <1>2 DEF WireNames
  <1>4. n \in DOMAIN c.to /\ a.name = c.to[n]
    BY <1>3 DEF Wired, Lookup1
  <1>5. UNION {ConverterFor(Converters, f) : f \in a.format} = {c}
    BY <1>1, <1>2
  <1>6. LocalNameViaConverters(Converters, a) = Lookup1(c.fro, a.name)
    BY <1>1, <1>5 DEF LocalNameViaConverters
  <1>7. LocalNameViaConverters(Converters, a) \in {{}, {n}}
    BY <1>2, <1>4, <1>6 DEF Lookup1
  <1>8. LocalName(Converters, a) = {n}
    BY <1>1, <1>7 DEF LocalName
  <1>9. LocalKey(a) = n
    BY <1>8 DEF LocalKey
  <1>10. QED
    BY <1>1, <1>7, <1>8, <1>9

\* Narrowing an attribute's values leaves it under way.
LEMMA Revalued ==
  ASSUME NEW a, NEW n, NEW values, Wired(a, n)
  PROVE  /\ Wired([a EXCEPT !.values = values], n)
         /\ [a EXCEPT !.values = values].values = values
  BY DEF Wired, Attribute

\* What is under way carries the values of its attributes, each under one name.
LEMMA CarriedUnderOneName ==
  ASSUME NEW set, NEW held, UnderWay(set, held), NEW a \in set
  PROVE  \E l \in held : Wired(a, l.name) /\ LocalKey(a) = l.name /\ a.friendly = {l.name}
  BY WayBack DEF UnderWay

\* Several attributes of one name merge into one that has the values of all.
LEMMA MergedIsWired ==
  ASSUME NEW same, NEW n, same # {}, \A a \in same : Wired(a, n)
  PROVE  /\ Wired(Merged(same), n)
         /\ Merged(same).values = UNION {a.values : a \in same}
  <1> DEFINE one == CHOOSE a \in same : TRUE
  <1>1. one \in same
    OBVIOUS
  <1>2. Wired(one, n)
    BY <1>1
  <1>3. Merged(same) = [one EXCEPT !.values = UNION {a.values : a \in same}]
    BY DEF Merged
  <1> HIDE DEF one
  <1>4. QED
    BY <1>2, <1>3, Revalued
\* A set that is grouped by name carries what it carried.
LEMMA GroupingCarries ==
  ASSUME NEW chosen, NEW held, UnderWay(chosen, held), NEW grouped,
         grouped = {Merged({b \in chosen : LocalKey(b) = LocalKey(a)}) : a \in chosen}
  PROVE  /\ UnderWay(grouped, held)
         /\ \A n, v : Carries(grouped, n, v) <=> Carries(chosen, n, v)
  <1> DEFINE group(a) == {b \in chosen : LocalKey(b) = LocalKey(a)}
  <1>1. ASSUME NEW a \in chosen
        PROVE  \E l \in held : /\ Wired(Merged(group(a)), l.name) /\ a.friendly = {l.name}
                               /\ Merged(group(a)).friendly = {l.name}
                               /\ Merged(group(a)).values = UNION {b.values : b \in group(a)}
                               /\ \A b \in group(a) : b.friendly = {l.name}
    <2>1. PICK l \in held : Wired(a, l.name) /\ LocalKey(a) = l.name /\ a.friendly = {l.name}
      BY CarriedUnderOneName
    <2>2. ASSUME NEW b \in group(a) PROVE Wired(b, l.name) /\ b.friendly = {l.name}
      <3>1. b \in chosen /\ LocalKey(b) = l.name
        BY <2>1
      <3>2. PICK m \in held : Wired(b, m.name) /\ LocalKey(b) = m.name /\ b.friendly = {m.name}
        BY <3>1, CarriedUnderOneName
      <3>3. m.name = l.name
        BY <3>1, <3>2
      <3>4. QED
        BY <3>2, <3>3
    <2>3. a \in group(a)
      OBVIOUS
    <2> HIDE DEF group
    <2>4. /\ Wired(Merged(group(a)), l.name)
          /\ Merged(group(a)).values = UNION {b.values : b \in group(a)}
      BY <2>2, <2>3, MergedIsWired
    <2>5. QED
      BY <2>1, <2>2, <2>4, WayBack
  <1>2. grouped = {Merged(group(a)) : a \in chosen}
    OBVIOUS
  <1>3. \A a \in chosen : a \in group(a)
    OBVIOUS
  <1>4. \A a \in chosen : \A b \in group(a) : b \in chosen
    OBVIOUS
  <1> HIDE DEF group
  <1>5. UnderWay(grouped, held)
    <2>1. \A a \in chosen : \E l \in held : Wired(Merged(group(a)), l.name)
      BY <1>1
    <2>2. \A b \in grouped : \E a \in chosen : b = Merged(group(a))
      BY <1>2
    <2>3. \A b \in grouped : \E l \in held : Wired(b, l.name)
      BY <2>1, <2>2
    <2>4. QED
      BY <2>3 DEF UnderWay
  <1>6. ASSUME NEW n, NEW v, Carries(grouped, n, v) PROVE Carries(chosen, n, v)
    <2>1. PICK a \in chosen : Merged(group(a)).friendly = {n} /\ v \in Merged(group(a)).values
      BY <1>2, <1>6 DEF Carries
    <2>2. PICK l \in held : /\ Merged(group(a)).friendly = {l.name}
                            /\ Merged(group(a)).values = UNION {b.values : b \in group(a)}
                            /\ \A b \in group(a) : b.friendly = {l.name}
      BY <1>1
    <2>3. PICK b \in group(a) : v \in b.values
      BY <2>1, <2>2
    <2>4. QED
      BY <1>4, <2>1, <2>2, <2>3 DEF Carries
  <1>7. ASSUME NEW n, NEW v, Carries(chosen, n, v) PROVE Carries(grouped, n, v)
    <2>1. PICK a \in chosen : a.friendly = {n} /\ v \in a.values
      BY <1>7 DEF Carries
    <2>2. PICK l \in held : /\ Merged(group(a)).friendly = {l.name} /\ a.friendly = {l.name}
                            /\ Merged(group(a)).values = UNION {b.values : b \in group(a)}
      BY <1>1
    <2>3. v \in Merged(group(a)).values /\ Merged(group(a)).friendly = {n}
      BY <1>3, <2>1, <2>2
    <2>4. QED
      BY <1>2, <2>3 DEF Carries
  <1>8. QED
    BY <1>5, <1>6, <1>7

-----------------------------------------------------------------------------

\* A request means an attribute by its key or by its wire name.
Means(policy, r, n) == n \in MatchKey(policy, r) \/ r.name \in WireNames(n)

LEMMA KeysAreAskedFor ==
  ASSUME NEW policy, NEW r, NEW n
  PROVE  n \in MatchKey(policy, r) <=> AsksFor(policy, r, n)
  BY DEF MatchKey, AsksFor

\* A request that means one attribute matches that one and no other.
LEMMA MatchesAreOfOne ==
  ASSUME NEW set, NEW held, UnderWay(set, held), NEW policy, NEW r, MeansOne(policy, held, r),
         NEW same, same = Matching(policy, set, r)
  PROVE  /\ \A a \in set : \A n : a.friendly = {n} => (a \in same <=> Means(policy, r, n))
         /\ same \subseteq set
         /\ same # {} => \E l \in held : \A a \in same : Wired(a, l.name)
  <1>1. ASSUME NEW a \in set, NEW n, a.friendly = {n}
        PROVE  Wired(a, n) /\ LocalKey(a) = n /\ WireNames(n) = {a.name} /\ \E l \in held : l.name = n
    <2>1. PICK l \in held : Wired(a, l.name) /\ LocalKey(a) = l.name /\ a.friendly = {l.name}
      BY CarriedUnderOneName
    <2>2. l.name = n
      BY <1>1, <2>1
    <2>3. QED
      BY <2>1, <2>2 DEF Wired
  <1>2. same = {a \in set : LocalKey(a) \in MatchKey(policy, r) \/ a.name = r.name}
    BY DEF Matching
  <1>3. \A a \in set : \A n : a.friendly = {n} => (a \in same <=> Means(policy, r, n))
    BY <1>1, <1>2 DEF Means
  <1>4. ASSUME same # {} PROVE \E l \in held : \A a \in same : Wired(a, l.name)
    <2>1. PICK one \in same : TRUE
      BY <1>4
    <2>2. PICK l \in held : one.friendly = {l.name}
      BY <1>2, <2>1, CarriedUnderOneName
    <2>3. ASSUME NEW a \in same PROVE Wired(a, l.name)
      <3>1. PICK m \in held : a.friendly = {m.name} /\ Wired(a, m.name)
        BY <1>2, CarriedUnderOneName
      <3>2. Means(policy, r, l.name) /\ Means(policy, r, m.name)
        BY <1>2, <1>3, <2>1, <2>2, <3>1
      <3>3. l.name = m.name
        BY <3>2 DEF Means, MeansOne
      <3>4. QED
        BY <3>1, <3>3
    <2>4. QED
      BY <2>3
  <1>5. QED
    BY <1>2, <1>3, <1>4
\* filter_on_attributes: an attribute keeps the values that some request for it
\* wants, and what nothing asks for goes.
LEMMA AskedForIsKept ==
  ASSUME NEW set, NEW held, UnderWay(set, held), NEW policy, NEW s,
         \A r \in s.required \union s.optional : MeansOne(policy, held, r),
         NEW kept, kept = FilterOnAttributes(policy, set, s.required \union s.optional)
  PROVE  /\ UnderWay(kept, held)
         /\ \A n, v : Carries(kept, n, v) <=> Carries(set, n, v) /\ EntitledByRequest(policy, n, v, s)
  <1> DEFINE requests == s.required \union s.optional
             same(r) == Matching(policy, set, r)
             met == {q \in requests : same(q) # {}}
             narrowed(r) == Narrowed(Merged(same(r)), r)
             chosen == {narrowed(r) : r \in met}
  <1>1. ASSUME NEW r \in requests
        PROVE  /\ \A a \in set : \A n : a.friendly = {n} => (a \in same(r) <=> Means(policy, r, n))
               /\ same(r) \subseteq set
               /\ same(r) # {} => \E l \in held : \A a \in same(r) : Wired(a, l.name)
    BY <1>1, MatchesAreOfOne
  <1>2. ASSUME NEW r \in met
        PROVE  \E l \in held :
                 /\ Wired(narrowed(r), l.name) /\ narrowed(r).friendly = {l.name}
                 /\ \A a \in same(r) : a.friendly = {l.name}
                 /\ \A v : v \in narrowed(r).values
                             <=> /\ \E a \in same(r) : v \in a.values
                                 /\ Wanted(r) # {} => v \in Wanted(r)
    <2>1. r \in requests /\ same(r) # {}
      OBVIOUS
    <2>2. PICK l \in held : \A a \in same(r) : Wired(a, l.name)
      BY <1>1, <2>1
    <2> DEFINE one == Merged(same(r))
               values == IF Wanted(r) = {} THEN one.values ELSE one.values \intersect Wanted(r)
    <2>3. Wired(one, l.name) /\ one.values = UNION {a.values : a \in same(r)}
      BY <2>1, <2>2, MergedIsWired
    <2>4. narrowed(r) = [one EXCEPT !.values = values]
      BY DEF Narrowed
    <2>5. \A v : v \in values <=> /\ \E a \in same(r) : v \in a.values
                                  /\ Wanted(r) # {} => v \in Wanted(r)
      BY <2>3
    <2> HIDE DEF one, values, narrowed, same, met
    <2>6. Wired(narrowed(r), l.name) /\ narrowed(r).values = values
      BY <2>3, <2>4, Revalued
    <2>7. narrowed(r).friendly = {l.name} /\ \A a \in same(r) : a.friendly = {l.name}
      BY <2>2, <2>6, WayBack
    <2>8. QED
      BY <2>5, <2>6, <2>7
  <1>3. kept = {Merged({b \in chosen : LocalKey(b) = LocalKey(a)}) : a \in chosen}
    BY DEF FilterOnAttributes
  <1>4. \A r \in requests : r \in met <=> same(r) # {}
    OBVIOUS
  <1>5. met \subseteq requests /\ chosen = {narrowed(r) : r \in met}
    OBVIOUS
  <1> HIDE DEF requests, same, met, narrowed, chosen
  <1>6. UnderWay(chosen, held)
    <2>1. \A r \in met : \E l \in held : Wired(narrowed(r), l.name)
      BY <1>2
    <2>2. \A a \in chosen : \E r \in met : a = narrowed(r)
      BY <1>5
    <2>3. \A a \in chosen : \E l \in held : Wired(a, l.name)
      BY <2>1, <2>2
    <2>4. QED
      BY <2>3 DEF UnderWay
  <1>7. /\ UnderWay(kept, held)
        /\ \A n, v : Carries(kept, n, v) <=> Carries(chosen, n, v)
    BY <1>3, <1>6, GroupingCarries
  <1>8. ASSUME NEW n, NEW v, Carries(chosen, n, v)
        PROVE  Carries(set, n, v) /\ EntitledByRequest(policy, n, v, s)
    <2>1. PICK r \in met : narrowed(r).friendly = {n} /\ v \in narrowed(r).values
      BY <1>5, <1>8 DEF Carries
    <2>2. PICK l \in held :
            /\ narrowed(r).friendly = {l.name}
            /\ \A a \in same(r) : a.friendly = {l.name}
            /\ \A w : w \in narrowed(r).values
                        <=> /\ \E a \in same(r) : w \in a.values
                            /\ Wanted(r) # {} => w \in Wanted(r)
      BY <1>2
    <2>3. PICK a \in same(r) : v \in a.values
      BY <2>1, <2>2
    <2>4. a \in set /\ a.friendly = {n} /\ Means(policy, r, n)
      BY <1>1, <1>5, <2>1, <2>2
    <2>5. Wanted(r) # {} => v \in Wanted(r)
      BY <2>1, <2>2
    <2>6. r \in s.required \union s.optional
      BY <1>5 DEF requests
    <2>7. AsksFor(policy, r, n) \/ r.name \in WireNames(n)
      BY <2>4, KeysAreAskedFor DEF Means
    <2>8. QED
      BY <2>3, <2>4, <2>5, <2>6, <2>7 DEF Carries, EntitledByRequest
  <1>9. ASSUME NEW n, NEW v, Carries(set, n, v), EntitledByRequest(policy, n, v, s)
        PROVE  Carries(chosen, n, v)
    <2>1. PICK r \in s.required \union s.optional :
            /\ AsksFor(policy, r, n) \/ r.name \in WireNames(n)
            /\ Wanted(r) # {} => v \in Wanted(r)
      BY <1>9 DEF EntitledByRequest
    <2>2. PICK a \in set : a.friendly = {n} /\ v \in a.values
      BY <1>9 DEF Carries
    <2>3. r \in requests /\ Means(policy, r, n)
      BY <2>1, KeysAreAskedFor DEF requests, Means
    <2>4. a \in same(r)
      BY <1>1, <2>2, <2>3
    <2>5. r \in met
      BY <1>4, <2>3, <2>4
    <2>6. PICK l \in held :
            /\ narrowed(r).friendly = {l.name}
            /\ \A b \in same(r) : b.friendly = {l.name}
            /\ \A w : w \in narrowed(r).values
                        <=> /\ \E b \in same(r) : w \in b.values
                            /\ Wanted(r) # {} => w \in Wanted(r)
      BY <1>2, <2>5
    <2>7. v \in narrowed(r).values
      BY <2>1, <2>2, <2>4, <2>6
    <2>8. narrowed(r).friendly = {n}
      BY <2>2, <2>4, <2>6
    <2>9. QED
      BY <1>5, <2>5, <2>7, <2>8 DEF Carries
  <1>10. QED
    BY <1>7, <1>8, <1>9
\* The names a policy takes the required attributes by, and the entitlement to one.
RequiredKeys(policy, s) == UNION {MatchKey(policy, r) \union {r.name} : r \in s.required}

ByCategory(policy, ruleSets, n, s) ==
  LET isRequired == \E r \in s.required : AsksFor(policy, r, n) \/ r.name = n
  IN \E set \in ruleSets : EntitledByCategory(set, n, s, isRequired)

\* The category rules release what a service provider is entitled to by category.
LEMMA RulesRelease ==
  ASSUME NEW policy, NEW s, NEW ruleSets, NEW n,
         \A set \in ruleSets : \A rule \in set : YieldsToStricter(rule)
  PROVE  n \in ReleasableAttributes(UNION ruleSets, s.categories, RequiredKeys(policy, s))
           <=> ByCategory(policy, ruleSets, n, s)
  <1> DEFINE keys == RequiredKeys(policy, s)
             isRequired == \E r \in s.required : AsksFor(policy, r, n) \/ r.name = n
  <1>1. n \in keys <=> isRequired
    <2>1. n \in keys <=> \E r \in s.required : n \in MatchKey(policy, r) \/ r.name = n
      BY DEF RequiredKeys
    <2>2. QED
      BY <2>1, KeysAreAskedFor
  <1> DEFINE access == s.categories \intersect DOMAIN AccessRank
             strict(rule) == \A c \in rule.categories \intersect access :
                               \A d \in access : AccessRank[c] <= AccessRank[d]
  <1>2. ASSUME NEW rule, YieldsToStricter(rule), rule.categories \subseteq s.categories
        PROVE  rule.conflicts \intersect s.categories = {} <=> strict(rule)
    <2>1. \A c \in DOMAIN AccessRank : AccessRank[c] \in Nat
      BY DEF AccessRank
    <2>2. rule.conflicts \intersect s.categories =
            {d \in access : \E c \in rule.categories \intersect access : AccessRank[d] < AccessRank[c]}
      BY <1>2 DEF YieldsToStricter
    <2>3. \A c, d \in access : ~(AccessRank[d] < AccessRank[c]) <=> AccessRank[c] <= AccessRank[d]
      BY <2>1
    <2> HIDE DEF access
    <2>4. QED
      BY <2>2, <2>3
  <1>3. ASSUME NEW rule, YieldsToStricter(rule)
        PROVE  (RuleMatches(rule, s.categories) /\ n \in RuleReleases(rule, keys))
                 <=> /\ n \in rule.attributes /\ rule.categories \subseteq s.categories
                     /\ (rule.onlyRequired /\ rule.categories # {}) => isRequired
                     /\ strict(rule)
    <2>1. n \in RuleReleases(rule, keys)
            <=> /\ n \in rule.attributes
                /\ (rule.onlyRequired /\ rule.categories # {}) => isRequired
      BY <1>1 DEF RuleReleases
    <2>2. RuleMatches(rule, s.categories) <=> rule.categories \subseteq s.categories /\ strict(rule)
      BY <1>2, <1>3 DEF RuleMatches
    <2> HIDE DEF strict
    <2>3. QED
      BY <2>1, <2>2
  <1>4. n \in ReleasableAttributes(UNION ruleSets, s.categories, keys)
          <=> \E set \in ruleSets : \E rule \in set :
                RuleMatches(rule, s.categories) /\ n \in RuleReleases(rule, keys)
    BY DEF ReleasableAttributes
  <1>5. \A set : EntitledByCategory(set, n, s, isRequired)
                   <=> \E rule \in set :
                         /\ n \in rule.attributes /\ rule.categories \subseteq s.categories
                         /\ (rule.onlyRequired /\ rule.categories # {}) => isRequired
                         /\ strict(rule)
    BY DEF EntitledByCategory
  <1>6. ByCategory(policy, ruleSets, n, s) <=> \E set \in ruleSets : EntitledByCategory(set, n, s, isRequired)
    BY DEF ByCategory
  <1> HIDE DEF strict, keys, isRequired
  <1>7. n \in ReleasableAttributes(UNION ruleSets, s.categories, keys) <=> ByCategory(policy, ruleSets, n, s)
    BY <1>3, <1>4, <1>5, <1>6
  <1>8. QED
    BY <1>7 DEF keys

\* What a policy chooses: the parts of Entitled without the restrictions.
Covered(policy, n, v, s) ==
  LET rules == Knob(policy, s.sp, "categories")
  IN /\ rules # {} => ByCategory(policy, rules, n, s)
     /\ rules = {} => \/ EntitledByRequest(policy, n, v, s)
                      \/ /\ s.required \union s.optional = {}
                         /\ Knob(policy, s.sp, "restrictions") = {} => ~DeniesUnconfigured(policy, s.sp)

LEMMA CoveredIsChosen ==
  ASSUME NEW set, NEW held, UnderWay(set, held), NEW policy, NEW s,
         \A rules \in Knob(policy, s.sp, "categories") : \A rule \in rules : YieldsToStricter(rule),
         \A r \in s.required \union s.optional : MeansOne(policy, held, r),
         NEW chosen, chosen = Chosen(policy, set, s)
  PROVE  /\ UnderWay(chosen, held)
         /\ \A n, v : Carries(chosen, n, v) <=> Carries(set, n, v) /\ Covered(policy, n, v, s)
  <1> DEFINE rules == Knob(policy, s.sp, "categories")
             requests == s.required \union s.optional
             releasable == ReleasableAttributes(UNION rules, s.categories, RequiredKeys(policy, s))
  <1>1. CASE rules # {}
    <2>1. chosen = {a \in set : LocalKey(a) \in releasable}
      BY <1>1 DEF Chosen, RequiredKeys
    <2>2. UnderWay(chosen, held)
      BY <2>1 DEF UnderWay
    <2>3. ASSUME NEW a \in set, NEW n, a.friendly = {n} PROVE LocalKey(a) = n
      BY <2>3, CarriedUnderOneName
    <2>4. ASSUME NEW n PROVE n \in releasable <=> \A v : Covered(policy, n, v, s)
      <3>1. n \in releasable <=> ByCategory(policy, rules, n, s)
        BY RulesRelease
      <3>2. \A v : Covered(policy, n, v, s) <=> ByCategory(policy, rules, n, s)
        BY <1>1 DEF Covered
      <3> HIDE DEF releasable, rules
      <3>3. QED
        BY <3>1, <3>2
    <2>5. \A n, v : Covered(policy, n, v, s) => \A w : Covered(policy, n, w, s)
      BY <1>1 DEF Covered
    <2> HIDE DEF releasable, rules
    <2>6. \A n, v : Carries(chosen, n, v) <=> Carries(set, n, v) /\ n \in releasable
      BY <2>1, <2>3 DEF Carries
    <2>7. QED
      BY <2>2, <2>4, <2>5, <2>6
  <1>2. CASE rules = {} /\ requests # {}
    <2>1. chosen = FilterOnAttributes(policy, set, requests)
      BY <1>2 DEF Chosen
    <2>2. \A n, v : Covered(policy, n, v, s) <=> EntitledByRequest(policy, n, v, s)
      BY <1>2 DEF Covered
    <2>3. QED
      BY <2>1, <2>2, AskedForIsKept
  <1>3. CASE rules = {} /\ requests = {}
    <2> DEFINE denied == Knob(policy, s.sp, "restrictions") = {} /\ DeniesUnconfigured(policy, s.sp)
    <2>1. chosen = IF denied THEN {} ELSE set
      BY <1>3 DEF Chosen, Uncovered
    <2>2. \A n, v : ~EntitledByRequest(policy, n, v, s)
      BY <1>3 DEF EntitledByRequest
    <2>3. \A n, v : Covered(policy, n, v, s) <=> ~denied
      BY <1>3, <2>2 DEF Covered
    <2> HIDE DEF denied
    <2>4. UnderWay(chosen, held)
      BY <2>1 DEF UnderWay
    <2>5. \A n, v : ~Carries({}, n, v)
      BY DEF Carries
    <2>6. QED
      BY <2>1, <2>3, <2>4, <2>5
  <1>4. QED
    BY <1>1, <1>2, <1>3

\* filter_attribute_value_assertions
LEMMA RestrictionsHold ==
  ASSUME NEW set, NEW held, UnderWay(set, held), NEW f, NEW permitted, permitted = FilterValues(set, f)
  PROVE  /\ UnderWay(permitted, held)
         /\ \A n, v : Carries(permitted, n, v)
                        <=> /\ Carries(set, n, v) /\ n \in DOMAIN f
                            /\ f[n] # {} => v \in TextValues /\ v \in UNION f[n]
  <1> DEFINE cut(a) == [a EXCEPT !.values = IF f[LocalKey(a)] = {} THEN a.values
                                            ELSE a.values \intersect TextValues
                                                          \intersect UNION f[LocalKey(a)]]
             named == {a \in set : LocalKey(a) \in DOMAIN f}
             left == {b \in named : f[LocalKey(b)] = {} \/ cut(b).values # {}}
  <1>1. permitted = {cut(a) : a \in left}
    BY DEF FilterValues
  <1>2. ASSUME NEW a \in set
        PROVE  \E l \in held :
                 /\ Wired(cut(a), l.name) /\ cut(a).friendly = {l.name} /\ a.friendly = {l.name}
                 /\ LocalKey(a) = l.name
                 /\ \A v : v \in cut(a).values
                             <=> /\ v \in a.values
                                 /\ f[l.name] # {} => v \in TextValues /\ v \in UNION f[l.name]
    <2>1. PICK l \in held : Wired(a, l.name) /\ LocalKey(a) = l.name /\ a.friendly = {l.name}
      BY CarriedUnderOneName
    <2> DEFINE values == IF f[l.name] = {} THEN a.values
                         ELSE a.values \intersect TextValues \intersect UNION f[l.name]
    <2>2. cut(a) = [a EXCEPT !.values = values]
      BY <2>1
    <2>3. \A v : v \in values <=> /\ v \in a.values
                                  /\ f[l.name] # {} => v \in TextValues /\ v \in UNION f[l.name]
      OBVIOUS
    <2> HIDE DEF values, cut
    <2>4. Wired(cut(a), l.name) /\ cut(a).values = values
      BY <2>1, <2>2, Revalued
    <2>5. QED
      BY <2>1, <2>3, <2>4, WayBack
  <1>3. \A a \in left : a \in set /\ LocalKey(a) \in DOMAIN f
    OBVIOUS
  <1>4. \A a \in set : \A v : LocalKey(a) \in DOMAIN f /\ v \in cut(a).values => a \in left
    OBVIOUS
  <1> HIDE DEF cut, left, named
  <1>5. UnderWay(permitted, held)
    <2>1. \A a \in set : \E l \in held : Wired(cut(a), l.name)
      BY <1>2
    <2>2. \A b \in permitted : \E a \in set : b = cut(a)
      BY <1>1, <1>3
    <2>3. \A b \in permitted : \E l \in held : Wired(b, l.name)
      BY <2>1, <2>2
    <2>4. QED
      BY <2>3 DEF UnderWay
  <1>6. ASSUME NEW n, NEW v, Carries(permitted, n, v)
        PROVE  /\ Carries(set, n, v) /\ n \in DOMAIN f
               /\ f[n] # {} => v \in TextValues /\ v \in UNION f[n]
    <2>1. PICK a \in left : cut(a).friendly = {n} /\ v \in cut(a).values
      BY <1>1, <1>6 DEF Carries
    <2>2. a \in set /\ LocalKey(a) \in DOMAIN f
      BY <1>3
    <2>3. PICK l \in held :
            /\ cut(a).friendly = {l.name} /\ a.friendly = {l.name} /\ LocalKey(a) = l.name
            /\ \A w : w \in cut(a).values
                        <=> /\ w \in a.values
                            /\ f[l.name] # {} => w \in TextValues /\ w \in UNION f[l.name]
      BY <1>2, <2>2
    <2>4. l.name = n
      BY <2>1, <2>3
    <2>5. QED
      BY <2>1, <2>2, <2>3, <2>4 DEF Carries
  <1>7. ASSUME NEW n, NEW v, Carries(set, n, v), n \in DOMAIN f,
               f[n] # {} => v \in TextValues /\ v \in UNION f[n]
        PROVE  Carries(permitted, n, v)
    <2>1. PICK a \in set : a.friendly = {n} /\ v \in a.values
      BY <1>7 DEF Carries
    <2>2. PICK l \in held :
            /\ cut(a).friendly = {l.name} /\ a.friendly = {l.name} /\ LocalKey(a) = l.name
            /\ \A w : w \in cut(a).values
                        <=> /\ w \in a.values
                            /\ f[l.name] # {} => w \in TextValues /\ w \in UNION f[l.name]
      BY <1>2
    <2>3. l.name = n
      BY <2>1, <2>2
    <2>4. v \in cut(a).values /\ cut(a).friendly = {n} /\ LocalKey(a) = n
      BY <1>7, <2>1, <2>2, <2>3
    <2>5. a \in left
      BY <1>4, <1>7, <2>4
    <2>6. QED
      BY <1>1, <2>4, <2>5 DEF Carries
  <1>8. QED
    BY <1>5, <1>6, <1>7
\* A subject identifier that makes way for the pairwise one.
SetAside(s, n) ==
  n = "subject-id" /\ s.subjectReq = "any" /\ \E l \in s.held : l.name = "pairwise-id"

BothIdentifiers(set) ==
  \E a, b \in set : a.friendly = {"subject-id"} /\ b.friendly = {"pairwise-id"}

LEMMA OneIdentifierIsLeft ==
  ASSUME NEW set, NEW s, UnderWay(set, s.held), NEW left, left = PreferPairwise(set, s.subjectReq)
  PROVE  /\ UnderWay(left, s.held)
         /\ \A n, v : Carries(left, n, v) => Carries(set, n, v)
         /\ \A n, v : Carries(set, n, v) => Carries(left, n, v) \/ SetAside(s, n)
         /\ s.subjectReq = "any" => ~BothIdentifiers(left)
  <1> DEFINE of(key) == {a \in set : LocalKey(a) = key}
             chooses == s.subjectReq = "any" /\ of("pairwise-id") # {}
  <1>1. left = IF chooses THEN set \ of("subject-id") ELSE set
    BY DEF PreferPairwise
  <1>2. \A a \in set : \A n : a.friendly = {n} <=> LocalKey(a) = n
    BY CarriedUnderOneName
  <1>3. left \subseteq set
    BY <1>1
  <1>4. UnderWay(left, s.held)
    BY <1>3 DEF UnderWay
  <1>5. \A n, v : Carries(left, n, v) => Carries(set, n, v)
    BY <1>3 DEF Carries
  <1>6. chooses => \E l \in s.held : l.name = "pairwise-id"
    BY <1>2, CarriedUnderOneName
  <1>7. \A a \in set : a \in left \/ (chooses /\ LocalKey(a) = "subject-id")
    BY <1>1
  <1>8. \A n, v : Carries(set, n, v) => Carries(left, n, v) \/ SetAside(s, n)
    <2>1. SUFFICES ASSUME NEW n, NEW v, NEW a \in set, a.friendly = {n}, v \in a.values, a \notin left
                   PROVE  SetAside(s, n)
      BY DEF Carries
    <2>2. n = "subject-id" /\ chooses
      BY <1>2, <1>7, <2>1
    <2>3. QED
      BY <1>6, <2>2 DEF SetAside
  <1>9. ASSUME s.subjectReq = "any", BothIdentifiers(left) PROVE FALSE
    <2>1. PICK a, b \in left : a.friendly = {"subject-id"} /\ b.friendly = {"pairwise-id"}
      BY <1>9 DEF BothIdentifiers
    <2>2. LocalKey(a) = "subject-id" /\ LocalKey(b) = "pairwise-id" /\ a \in set /\ b \in set
      BY <1>2, <1>3, <2>1
    <2>3. a \in of("subject-id") /\ chooses
      BY <1>9, <2>2
    <2>4. QED
      BY <1>1, <2>1, <2>3
  <1>10. QED
    BY <1>4, <1>5, <1>8, <1>9

\* What a policy of a chain lets pass is what it entitles to.
LEMMA FilterEntitles ==
  ASSUME NEW s \in Situations, NEW k \in DOMAIN s.chain, NEW set, UnderWay(set, s.held),
         NEW result \in Filter(s.chain[k], set, s)
  PROVE  /\ UnderWay(result, s.held)
         /\ \A n, v : Carries(result, n, v) => Carries(set, n, v) /\ Entitled(s.chain[k], n, v, s)
         /\ \A n, v : Carries(set, n, v) /\ Entitled(s.chain[k], n, v, s)
                        => Carries(result, n, v) \/ SetAside(s, n)
         /\ s.subjectReq = "any" => ~BothIdentifiers(result)
  <1> DEFINE policy == s.chain[k]
             restrictions == Knob(policy, s.sp, "restrictions")
             chosen == Chosen(policy, set, s)
             restricted == IF restrictions = {} THEN chosen
                           ELSE UNION {FilterValues(chosen, f) : f \in restrictions}
             allowed(n, v) == \A f \in restrictions :
                                n \in DOMAIN f /\ (f[n] # {} => v \in TextValues /\ v \in UNION f[n])
  <1>1. /\ \A rules \in Knob(policy, s.sp, "categories") : \A rule \in rules : YieldsToStricter(rule)
        /\ \A f, g \in restrictions : f = g
        /\ \A r \in s.required \union s.optional : MeansOne(policy, s.held, r)
    BY SituationsAssumption
  <1>2. result = PreferPairwise(restricted, s.subjectReq)
    BY DEF Filter
  <1>3. /\ UnderWay(chosen, s.held)
        /\ \A n, v : Carries(chosen, n, v) <=> Carries(set, n, v) /\ Covered(policy, n, v, s)
    BY <1>1, CoveredIsChosen
  <1>4. \A n, v : Entitled(policy, n, v, s) <=> Covered(policy, n, v, s) /\ allowed(n, v)
    BY DEF Entitled, Covered, ByCategory
  <1> HIDE DEF policy, restrictions, chosen
  <1>5. /\ UnderWay(restricted, s.held)
        /\ \A n, v : Carries(restricted, n, v) <=> Carries(chosen, n, v) /\ allowed(n, v)
    <2>1. CASE restrictions = {}
      BY <1>3, <2>1
    <2>2. CASE restrictions # {}
      <3>1. PICK f \in restrictions : restrictions = {f}
        BY <1>1, <2>2
      <3>2. restricted = FilterValues(chosen, f)
        BY <2>2, <3>1
      <3>3. \A n, v : allowed(n, v) <=> n \in DOMAIN f /\ (f[n] # {} => v \in TextValues /\ v \in UNION f[n])
        BY <3>1
      <3> HIDE DEF restricted, allowed
      <3>4. QED
        BY <1>3, <3>2, <3>3, RestrictionsHold
    <2>3. QED
      BY <2>1, <2>2
  <1> HIDE DEF restricted, allowed
  <1>6. /\ UnderWay(result, s.held)
        /\ \A n, v : Carries(result, n, v) => Carries(restricted, n, v)
        /\ \A n, v : Carries(restricted, n, v) => Carries(result, n, v) \/ SetAside(s, n)
        /\ s.subjectReq = "any" => ~BothIdentifiers(result)
    BY <1>2, <1>5, OneIdentifierIsLeft
  <1>7. \A n, v : Carries(restricted, n, v) <=> Carries(set, n, v) /\ Entitled(policy, n, v, s)
    BY <1>3, <1>4, <1>5
  <1>8. QED
    BY <1>6, <1>7 DEF policy

-----------------------------------------------------------------------------

\* What a service provider is due after the first policies of the chain.
DueAfter(s, k, n, v) ==
  /\ \E l \in s.held : l.name = n /\ v \in l.values
  /\ \A j \in DOMAIN s.chain : j < k => Entitled(s.chain[j], n, v, s)

EntitledSoFar ==
  /\ UnderWay(attributes, situation.held)
  /\ \A n, v : Carries(attributes, n, v) => DueAfter(situation, stage, n, v)
  /\ \A n, v : DueAfter(situation, stage, n, v) => Carries(attributes, n, v) \/ SetAside(situation, n)
  /\ situation.subjectReq = "any" /\ stage > 1 => ~BothIdentifiers(attributes)

ReleaseInv ==
  /\ situation \in Situations /\ stage \in Nat /\ verdict \in {"open", "denied", "delivered"}
  /\ stage = 0 => verdict = "open" /\ attributes = situation.held
  /\ verdict = "open" /\ stage > 0 => EntitledSoFar
  /\ ReleasedIsEntitled
\* Expressed on the wire, every held value is under way.
LEMMA ExpressKeeps == ASSUME ReleaseInv, Express PROVE ReleaseInv'
  <1> DEFINE s == situation
             wire(l) == UNION {Lookup1([c \in ConverterFor(Converters, UriFormat) |-> c.to][d], l.name) :
                                 d \in ConverterFor(Converters, UriFormat)}
             made(l) == {Attribute(w, {UriFormat}, {l.name}, l.values) : w \in WireNames(l.name)}
  <1>1. /\ s \in Situations /\ s' = s /\ stage' = 1 /\ verdict' = "open"
        /\ attributes' = FromLocal(Converters, FALSE, s.held, UriFormat)
    BY DEF ReleaseInv, Express
  <1>2. ASSUME NEW l \in s.held
        PROVE  wire(l) = WireNames(l.name) /\ \E w : WireNames(l.name) = {w}
    <2>1. PICK i \in DOMAIN Converters : ConverterFor(Converters, UriFormat) = {Converters[i]}
      BY ConvertersAssumption
    <2>2. WireNames(l.name) = Lookup1(Converters[i].to, l.name) /\ wire(l) = Lookup1(Converters[i].to, l.name)
      BY <2>1 DEF WireNames
    <2>3. WireNames(l.name) # {}
      BY <1>1, SituationsAssumption
    <2>4. QED
      BY <2>2, <2>3 DEF Lookup1
  <1>3. attributes' = UNION {IF wire(l) # {} THEN {Attribute(w, {UriFormat}, {l.name}, l.values) : w \in wire(l)}
                             ELSE {} : l \in s.held}
    BY <1>1 DEF FromLocal
  <1> HIDE DEF wire
  <1>4. \A a : a \in attributes' <=> \E l \in s.held : a \in made(l)
    <2>1. \A l \in s.held : wire(l) = WireNames(l.name) /\ wire(l) # {}
      BY <1>2
    <2>2. \A l \in s.held :
            (IF wire(l) # {} THEN {Attribute(w, {UriFormat}, {l.name}, l.values) : w \in wire(l)} ELSE {}) = made(l)
      BY <2>1
    <2> HIDE DEF made
    <2>3. QED
      BY <1>3, <2>2
  <1>5. ASSUME NEW l \in s.held
        PROVE  /\ \A a \in made(l) : Wired(a, l.name) /\ a.friendly = {l.name} /\ a.values = l.values
               /\ made(l) # {}
    <2>1. PICK w : WireNames(l.name) = {w}
      BY <1>2
    <2>2. made(l) = {Attribute(w, {UriFormat}, {l.name}, l.values)}
      BY <2>1
    <2> DEFINE one == Attribute(w, {UriFormat}, {l.name}, l.values)
    <2>3. one.name = w /\ one.friendly = {l.name} /\ one.values = l.values
      BY DEF Attribute
    <2>4. Wired(one, l.name)
      BY <2>1, <2>3 DEF Wired
    <2> HIDE DEF one
    <2>5. made(l) = {one}
      BY <2>2 DEF one
    <2>6. QED
      BY <2>3, <2>4, <2>5
  <1> HIDE DEF made
  <1>6. UnderWay(attributes', s.held)
    BY <1>4, <1>5 DEF UnderWay
  <1>7. ASSUME NEW n, NEW v
        PROVE  Carries(attributes', n, v) <=> \E l \in s.held : l.name = n /\ v \in l.values
    <2>1. ASSUME Carries(attributes', n, v) PROVE \E l \in s.held : l.name = n /\ v \in l.values
      <3>1. PICK a \in attributes' : a.friendly = {n} /\ v \in a.values
        BY <2>1 DEF Carries
      <3>2. PICK l \in s.held : a \in made(l)
        BY <1>4
      <3>3. a.friendly = {l.name} /\ a.values = l.values
        BY <1>5, <3>2
      <3>4. QED
        BY <3>1, <3>3
    <2>2. ASSUME NEW l \in s.held, l.name = n, v \in l.values PROVE Carries(attributes', n, v)
      <3>1. PICK a \in made(l) : a.friendly = {l.name} /\ a.values = l.values
        BY <1>5
      <3>2. QED
        BY <1>4, <2>2, <3>1 DEF Carries
    <2>3. QED
      BY <2>1, <2>2
  <1>8. \A j \in DOMAIN s.chain : ~(j < 1)
    BY <1>1, SituationsAssumption
  <1>9. \A n, v : DueAfter(s, 1, n, v) <=> \E l \in s.held : l.name = n /\ v \in l.values
    BY <1>8 DEF DueAfter
  <1> DEFINE after == attributes'
  <1>10. \A n, v : Carries(after, n, v) <=> DueAfter(s, 1, n, v)
    BY <1>7, <1>9
  <1>11. UnderWay(after, s.held) /\ ~(1 > 1)
    BY <1>6
  <1> HIDE DEF after
  <1>12. EntitledSoFar'
    BY <1>1, <1>10, <1>11 DEF EntitledSoFar, after
  <1>13. QED
    BY <1>1, <1>12 DEF ReleaseInv, ReleasedIsEntitled

LEMMA ReleaseKeeps == ASSUME ReleaseInv, Release PROVE ReleaseInv'
  <1> DEFINE s == situation
             outcome == Filter(s.chain[stage], attributes, s)
  <1>1. /\ stage \in DOMAIN s.chain /\ verdict = "open" /\ s \in Situations /\ s' = s
    BY DEF Release, ReleaseInv, Deny
  <1>2. stage \in Nat /\ stage > 0
    BY <1>1, SituationsAssumption
  <1>3. CASE Deny
    BY <1>1, <1>2, <1>3 DEF Deny, ReleaseInv, ReleasedIsEntitled
  <1>4. CASE attributes' \in outcome /\ stage' = stage + 1 /\ UNCHANGED <<situation, verdict>>
    <2>1. EntitledSoFar
      BY <1>1, <1>2 DEF ReleaseInv
    <2> DEFINE before == attributes
               after == attributes'
    <2>2. /\ UnderWay(before, s.held)
          /\ \A n, v : Carries(before, n, v) => DueAfter(s, stage, n, v)
          /\ \A n, v : DueAfter(s, stage, n, v) => Carries(before, n, v) \/ SetAside(s, n)
      BY <2>1 DEF EntitledSoFar
    <2>3. after \in Filter(s.chain[stage], before, s)
      BY <1>4
    <2> HIDE DEF before, after, outcome
    <2>4. /\ UnderWay(after, s.held)
          /\ \A n, v : Carries(after, n, v) => Carries(before, n, v) /\ Entitled(s.chain[stage], n, v, s)
          /\ \A n, v : Carries(before, n, v) /\ Entitled(s.chain[stage], n, v, s)
                         => Carries(after, n, v) \/ SetAside(s, n)
          /\ s.subjectReq = "any" => ~BothIdentifiers(after)
      BY <1>1, <2>2, <2>3, FilterEntitles
    <2>5. \A n, v : DueAfter(s, stage + 1, n, v)
                      <=> DueAfter(s, stage, n, v) /\ Entitled(s.chain[stage], n, v, s)
      <3>1. \A j \in DOMAIN s.chain : j < stage + 1 <=> j < stage \/ j = stage
        BY <1>1, <1>2, SituationsAssumption
      <3>2. QED
        BY <1>1, <3>1 DEF DueAfter
    <2>6. /\ \A n, v : Carries(after, n, v) => DueAfter(s, stage + 1, n, v)
          /\ \A n, v : DueAfter(s, stage + 1, n, v) => Carries(after, n, v) \/ SetAside(s, n)
      BY <2>2, <2>4, <2>5
    <2>7. EntitledSoFar'
      BY <1>4, <2>4, <2>6 DEF EntitledSoFar, after
    <2>8. QED
      BY <1>1, <1>2, <1>4, <2>7 DEF ReleaseInv, ReleasedIsEntitled
  <1>5. QED
    BY <1>3, <1>4 DEF Release

\* What the service provider makes of the attributes is what they carry.
LEMMA ReadAsCarried ==
  ASSUME NEW set, NEW held, UnderWay(set, held), NEW read, read = ToLocal(Converters, FALSE, set)
  PROVE  \A n, v : (\E a \in read : a.name = n /\ v \in a.values) <=> Carries(set, n, v)
  <1> DEFINE name(a) == LET local == LocalName(Converters, a)
                        IN IF local = {} /\ FALSE THEN {a.name} ELSE local
             names == UNION {name(a) : a \in set}
             entry(n) == [name |-> n, values |-> UNION {a.values : a \in {b \in set : n \in name(b)}}]
  <1>1. read = {entry(n) : n \in names}
    BY DEF ToLocal
  <1>2. \A a \in set : \A n : n \in name(a) <=> a.friendly = {n}
    <2>1. \A a \in set : \E l \in held : LocalName(Converters, a) = {l.name} /\ a.friendly = {l.name}
      BY WayBack DEF UnderWay
    <2>2. \A a : name(a) = LocalName(Converters, a)
      OBVIOUS
    <2> HIDE DEF name
    <2>3. QED
      BY <2>1, <2>2
  <1>3. \A n, v : v \in entry(n).values <=> \E a \in set : n \in name(a) /\ v \in a.values
    OBVIOUS
  <1>4. \A n : entry(n).name = n
    OBVIOUS
  <1>5. \A n : n \in names <=> \E a \in set : n \in name(a)
    OBVIOUS
  <1> HIDE DEF name, names, entry
  <1>6. \A n, v : Carries(set, n, v) <=> v \in entry(n).values
    BY <1>2, <1>3 DEF Carries
  <1>7. \A n, v : v \in entry(n).values => n \in names
    BY <1>3, <1>5
  <1>8. QED
    BY <1>1, <1>4, <1>6, <1>7

LEMMA DeliverKeeps == ASSUME ReleaseInv, Deliver PROVE ReleaseInv'
  <1> DEFINE s == situation
  <1>1. /\ stage = Len(s.chain) + 1 /\ verdict = "open" /\ s \in Situations /\ s' = s
        /\ UNCHANGED stage
    BY DEF Deliver, ReleaseInv, Deny
  <1>2. Len(s.chain) \in Nat /\ DOMAIN s.chain = 1..Len(s.chain) /\ stage > 0
    BY <1>1, SituationsAssumption
  <1>3. CASE Deny
    BY <1>1, <1>2, <1>3 DEF Deny, ReleaseInv, ReleasedIsEntitled
  <1>4. CASE verdict' = "delivered" /\ attributes' = ToLocal(Converters, FALSE, attributes)
    <2>1. EntitledSoFar
      BY <1>1, <1>2 DEF ReleaseInv
    <2> DEFINE has(n, v) == Read(n, v)'
               due(n, v) == Due(n, v)'
    <2>2. \A n, v : has(n, v) <=> Carries(attributes, n, v)
      <3>1. UnderWay(attributes, s.held)
        BY <2>1 DEF EntitledSoFar
      <3> DEFINE read == ToLocal(Converters, FALSE, attributes)
      <3>2. \A n, v : (\E a \in read : a.name = n /\ v \in a.values) <=> Carries(attributes, n, v)
        BY <3>1, ReadAsCarried
      <3>3. attributes' = read
        BY <1>4
      <3> HIDE DEF read
      <3>4. \A n, v : has(n, v) <=> \E a \in read : a.name = n /\ v \in a.values
        BY <3>3 DEF Read
      <3> HIDE DEF has
      <3>5. QED
        BY <3>2, <3>4
    <2>3. \A n, v : due(n, v) <=> DueAfter(s, stage, n, v)
      <3>1. \A k \in DOMAIN s.chain : k < stage
        BY <1>1, <1>2
      <3>2. QED
        BY <1>1, <3>1 DEF DueAfter, Due
    <2>4. s.subjectReq = "any" /\ Len(s.chain) > 0 => ~BothIdentifiers(attributes)
      BY <1>1, <1>2, <2>1 DEF EntitledSoFar
    <2>5. \A n, v, w : Carries(attributes, "subject-id", v) /\ Carries(attributes, "pairwise-id", w)
                         => BothIdentifiers(attributes)
      BY DEF Carries, BothIdentifiers
    <2> HIDE DEF has, due
    <2>6. /\ \A n, v : has(n, v) => due(n, v)
          /\ \A n, v : due(n, v) => has(n, v) \/ SetAside(s, n)
      BY <2>1, <2>2, <2>3 DEF EntitledSoFar
    <2>7. s.subjectReq = "any" /\ Len(s.chain) > 0 =>
            ~\E v, w : has("subject-id", v) /\ has("pairwise-id", w)
      BY <2>2, <2>4, <2>5
    <2>8. ReleasedIsEntitled'
      <3> DEFINE names == {l.name : l \in situation.held \union attributes}
                 values == UNION {l.values : l \in situation.held \union attributes}
                 pairwise == \E l \in situation.held : l.name = "pairwise-id"
                 wantsOne == situation.subjectReq = "any"
      <3>1. situation' = situation
        BY <1>1
      <3>2. \A n, v : Read(n, v)' => Due(n, v)'
        BY <2>6 DEF has, due
      <3>3. \A n, v : Due(n, v)' => Read(n, v)' \/ (n = "subject-id" /\ wantsOne' /\ pairwise')
        BY <2>6, <3>1 DEF has, due, SetAside
      <3>4. (wantsOne /\ Len(situation.chain) > 0)' => ~\E v, w : Read("subject-id", v)' /\ Read("pairwise-id", w)'
        BY <2>7, <3>1 DEF has
      <3>5. ReleasedIsEntitled' = (verdict = "delivered" =>
              /\ \A n \in names, v \in values :
                   /\ Read(n, v) => Due(n, v)
                   /\ Due(n, v) => Read(n, v) \/ (n = "subject-id" /\ wantsOne /\ pairwise)
              /\ wantsOne /\ Len(situation.chain) > 0 =>
                   ~\E v, w \in values : Read("subject-id", v) /\ Read("pairwise-id", w))'
        BY Zenon DEF ReleasedIsEntitled
      <3> HIDE DEF names, values, pairwise, wantsOne
      <3>6. QED
        BY <3>2, <3>3, <3>4, <3>5
    <2>9. QED
      BY <1>1, <1>2, <1>4, <2>8 DEF ReleaseInv
  <1>5. QED
    BY <1>3, <1>4 DEF Deliver

\* A service provider ends up with exactly what every policy of the chain entitles
\* it to, under the application's names: for any chains, restrictions, requests and
\* attribute maps of which the assumptions hold, and any category rules that yield
\* to the stricter access categories.
THEOREM ReleasesAreEntitled == ReleaseSpec => []ReleasedIsEntitled
  <1>1. ReleaseInit => ReleaseInv
    BY DEF ReleaseInit, ReleaseInv, ReleasedIsEntitled
  <1>2. ReleaseInv /\ [ReleaseNext]_releaseVars => ReleaseInv'
    <2>1. SUFFICES ASSUME ReleaseInv, [ReleaseNext]_releaseVars PROVE ReleaseInv'
      OBVIOUS
    <2>2. CASE Express
      BY <2>1, <2>2, ExpressKeeps
    <2>3. CASE Release
      BY <2>1, <2>3, ReleaseKeeps
    <2>4. CASE Deliver
      BY <2>1, <2>4, DeliverKeeps
    <2>5. CASE UNCHANGED releaseVars
      <3>1. EntitledSoFar' <=> EntitledSoFar
        BY <2>5 DEF releaseVars, EntitledSoFar
      <3>2. ReleasedIsEntitled' <=> ReleasedIsEntitled
        BY <2>5 DEF releaseVars, ReleasedIsEntitled, Read, Due
      <3>3. QED
        BY <2>1, <2>5, <3>1, <3>2 DEF releaseVars, ReleaseInv
    <2>6. QED
      BY <2>1, <2>2, <2>3, <2>4, <2>5 DEF ReleaseNext
  <1>3. ReleaseInv => ReleasedIsEntitled
    BY DEF ReleaseInv
  <1>4. QED
    BY <1>1, <1>2, <1>3, PTL DEF ReleaseSpec
\* The rules of every shipped policy yield as they should.
THEOREM ShippedRulesYield ==
  \A rule \in EduGain \union Refeds \union InCommon \union Swamid \union AtEgovPvp2 : YieldsToStricter(rule)
  <1>1. DOMAIN AccessRank = {"anonymous", "pseudonymous", "personalized"}
    BY DEF AccessRank
  <1>2. AccessRank["anonymous"] = 1 /\ AccessRank["pseudonymous"] = 2 /\ AccessRank["personalized"] = 3
    BY DEF AccessRank
  <1>3. ASSUME NEW rule, rule.conflicts = {}, rule.categories \intersect DOMAIN AccessRank = {}
        PROVE  YieldsToStricter(rule)
    BY <1>3 DEF YieldsToStricter
  <1>4. ASSUME NEW categories, NEW attrs, categories \intersect {"anonymous", "pseudonymous", "personalized"} = {}
        PROVE  /\ YieldsToStricter(Rule(categories, attrs))
               /\ YieldsToStricter(OnlyRequired(Rule(categories, attrs)))
    BY <1>1, <1>3, <1>4 DEF Rule, OnlyRequired
  <1>5. \A rule \in RefedsAccess : YieldsToStricter(rule)
    <2> DEFINE personalized == [Rule({"personalized"},
                                     {"subject-id", "mail", "displayName", "givenName", "sn",
                                      "eduPersonScopedAffiliation", "eduPersonAssurance", "schacHomeOrganization"})
                                  EXCEPT !.conflicts = {"pseudonymous", "anonymous"}]
               pseudonymous == [Rule({"pseudonymous"},
                                     {"pairwise-id", "eduPersonScopedAffiliation", "eduPersonAssurance",
                                      "schacHomeOrganization"})
                                  EXCEPT !.conflicts = {"anonymous"}]
               anonymous == Rule({"anonymous"}, {"eduPersonScopedAffiliation", "schacHomeOrganization"})
    <2>1. RefedsAccess = {personalized, pseudonymous, anonymous}
      BY DEF RefedsAccess
    <2>2. /\ personalized.categories = {"personalized"}
          /\ personalized.conflicts = {"pseudonymous", "anonymous"}
          /\ pseudonymous.categories = {"pseudonymous"} /\ pseudonymous.conflicts = {"anonymous"}
          /\ anonymous.categories = {"anonymous"} /\ anonymous.conflicts = {}
      BY DEF Rule
    <2> HIDE DEF personalized, pseudonymous, anonymous
    <2>3. YieldsToStricter(personalized)
      BY <1>1, <1>2, <2>2 DEF YieldsToStricter
    <2>4. YieldsToStricter(pseudonymous)
      BY <1>1, <1>2, <2>2 DEF YieldsToStricter
    <2>5. YieldsToStricter(anonymous)
      BY <1>1, <1>2, <2>2 DEF YieldsToStricter
    <2>6. QED
      BY <2>1, <2>3, <2>4, <2>5
  <1>6. \A rule \in EduGain \union Refeds \union InCommon \union AtEgovPvp2 : YieldsToStricter(rule)
    BY <1>4 DEF EduGain, Refeds, InCommon, AtEgovPvp2, AlwaysTargetedId
  <1>7. ASSUME NEW rule \in Swamid PROVE YieldsToStricter(rule)
    <2>1. \A x \in SwamidConduct("coco-v1") \union SwamidConduct("coco-v2") : YieldsToStricter(x)
      BY <1>4 DEF SwamidConduct
    <2>2. \A x \in Swamid \ (SwamidConduct("coco-v1") \union SwamidConduct("coco-v2") \union RefedsAccess) :
            YieldsToStricter(x)
      BY <1>4 DEF Swamid, SwamidService
    <2>3. QED
      BY <1>5, <2>1, <2>2
  <1>8. QED
    BY <1>6, <1>7
==============================================================================
