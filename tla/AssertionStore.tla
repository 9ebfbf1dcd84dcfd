--------------------------- MODULE AssertionStore ---------------------------
(***************************************************************************)
(* The store of issued assertions and the queries that are answered from it *)
(* (crates/gamlastan/src/idp/assertion_store.rs), with the asker's side     *)
(* (profiles/assertion_query.rs).  The in-memory store keeps an index of    *)
(* subjects beside the assertions; both change under one lock.  An ID       *)
(* request takes the lock once per reference, so that the application may   *)
(* store and remove between two lookups of one answer.                      *)
(*                                                                          *)
(* An assertion is a record [id, subject, from, until, statements]; its     *)
(* subject is a NameID value, or Absent if it has none or an encrypted one, *)
(* and a statement is a record [session, class, until].                     *)
(***************************************************************************)
EXTENDS Integers, Sequences, FiniteSets

CONSTANTS
  Absent,
  Assertions,      \* what the application may store
  Queries,         \* what may be asked
  FaultyLookups,   \* whether the store may be a broken one of the application's
  StoreEnd,        \* bound of the clock
  MaxQueries,      \* bound: queries sent
  MaxResponses     \* bound: answers in circulation

VARIABLES
  byId,        \* State.by_id
  bySubject,   \* State.by_subject, each list as a set: it has no duplicates
  storeNow,
  queries,     \* queries[n] is the n-th query; n is its ID
  answering,   \* the ID requests being answered: what was got so far, and, as
               \* history, every assertion on record since the answer was begun
  responses,   \* in circulation; "held" records what the store should answer from
  learnt       \* history: what the asker took from a response, by query

storeVars == <<byId, bySubject, storeNow, queries, answering, responses, learnt>>

AssertionIds == {a.id : a \in Assertions}
Subjects == {a.subject : a \in Assertions} \ {Absent}
OnRecord == {byId[id] : id \in DOMAIN byId}

StoreTypeOK ==
  /\ DOMAIN byId \subseteq AssertionIds
  /\ \A id \in DOMAIN byId : byId[id] \in Assertions /\ byId[id].id = id
  /\ DOMAIN bySubject \subseteq Subjects
  /\ \A s \in DOMAIN bySubject : bySubject[s] \subseteq AssertionIds

StoreInit ==
  /\ byId = << >> /\ bySubject = << >> /\ storeNow = 0
  /\ queries = << >> /\ answering = << >> /\ responses = {} /\ learnt = {}

-----------------------------------------------------------------------------
(* InMemoryAssertionStore.                                                  *)

Entry(index, s) == IF s \in DOMAIN index THEN index[s] ELSE {}

\* unindex: a subject without assertions leaves the index.
Unindexed(index, s, id) ==
  LET left == Entry(index, s) \ {id}
      kept == IF left = {} THEN DOMAIN index \ {s} ELSE DOMAIN index
  IN [t \in kept |-> IF t = s THEN left ELSE index[t]]

Indexed(index, s, id) ==
  [t \in DOMAIN index \union {s} |-> IF t = s THEN Entry(index, s) \union {id} ELSE index[t]]

\* The index when the assertion stored under id, if any, is gone.
IndexKept(id) == bySubject

IndexWithout(id) ==
  IF id \in DOMAIN byId THEN Unindexed(bySubject, byId[id].subject, id) ELSE bySubject

StoreAssertion(a) ==
  /\ byId' = [id \in DOMAIN byId \union {a.id} |-> IF id = a.id THEN a ELSE byId[id]]
  /\ bySubject' = IF a.subject = Absent THEN IndexWithout(a.id)
                  ELSE Indexed(IndexWithout(a.id), a.subject, a.id)
  /\ answering' = [n \in DOMAIN answering |->
                     [answering[n] EXCEPT !.seen = @ \union {a}]]
  /\ UNCHANGED <<storeNow, queries, responses, learnt>>

RemoveAssertion(id) ==
  /\ byId' = [i \in DOMAIN byId \ {id} |-> byId[i]]
  /\ bySubject' = IndexWithout(id)
  /\ UNCHANGED <<storeNow, queries, answering, responses, learnt>>

AssertionsForSubject(s) == {byId[id] : id \in Entry(bySubject, s) \intersect DOMAIN byId}

-----------------------------------------------------------------------------
(* The identity provider answers.                                           *)

Respond(n, success, assertions, held) ==
  /\ Cardinality(responses) < MaxResponses
  /\ responses' = responses \union
       {[irt |-> n, success |-> success, assertions |-> assertions, at |-> storeNow,
         held |-> held]}

InForce(a) == (a.from # Absent => storeNow >= a.from) /\ a.until # Absent /\ storeNow < a.until

Matches(t, q) ==
  /\ t.until # Absent => storeNow < t.until
  /\ q.session # Absent => t.session = q.session
  /\ q.classes # {} => t.class \in q.classes

\* get_authn_statements, from what the store found.  A store that finds an
\* assertion of another subject is an error and is not answered.
Statements(found, q) ==
  {t \in UNION {a.statements : a \in {b \in found : InForce(b)}} : Matches(t, q)}

Attributable(found, s) == \A a \in found : a.subject = s

\* create_authn_query_response.
AnswerAuthnQuery(n) ==
  /\ queries[n].kind = "authn"
  /\ \E found \in {AssertionsForSubject(queries[n].subject)}
                    \union (IF FaultyLookups THEN {OnRecord} ELSE {}) :
       LET s == queries[n].subject
           statements == Statements(found, queries[n])
       IN IF s = Absent THEN Respond(n, FALSE, << >>, OnRecord)
          ELSE /\ Attributable(found, s)
               /\ IF statements = {} THEN Respond(n, FALSE, << >>, OnRecord)
                  ELSE Respond(n, TRUE, <<[id |-> Absent, subject |-> s, from |-> Absent,
                                           until |-> Absent, statements |-> statements]>>,
                               OnRecord)
  /\ UNCHANGED <<byId, bySubject, storeNow, queries, answering, learnt>>

\* create_assertion_id_request_response, cut where it asks the store: one call
\* of get_assertion for each reference.  The bound admits no answer to begin
\* that could not be given.
BeginIdAnswer(n) ==
  /\ Cardinality(responses) + Cardinality(DOMAIN answering) < MaxResponses
  /\ queries[n].kind = "ids" /\ n \notin DOMAIN answering
  /\ answering' = [m \in DOMAIN answering \union {n} |->
                     IF m = n THEN [got |-> << >>, seen |-> OnRecord] ELSE answering[m]]
  /\ UNCHANGED <<byId, bySubject, storeNow, queries, responses, learnt>>

\* get_assertion, as a set of none or one; a faulty store may return any.
Lookups(ref) ==
  {{byId[id] : id \in DOMAIN byId \intersect {ref}}}
    \union (IF FaultyLookups THEN {{a} : a \in OnRecord} ELSE {})

AnyAssertion(a, ref) == TRUE
AskedFor(a, ref) == a.id = ref

EndIdAnswer(n) == answering' = [m \in DOMAIN answering \ {n} |-> answering[m]]

\* An unknown reference is an error for all.  A store that returns another
\* assertion is an error and the request is not answered.
LookUpReference(n) ==
  /\ n \in DOMAIN answering
  /\ Len(answering[n].got) < Len(queries[n].refs)
  /\ LET ref == queries[n].refs[Len(answering[n].got) + 1]
     IN \E found \in Lookups(ref) :
          \/ /\ found = {}
             /\ Respond(n, FALSE, << >>, answering[n].seen)
             /\ EndIdAnswer(n)
          \/ /\ \E a \in found : AskedFor(a, ref)
                                   /\ answering' = [answering EXCEPT ![n].got = Append(@, a)]
             /\ UNCHANGED responses
          \/ /\ \E a \in found : ~AskedFor(a, ref)
             /\ EndIdAnswer(n)
             /\ UNCHANGED responses
  /\ UNCHANGED <<byId, bySubject, storeNow, queries, learnt>>

AnswerIdRequest(n) ==
  /\ n \in DOMAIN answering
  /\ Len(answering[n].got) = Len(queries[n].refs)
  /\ Respond(n, TRUE, answering[n].got, answering[n].seen)
  /\ EndIdAnswer(n)
  /\ UNCHANGED <<byId, bySubject, storeNow, queries, learnt>>

-----------------------------------------------------------------------------
(* The asker.                                                               *)

Ask(q) ==
  /\ Len(queries) < MaxQueries
  /\ queries' = Append(queries, q)
  /\ UNCHANGED <<byId, bySubject, storeNow, answering, responses, learnt>>

AnswersAny(r, n) == r.success

\* process_query_response, for the query n that is outstanding.
Answers(r, n) == r.irt = n /\ r.success

Learn(n) ==
  /\ \E r \in responses :
       Answers(r, n) /\ learnt' = learnt \union {[query |-> n, assertions |-> r.assertions]}
  /\ UNCHANGED <<byId, bySubject, storeNow, queries, answering, responses>>

PassTime ==
  /\ storeNow < StoreEnd /\ storeNow' = storeNow + 1
  /\ UNCHANGED <<byId, bySubject, queries, answering, responses, learnt>>

StoreNext ==
  \/ \E a \in Assertions : StoreAssertion(a)
  \/ \E id \in AssertionIds : RemoveAssertion(id)
  \/ \E q \in Queries : Ask(q)
  \/ \E n \in DOMAIN queries :
       \/ AnswerAuthnQuery(n)
       \/ BeginIdAnswer(n) \/ LookUpReference(n) \/ AnswerIdRequest(n)
       \/ Learn(n)
  \/ PassTime

StoreSpec == StoreInit /\ [][StoreNext]_storeVars

-----------------------------------------------------------------------------

\* The index lists an assertion under its subject and nowhere else, and no
\* subject without assertions, whatever was stored again for another subject.
IndexIsExact ==
  /\ DOMAIN bySubject = {byId[id].subject : id \in DOMAIN byId} \ {Absent}
  /\ \A s \in DOMAIN bySubject : bySubject[s] = {id \in DOMAIN byId : byId[id].subject = s}

\* Whoever asks learns what was on record.  The answer to an ID request holds
\* one assertion per reference, in its order, each stored under that very ID at
\* some moment while the request was answered; together they need not have been
\* on record at any one moment.  The statements of an authn query are those of
\* the subject's assertions in force when it was answered, all and no others.
WhatIsLearntIsOnRecord ==
  \A l \in learnt :
    LET q == queries[l.query]
        learned == {l.assertions[i] : i \in DOMAIN l.assertions}
    IN \E r \in responses :
         /\ r.irt = l.query
         /\ IF q.kind = "ids"
            THEN /\ Len(l.assertions) = Len(q.refs)
                 /\ \A i \in DOMAIN l.assertions :
                      l.assertions[i] \in r.held /\ l.assertions[i].id = q.refs[i]
            ELSE /\ \A a \in learned : a.subject = q.subject
                 /\ UNION {a.statements : a \in learned} =
                      {t \in UNION {a.statements : a \in
                               {b \in r.held : /\ b.subject = q.subject
                                               /\ (b.from = Absent \/ b.from <= r.at)
                                               /\ b.until # Absent /\ r.at < b.until}} :
                         /\ (t.until = Absent \/ r.at < t.until)
                         /\ q.session \in {Absent, t.session}
                         /\ (q.classes = {} \/ t.class \in q.classes)}
=============================================================================
