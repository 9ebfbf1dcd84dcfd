---------------------------- MODULE IdpSloProofs ----------------------------
(***************************************************************************)
(* Proofs about single logout at the identity provider, for any sessions,   *)
(* service providers, requests and handlers, and any windows, skew and age. *)
(***************************************************************************)
EXTENDS IdpSlo, TLAPS

SloTyped ==
  /\ StoreTypeOK
  /\ requests \subseteq Request
  /\ pc \in [Handlers -> {"idle", "stamped", "accepted"}]
  /\ DOMAIN job = {h \in Handlers : pc[h] # "idle"}
  /\ \A h \in DOMAIN job : job[h] \in Job
  /\ answers \in Seq(Answer)

\* The participations in the store.
Present == UNION {sessions[i].participants : i \in DOMAIN sessions}

\* joined is one participation's alone.
JoinsInv ==
  /\ \A p \in Present : p.joined <= joins
  /\ \A p, q \in Present : p.joined = q.joined => p = q

\* What an accepted request matched is matched still, if it is there.
FoundInv ==
  \A h \in DOMAIN job :
    /\ job[h].request.fault = "none"
    /\ pc[h] = "accepted" =>
         \A x \in job[h].found :
           /\ x.joined <= joins
           /\ \A p \in Present : p.joined = x.joined => Names(job[h].request, p)

\* What an answered request matched is gone.
GoneInv ==
  \A k \in DOMAIN answers : \A x \in answers[k].found :
    x.joined <= joins /\ \A p \in Present : p.joined # x.joined

LogoutInv == SloTyped /\ JoinsInv /\ FoundInv /\ GoneInv /\ LogoutIsAuthorized

-----------------------------------------------------------------------------
(* The sessions and the handlers.                                           *)

\* The application, or the clock, adds one participation at most, which it
\* counts, and changes none.
LEMMA ManagingAddsOne ==
  ASSUME StoreTypeOK, Manage \/ Elapse
  PROVE  /\ StoreTypeOK'
         /\ \/ joins' = joins /\ Present' \subseteq Present
            \/ \E p \in Participant : /\ joins' = joins + 1 /\ p.joined = joins + 1
                                      /\ Present' \subseteq Present \union {p}
  <1>1. ASSUME NEW i \in Indexes, NEW e \in Nat \union {Unlimited}, CreateSession(i, e)
        PROVE  StoreTypeOK' /\ joins' = joins /\ Present' \subseteq Present
    <2>1. /\ DOMAIN sessions' = DOMAIN sessions \union {i}
          /\ sessions'[i] = [participants |-> {}, expires |-> e]
          /\ \A j \in DOMAIN sessions : j # i => sessions'[j] = sessions[j]
          /\ UNCHANGED <<joins, clock>>
      BY <1>1 DEF CreateSession
    <2>2. StoreTypeOK'
      BY <2>1, SessionStoreAssumption DEF StoreTypeOK, Session
    <2>3. Present' \subseteq Present
      BY <2>1 DEF Present
    <2>4. QED
      BY <2>1, <2>2, <2>3
  <1>2. ASSUME NEW i \in Indexes, NEW s \in Entities, NEW n \in NameId,
               AddParticipant(i, s, n, {i})
        PROVE  /\ StoreTypeOK'
               /\ \E p \in Participant : /\ joins' = joins + 1 /\ p.joined = joins + 1
                                         /\ Present' \subseteq Present \union {p}
    <2> DEFINE p == [entity |-> s, name |-> n, indexes |-> {i}, joined |-> joins + 1]
    <2>1. /\ i \in DOMAIN sessions /\ joins < MaxJoins /\ joins' = joins + 1
          /\ clock' = clock
          /\ sessions' = [sessions EXCEPT ![i].participants = @ \union {p}]
      BY <1>2 DEF AddParticipant
    <2>2. p \in Participant /\ p.joined = joins + 1
      BY <2>1, SessionStoreAssumption DEF StoreTypeOK, Participant
    <2> HIDE DEF p
    <2>3. /\ DOMAIN sessions' = DOMAIN sessions
          /\ sessions'[i].participants = sessions[i].participants \union {p}
          /\ sessions'[i].expires = sessions[i].expires
          /\ \A j \in DOMAIN sessions : j # i => sessions'[j] = sessions[j]
          /\ sessions'[i] \in Session
      BY <2>1, <2>2 DEF StoreTypeOK, Session
    <2>4. StoreTypeOK'
      BY <2>1, <2>3, SessionStoreAssumption DEF StoreTypeOK
    <2>5. Present' \subseteq Present \union {p}
      BY <2>3 DEF Present
    <2>6. QED
      BY <2>1, <2>2, <2>4, <2>5
  <1>3. ASSUME NEW i \in DOMAIN sessions, NEW s \in Entities, RemoveParticipant(i, s)
        PROVE  StoreTypeOK' /\ joins' = joins /\ Present' \subseteq Present
    <2>1. /\ DOMAIN sessions' = DOMAIN sessions
          /\ sessions'[i].participants \subseteq sessions[i].participants
          /\ sessions'[i] \in Session
          /\ \A j \in DOMAIN sessions : j # i => sessions'[j] = sessions[j]
          /\ UNCHANGED <<joins, clock>>
      BY <1>3 DEF RemoveParticipant, StoreTypeOK, Session
    <2>2. StoreTypeOK'
      BY <2>1 DEF StoreTypeOK
    <2>3. Present' \subseteq Present
      BY <2>1 DEF Present
    <2>4. QED
      BY <2>1, <2>2, <2>3
  <1>4. ASSUME NEW is \in SUBSET DOMAIN sessions, Keep(is), UNCHANGED <<joins, clock>>
        PROVE  StoreTypeOK' /\ joins' = joins /\ Present' \subseteq Present
    BY <1>4 DEF Keep, StoreTypeOK, Present
  <1>5. ASSUME NEW i, DestroySession(i)
        PROVE  StoreTypeOK' /\ joins' = joins /\ Present' \subseteq Present
    BY <1>4, <1>5 DEF DestroySession
  <1>6. ASSUME CleanupExpired
        PROVE  StoreTypeOK' /\ joins' = joins /\ Present' \subseteq Present
    <2> DEFINE is == {i \in DOMAIN sessions :
                        sessions[i].expires = Unlimited \/ clock < sessions[i].expires}
    <2>1. Keep(is) /\ UNCHANGED <<joins, clock>>
      BY <1>6 DEF CleanupExpired
    <2>2. is \in SUBSET DOMAIN sessions
      OBVIOUS
    <2> HIDE DEF is
    <2>3. QED
      BY <1>4, <2>1, <2>2
  <1>7. ASSUME Elapse
        PROVE  StoreTypeOK' /\ joins' = joins /\ Present' \subseteq Present
    BY <1>7, SessionStoreAssumption DEF Elapse, Replay!Advance, StoreTypeOK, Present
  <1>8. Ends \subseteq Nat \union {Unlimited}
    BY IdpSloAssumption
  <1>9. QED
    BY <1>1, <1>2, <1>3, <1>5, <1>6, <1>7, <1>8 DEF Manage

\* What is authorized depends on the answers alone.
LEMMA AuthorizedStays ==
  ASSUME LogoutIsAuthorized, answers' = answers
  PROVE  LogoutIsAuthorized'
  <1>1. ASSUME NEW k \in DOMAIN answers', NEW session \in answers'[k].ended
        PROVE  \E p \in session : Names(answers'[k].request, p)
    BY <1>1 DEF LogoutIsAuthorized
  <1>2. \A k \in DOMAIN answers' : answers'[k].request.fault = "none"
    BY DEF LogoutIsAuthorized
  <1>3. QED
    BY <1>1, <1>2 DEF LogoutIsAuthorized, Names, Canonical

LEMMA ManagingKeeps ==
  ASSUME LogoutInv, Manage \/ Elapse
  PROVE  LogoutInv'
  <1>1. UNCHANGED <<requests, pc, job, answers>>
    BY DEF Manage, Elapse
  <1>2. SloTyped'
    BY <1>1, ManagingAddsOne DEF LogoutInv, SloTyped
  <1>3. \A p \in Present : p.joined \in Nat
    BY DEF LogoutInv, SloTyped, StoreTypeOK, Session, Participant, Present
  <1>4. joins \in Nat
    BY SessionStoreAssumption DEF LogoutInv, SloTyped, StoreTypeOK
  <1>5. /\ \A h \in DOMAIN job : \A x \in job[h].found : x.joined \in Nat
        /\ \A k \in DOMAIN answers : \A x \in answers[k].found : x.joined \in Nat
    <2>1. \A x \in Found : x.joined \in Nat
      BY DEF Found
    <2>2. \A h \in DOMAIN job : job[h].found \subseteq Found
      BY DEF LogoutInv, SloTyped, Job
    <2>3. \A k \in DOMAIN answers : answers[k] \in Answer
      BY DEF LogoutInv, SloTyped
    <2>4. \A k \in DOMAIN answers : answers[k].found \subseteq Found
      BY <2>3 DEF Answer
    <2>5. QED
      BY <2>1, <2>2, <2>4
  <1>6. LogoutIsAuthorized'
    BY <1>1, AuthorizedStays DEF LogoutInv
  <1>7. CASE joins' = joins /\ Present' \subseteq Present
    <2>1. JoinsInv' /\ GoneInv'
      BY <1>1, <1>7 DEF LogoutInv, JoinsInv, GoneInv
    <2>2. FoundInv'
      BY <1>1, <1>7 DEF LogoutInv, FoundInv, Names, Canonical
    <2>3. QED
      BY <1>2, <1>6, <2>1, <2>2 DEF LogoutInv
  <1>8. ASSUME NEW p, joins' = joins + 1, p.joined = joins + 1,
               Present' \subseteq Present \union {p}
        PROVE  LogoutInv'
    <2>1. JoinsInv'
      BY <1>3, <1>4, <1>8 DEF LogoutInv, JoinsInv
    <2>2. GoneInv'
      BY <1>1, <1>4, <1>5, <1>8 DEF LogoutInv, GoneInv
    <2>3. FoundInv'
      <3> SUFFICES ASSUME NEW h \in DOMAIN job, pc[h] = "accepted", NEW x \in job[h].found
                   PROVE  /\ x.joined <= joins'
                          /\ \A q \in Present' :
                               q.joined = x.joined => Names(job[h].request, q)
        BY <1>1 DEF LogoutInv, FoundInv, Names, Canonical
      <3>1. x.joined <= joins /\ x.joined \in Nat
        BY <1>5 DEF LogoutInv, FoundInv
      <3>2. \A q \in Present' : q.joined = x.joined => q \in Present
        BY <1>4, <1>8, <3>1
      <3>3. QED
        BY <1>4, <1>8, <3>1, <3>2 DEF LogoutInv, FoundInv
    <2>4. QED
      BY <1>2, <1>6, <2>1, <2>2, <2>3 DEF LogoutInv
  <1>9. QED
    BY <1>7, <1>8, ManagingAddsOne DEF LogoutInv, SloTyped

\* A handler that ends forgets its request.
LEMMA FinishForgets ==
  ASSUME SloTyped, NEW h \in Handlers, h \in DOMAIN job, Finish(h)
  PROVE  /\ pc' \in [Handlers -> {"idle", "stamped", "accepted"}]
         /\ DOMAIN job' = {k \in Handlers : pc'[k] # "idle"}
         /\ DOMAIN job' = DOMAIN job \ {h}
         /\ \A k \in DOMAIN job' : job'[k] = job[k] /\ pc'[k] = pc[k]
  BY DEF Finish, SloTyped

\* When the sessions and the answers stay, and no handler matches anything new.
LEMMA QuietStepKeeps ==
  ASSUME LogoutInv, SloTyped', UNCHANGED <<sessions, joins, answers>>,
         \A h \in DOMAIN job' :
           \/ h \in DOMAIN job /\ job'[h] = job[h] /\ pc'[h] = pc[h]
           \/ pc'[h] # "accepted" /\ job'[h].request.fault = "none"
  PROVE  LogoutInv'
  <1>1. Present' = Present
    BY DEF Present
  <1>2. JoinsInv' /\ GoneInv'
    BY <1>1 DEF LogoutInv, JoinsInv, GoneInv
  <1>3. FoundInv'
    BY <1>1 DEF LogoutInv, FoundInv, Names, Canonical
  <1>4. LogoutIsAuthorized'
    BY AuthorizedStays DEF LogoutInv
  <1>5. QED
    BY <1>2, <1>3, <1>4 DEF LogoutInv

LEMMA SendingKeeps ==
  ASSUME LogoutInv, SendRequest
  PROVE  LogoutInv'
  <1>1. PICK s \in Entities, i \in RequestIds, n \in NameId, is \in IndexLists,
             lead \in 0..MaxLead, bounded \in BOOLEAN, f \in Faults :
          /\ \A r \in requests : <<r.issuer, r.id>> # <<s, i>>
          /\ requests' = requests \union
               {[issuer |-> s, id |-> i, name |-> n, indexes |-> is, issued |-> clock + lead,
                 until |-> IF bounded THEN clock + lead + Life ELSE Never, fault |-> f]}
    BY DEF SendRequest
  <1>2. UNCHANGED <<sessions, joins, clock, pc, job, answers>>
    BY DEF SendRequest, storeVars
  <1> DEFINE r0 == [issuer |-> s, id |-> i, name |-> n, indexes |-> is, issued |-> clock + lead,
                    until |-> IF bounded THEN clock + lead + Life ELSE Never, fault |-> f]
  <1>3. r0 \in Request
    <2>1. clock \in 0..MaxTime /\ MaxTime \in Nat /\ MaxLead \in Nat /\ Life \in Nat
      BY SessionStoreAssumption, IdpSloAssumption DEF LogoutInv, SloTyped, StoreTypeOK
    <2>2. /\ clock + lead \in 0..(MaxTime + MaxLead)
          /\ clock + lead + Life \in 0..(MaxTime + MaxLead + Life)
      BY <2>1
    <2>3. is \in SUBSET Indexes
      BY IdpSloAssumption
    <2>4. QED
      BY <2>2, <2>3 DEF Request
  <1>4. requests' \subseteq Request
    <2> HIDE DEF r0
    <2>1. requests' = requests \union {r0}
      BY <1>1 DEF r0
    <2>2. QED
      BY <1>3, <2>1 DEF LogoutInv, SloTyped
  <1>5. SloTyped'
    BY <1>2, <1>4 DEF LogoutInv, SloTyped, StoreTypeOK
  <1>6. QED
    BY <1>2, <1>5, QuietStepKeeps DEF LogoutInv, SloTyped

LEMMA AuthorizingKeeps ==
  ASSUME LogoutInv, NEW h \in Handlers, NEW r \in requests, Authorize(h, r)
  PROVE  LogoutInv'
  <1> DEFINE j0 == [request |-> r, now |-> clock, found |-> {}]
  <1>1. /\ pc[h] = "idle" /\ r.fault = "none"
        /\ pc' = [pc EXCEPT ![h] = "stamped"]
        /\ job' = [k \in DOMAIN job \union {h} |-> IF k = h THEN j0 ELSE job[k]]
        /\ UNCHANGED <<sessions, joins, clock, requests, answers>>
    BY DEF Authorize, Authorized, storeVars
  <1>2. j0 \in Job /\ j0.request = r
    BY DEF Job, LogoutInv, SloTyped, StoreTypeOK
  <1> HIDE DEF j0
  <1>3. /\ DOMAIN job' = DOMAIN job \union {h} /\ job'[h] = j0 /\ h \notin DOMAIN job
        /\ pc'[h] = "stamped"
        /\ \A k \in Handlers : k # h => pc'[k] = pc[k]
        /\ \A k \in DOMAIN job : job'[k] = job[k] /\ pc'[k] = pc[k]
    BY <1>1 DEF LogoutInv, SloTyped
  <1>4. /\ pc' \in [Handlers -> {"idle", "stamped", "accepted"}]
        /\ DOMAIN job' = {k \in Handlers : pc'[k] # "idle"}
    BY <1>1, <1>3 DEF LogoutInv, SloTyped
  <1>5. SloTyped'
    BY <1>1, <1>2, <1>3, <1>4 DEF LogoutInv, SloTyped, StoreTypeOK
  <1>6. QED
    BY <1>1, <1>2, <1>3, <1>5, QuietStepKeeps

\* The participations a request matches are told apart by joined.
LEMMA AcceptingKeeps ==
  ASSUME LogoutInv, NEW h \in Handlers, CheckReplay(h)
  PROVE  LogoutInv'
  <1> DEFINE r == job[h].request
  <1>1. /\ pc[h] = "stamped" /\ h \in DOMAIN job
        /\ UNCHANGED <<sessions, joins, clock, requests, answers>>
    BY DEF CheckReplay, LogoutInv, SloTyped, Replay!Accept, Replay!Refuse
  <1>2. CASE Finish(h)
    <2>1. /\ pc' \in [Handlers -> {"idle", "stamped", "accepted"}]
          /\ DOMAIN job' = {k \in Handlers : pc'[k] # "idle"}
          /\ DOMAIN job' = DOMAIN job \ {h}
          /\ \A k \in DOMAIN job' : job'[k] = job[k] /\ pc'[k] = pc[k]
      BY <1>1, <1>2, FinishForgets DEF LogoutInv
    <2>2. SloTyped'
      BY <1>1, <2>1 DEF LogoutInv, SloTyped, StoreTypeOK
    <2>3. QED
      BY <1>1, <2>1, <2>2, QuietStepKeeps
  <1>3. CASE /\ pc' = [pc EXCEPT ![h] = "accepted"]
             /\ job' = [job EXCEPT ![h].found = Named(r)]
    <2>1. Named(r) \subseteq Found
      BY DEF Named, Found, LogoutInv, SloTyped, StoreTypeOK, Session, Participant
    <2>2. \A x \in Named(r) : \E p \in Present : x.joined = p.joined /\ Names(r, p)
      BY DEF Named, Present
    <2> DEFINE f == Named(r)
    <2>3. job' = [job EXCEPT ![h].found = f]
      BY <1>3
    <2> HIDE DEF f
    <2>4. /\ DOMAIN job' = DOMAIN job
          /\ job'[h].request = r /\ job'[h].found = f
          /\ job'[h] \in Job
          /\ \A k \in DOMAIN job : k # h => job'[k] = job[k] /\ pc'[k] = pc[k]
          /\ pc'[h] = "accepted"
      BY <1>1, <1>3, <2>1, <2>3 DEF f, LogoutInv, SloTyped, Job
    <2>5. SloTyped'
      BY <1>1, <1>3, <2>4 DEF LogoutInv, SloTyped, StoreTypeOK
    <2>6. Present' = Present
      BY <1>1 DEF Present
    <2>7. \A x \in f : /\ x.joined <= joins
                       /\ \A p \in Present : p.joined = x.joined => Names(r, p)
      BY <2>2 DEF f, LogoutInv, JoinsInv
    <2>8. FoundInv'
      BY <1>1, <2>4, <2>6, <2>7 DEF LogoutInv, FoundInv, Names, Canonical
    <2>9. JoinsInv' /\ GoneInv'
      BY <1>1, <2>6 DEF LogoutInv, JoinsInv, GoneInv
    <2>10. LogoutIsAuthorized'
      BY <1>1, AuthorizedStays DEF LogoutInv
    <2>11. QED
      BY <2>5, <2>8, <2>9, <2>10 DEF LogoutInv
  <1>4. QED
    BY <1>2, <1>3 DEF CheckReplay

LEMMA OneMore ==
  ASSUME NEW S, NEW s \in Seq(S), NEW e \in S, NEW t, t = Append(s, e)
  PROVE  /\ t \in Seq(S) /\ DOMAIN t = DOMAIN s \union {Len(s) + 1}
         /\ t[Len(s) + 1] = e
         /\ \A k \in DOMAIN s : t[k] = s[k]
         /\ \A k \in DOMAIN t : t[k] = e \/ (k \in DOMAIN s /\ t[k] = s[k])
  <1>1. Len(s) \in Nat /\ DOMAIN s = 1..Len(s)
    OBVIOUS
  <1>2. t \in Seq(S) /\ DOMAIN t = 1..(Len(s) + 1)
    OBVIOUS
  <1>3. t[Len(s) + 1] = e /\ \A k \in 1..Len(s) : t[k] = s[k]
    OBVIOUS
  <1>4. QED
    BY <1>1, <1>2, <1>3

\* Every session that matches now is removed, and with it what was matched when
\* the request was accepted.
LEMMA TakingKeeps ==
  ASSUME LogoutInv, NEW h \in Handlers, Take(h)
  PROVE  LogoutInv'
  <1> DEFINE r == job[h].request
             ended == {sessions[i].participants : i \in Doomed(h)}
             a == [request |-> r, found |-> job[h].found, ended |-> ended]
  <1>1. /\ pc[h] = "accepted" /\ h \in DOMAIN job /\ Finish(h)
        /\ Keep(DOMAIN sessions \ Doomed(h)) /\ answers' = Append(answers, a)
        /\ UNCHANGED <<joins, clock, requests>>
    BY DEF Take, LogoutInv, SloTyped
  <1>2. /\ pc' \in [Handlers -> {"idle", "stamped", "accepted"}]
        /\ DOMAIN job' = {k \in Handlers : pc'[k] # "idle"}
        /\ DOMAIN job' = DOMAIN job \ {h}
        /\ \A k \in DOMAIN job' : job'[k] = job[k] /\ pc'[k] = pc[k]
    BY <1>1, FinishForgets DEF LogoutInv
  <1>3. /\ DOMAIN sessions' = DOMAIN sessions \ Doomed(h)
        /\ \A i \in DOMAIN sessions' : sessions'[i] = sessions[i]
    BY <1>1 DEF Keep
  <1>4. StoreTypeOK' /\ Present' \subseteq Present
    BY <1>1, <1>3 DEF LogoutInv, SloTyped, StoreTypeOK, Present
  <1>5. \A p \in Present' : ~Names(r, p)
    BY <1>3 DEF Present, Doomed, SessionsFor, Matches, SameName, Names
  <1>6. a \in Answer
    <2>1. r \in Request /\ job[h].found \in SUBSET Found
      BY <1>1 DEF LogoutInv, SloTyped, Job
    <2>2. ended \subseteq SUBSET Participant
      BY DEF Doomed, SessionsFor, LogoutInv, SloTyped, StoreTypeOK, Session
    <2>3. QED
      BY <2>1, <2>2 DEF Answer
  <1>7. /\ a.request = r /\ a.found = job[h].found /\ a.ended = ended
    OBVIOUS
  <1>8. /\ r.fault = "none"
        /\ \A x \in a.found : x.joined <= joins /\ \A p \in Present' : p.joined # x.joined
    BY <1>1, <1>4, <1>5, <1>7 DEF LogoutInv, FoundInv
  <1>9. \A session \in ended : \E p \in session : Names(r, p)
    BY DEF Doomed, SessionsFor, Matches, SameName, Names
  <1> HIDE DEF a, r, ended
  <1>10. /\ answers' \in Seq(Answer) /\ DOMAIN answers' = DOMAIN answers \union {Len(answers) + 1}
         /\ answers'[Len(answers) + 1] = a
         /\ \A k \in DOMAIN answers : answers'[k] = answers[k]
         /\ \A k \in DOMAIN answers' :
              answers'[k] = a \/ (k \in DOMAIN answers /\ answers'[k] = answers[k])
    BY <1>1, <1>6, OneMore DEF LogoutInv, SloTyped
  <1>11. SloTyped'
    BY <1>1, <1>2, <1>4, <1>10 DEF LogoutInv, SloTyped
  <1>12. JoinsInv'
    BY <1>1, <1>4 DEF LogoutInv, JoinsInv
  <1>13. FoundInv'
    <2>1. \A k \in DOMAIN job' :
            /\ job'[k].request.fault = "none"
            /\ pc'[k] = "accepted" =>
                 \A x \in job'[k].found :
                   /\ x.joined <= joins'
                   /\ \A p \in Present' : p.joined = x.joined => Names(job'[k].request, p)
      <3> SUFFICES ASSUME NEW k \in DOMAIN job'
                   PROVE  /\ job'[k].request.fault = "none"
                          /\ pc'[k] = "accepted" =>
                               \A x \in job'[k].found :
                                 /\ x.joined <= joins'
                                 /\ \A p \in Present' :
                                      p.joined = x.joined => Names(job'[k].request, p)
        OBVIOUS
      <3>1. k \in DOMAIN job /\ job'[k] = job[k] /\ pc'[k] = pc[k]
        BY <1>2
      <3>2. QED
        BY <1>1, <1>4, <3>1 DEF LogoutInv, FoundInv
    <2>2. QED
      BY <2>1 DEF FoundInv, Names, Canonical
  <1>14. GoneInv'
    <2> SUFFICES ASSUME NEW k \in DOMAIN answers', NEW x \in answers'[k].found
                 PROVE  x.joined <= joins' /\ \A p \in Present' : p.joined # x.joined
      BY DEF GoneInv
    <2>1. CASE answers'[k] = a
      BY <1>1, <1>8, <2>1
    <2>2. CASE k \in DOMAIN answers /\ answers'[k] = answers[k]
      BY <1>1, <1>4, <2>2 DEF LogoutInv, GoneInv
    <2>3. QED
      BY <1>10, <2>1, <2>2
  <1>15. LogoutIsAuthorized'
    <2>1. /\ a.request.fault = "none"
          /\ \A session \in a.ended : \E p \in session : Names(a.request, p)
      BY <1>7, <1>8, <1>9
    <2>2. \A k \in DOMAIN answers :
            /\ answers[k].request.fault = "none"
            /\ \A session \in answers[k].ended : \E p \in session : Names(answers[k].request, p)
      BY DEF LogoutInv, LogoutIsAuthorized
    <2>3. \A k \in DOMAIN answers' :
            /\ answers'[k].request.fault = "none"
            /\ \A session \in answers'[k].ended :
                 \E p \in session : Names(answers'[k].request, p)
      BY <1>10, <2>1, <2>2
    <2>4. QED
      BY <2>3 DEF LogoutIsAuthorized, Names, Canonical
  <1>16. QED
    BY <1>11, <1>12, <1>13, <1>14, <1>15 DEF LogoutInv

LEMMA FailingKeeps ==
  ASSUME LogoutInv, NEW h \in Handlers, TakeFails(h)
  PROVE  LogoutInv'
  <1>1. /\ h \in DOMAIN job /\ Finish(h)
        /\ UNCHANGED <<sessions, joins, clock, requests, answers>>
    BY DEF TakeFails, storeVars, LogoutInv, SloTyped
  <1>2. /\ pc' \in [Handlers -> {"idle", "stamped", "accepted"}]
        /\ DOMAIN job' = {k \in Handlers : pc'[k] # "idle"}
        /\ DOMAIN job' = DOMAIN job \ {h}
        /\ \A k \in DOMAIN job' : job'[k] = job[k] /\ pc'[k] = pc[k]
    BY <1>1, FinishForgets DEF LogoutInv
  <1>3. SloTyped'
    BY <1>1, <1>2 DEF LogoutInv, SloTyped, StoreTypeOK
  <1>4. QED
    BY <1>1, <1>2, <1>3, QuietStepKeeps

LEMMA LogoutStart == Init => LogoutInv
  <1> SUFFICES ASSUME Init PROVE LogoutInv
    OBVIOUS
  <1>1. /\ sessions = << >> /\ joins = 0 /\ clock = 0 /\ requests = {} /\ job = << >>
        /\ answers = << >> /\ pc = [h \in Handlers |-> "idle"]
    BY DEF Init, StoreInit
  <1>2. SloTyped
    BY <1>1, SessionStoreAssumption DEF SloTyped, StoreTypeOK
  <1>3. JoinsInv /\ FoundInv /\ GoneInv /\ LogoutIsAuthorized
    BY <1>1 DEF JoinsInv, FoundInv, GoneInv, LogoutIsAuthorized, Present
  <1>4. QED
    BY <1>2, <1>3 DEF LogoutInv

LEMMA LogoutStep == LogoutInv /\ [Next]_vars => LogoutInv'
  <1> SUFFICES ASSUME LogoutInv, [Next]_vars PROVE LogoutInv'
    OBVIOUS
  <1>1. CASE Manage \/ Elapse
    BY <1>1, ManagingKeeps
  <1>2. CASE SendRequest
    BY <1>2, SendingKeeps
  <1>3. ASSUME NEW h \in Handlers, NEW r \in requests, Authorize(h, r) PROVE LogoutInv'
    BY <1>3, AuthorizingKeeps
  <1>4. ASSUME NEW h \in Handlers, CheckReplay(h) PROVE LogoutInv'
    BY <1>4, AcceptingKeeps
  <1>5. ASSUME NEW h \in Handlers, Take(h) PROVE LogoutInv'
    BY <1>5, TakingKeeps
  <1>6. ASSUME NEW h \in Handlers, TakeFails(h) PROVE LogoutInv'
    BY <1>6, FailingKeeps
  <1>7. CASE UNCHANGED vars
    <2>1. UNCHANGED <<sessions, joins, clock, requests, pc, job, answers>>
      BY <1>7 DEF vars
    <2>2. SloTyped'
      BY <2>1 DEF LogoutInv, SloTyped, StoreTypeOK
    <2>3. QED
      BY <2>1, <2>2, QuietStepKeeps
  <1>8. QED
    BY <1>1, <1>2, <1>3, <1>4, <1>5, <1>6, <1>7 DEF Next

LEMMA LogoutInvariant == Spec => []LogoutInv
  BY LogoutStart, LogoutStep, PTL DEF Spec

\* After Success nothing is left of what the request named when it was accepted,
\* whatever joins and drops of sessions come between and whatever handlers
\* answer other requests meanwhile.
THEOREM LogoutsAreComplete == Spec => []LogoutIsComplete
  <1>1. LogoutInv => LogoutIsComplete
    BY DEF LogoutInv, GoneInv, LogoutIsComplete, Present
  <1>2. QED
    BY <1>1, LogoutInvariant, PTL

\* Each session a logout ends, however many end together, is one its requester
\* takes part in at that moment, under the NameID and an index of its
\* authenticated request.
THEOREM LogoutsAreAuthorized == Spec => []LogoutIsAuthorized
  <1>1. LogoutInv => LogoutIsAuthorized
    BY DEF LogoutInv
  <1>2. QED
    BY <1>1, LogoutInvariant, PTL

-----------------------------------------------------------------------------
(* The replay cache.                                                        *)

\* A key is remembered as long as it was asked to be; what is remembered was
\* used.
Cached ==
  /\ \A k \in DOMAIN entries : entries[k] \in Nat /\ k \in DOMAIN uses
  /\ \A k \in DOMAIN uses :
       /\ uses[k] \in Nat
       /\ uses[k] > clock => k \in DOMAIN entries /\ entries[k] >= uses[k]

\* A key names one request, and was used with that request's expiry.
KeysOfRequests ==
  /\ \A r, s \in requests : Key(r) = Key(s) => r = s
  /\ \A k \in DOMAIN uses : \E r \in requests : Key(r) = k /\ uses[k] = Expiry(r)
  /\ \A h \in DOMAIN job : job[h].request \in requests

AcceptedBy(h) == h \in DOMAIN job /\ pc[h] = "accepted"

\* Accepted and answered requests have used their keys up, each its own.
KeysSpent ==
  /\ \A h \in Handlers : AcceptedBy(h) => Key(job[h].request) \in DOMAIN uses
  /\ \A h, g \in Handlers :
       /\ AcceptedBy(h) /\ AcceptedBy(g)
       /\ Key(job[h].request) = Key(job[g].request)
       => h = g
  /\ \A n \in DOMAIN answers :
       /\ Key(answers[n].request) \in DOMAIN uses
       /\ \A h \in Handlers :
            AcceptedBy(h) => Key(job[h].request) # Key(answers[n].request)
  /\ ReplaysAreRefused

SpentInv == Cached /\ KeysOfRequests /\ KeysSpent

\* As long as a request is honoured its key is remembered.
LEMMA WindowWithinExpiry ==
  ASSUME NEW r, r.issued \in Nat, r.until \in Nat \union {Never}, NEW now \in Nat
  PROVE  /\ Expiry(r) \in Nat
         /\ InWindow(r, now) => Expiry(r) > now
  BY FreshnessAssumption DEF Expiry, InWindow

LEMMA RequestTimes ==
  ASSUME NEW r \in Request
  PROVE  r.issued \in Nat /\ r.until \in Nat \union {Never}
  BY SessionStoreAssumption, IdpSloAssumption DEF Request

LEMMA AcceptKeepsCached ==
  ASSUME Cached, clock \in Nat, NEW m, NEW expiry \in Nat, Replay!Accept(m, expiry)
  PROVE  /\ Cached' /\ clock' = clock
         /\ DOMAIN uses' = DOMAIN uses \union {m}
         /\ uses'[m] = expiry /\ \A k \in DOMAIN uses : k # m => uses'[k] = uses[k]
         /\ m \in DOMAIN uses => uses[m] <= clock
  <1>1. /\ clock' = clock
        /\ DOMAIN uses' = DOMAIN uses \union {m}
        /\ uses'[m] = expiry /\ \A k \in DOMAIN uses : k # m => uses'[k] = uses[k]
    BY DEF Replay!Accept, Replay!Put
  <1>2. \A k \in DOMAIN Replay!Scanned :
          k \in DOMAIN entries /\ Replay!Scanned[k] = entries[k]
    BY DEF Replay!Scanned, Replay!Unexpired
  <1>3. \A k \in DOMAIN entries : entries[k] > clock =>
          k \in DOMAIN Replay!Scanned /\ Replay!Scanned[k] = entries[k]
    BY DEF Replay!Scanned, Replay!Unexpired
  <1>4. \/ /\ expiry > clock
           /\ DOMAIN entries' = DOMAIN Replay!Scanned \union {m}
           /\ entries'[m] = expiry
           /\ \A k \in DOMAIN Replay!Scanned : k # m => entries'[k] = Replay!Scanned[k]
        \/ ~(expiry > clock) /\ entries' = Replay!Scanned
    BY DEF Replay!Accept, Replay!Put, Replay!Remember
  <1>5. \A k \in DOMAIN entries' : entries'[k] \in Nat /\ k \in DOMAIN uses'
    BY <1>1, <1>2, <1>4 DEF Cached
  <1>6. ASSUME NEW k \in DOMAIN uses', uses'[k] > clock
        PROVE  k \in DOMAIN entries' /\ entries'[k] >= uses'[k]
    <2>1. CASE k = m
      BY <1>1, <1>4, <1>6, <2>1
    <2>2. CASE k # m
      <3>1. k \in DOMAIN uses /\ uses'[k] = uses[k]
        BY <1>1, <2>2
      <3>2. k \in DOMAIN entries /\ entries[k] >= uses[k] /\ entries[k] > clock
        BY <1>6, <3>1 DEF Cached
      <3>3. QED
        BY <1>3, <1>4, <2>2, <3>1, <3>2
    <2>3. QED
      BY <2>1, <2>2
  <1>7. Cached'
    BY <1>1, <1>5, <1>6 DEF Cached
  <1>8. m \in DOMAIN uses => uses[m] <= clock
    <2> SUFFICES ASSUME m \in DOMAIN uses, uses[m] > clock PROVE FALSE
      BY DEF Cached
    <2>1. m \in DOMAIN entries /\ entries[m] > clock
      BY DEF Cached
    <2>2. QED
      BY <1>3, <2>1 DEF Replay!Accept, Replay!Fresh
  <1>9. QED
    BY <1>1, <1>7, <1>8

\* A refused key is one that is remembered.
LEMMA RefuseKeepsCached ==
  ASSUME Cached, clock \in Nat, NEW m, Replay!Refuse(m)
  PROVE  Cached' /\ UNCHANGED <<uses, clock>> /\ m \in DOMAIN uses
  <1>1. UNCHANGED <<clock, uses>> /\ entries' = Replay!Scanned
    BY DEF Replay!Refuse
  <1>2. \A k \in DOMAIN Replay!Scanned :
          k \in DOMAIN entries /\ Replay!Scanned[k] = entries[k]
    BY DEF Replay!Scanned, Replay!Unexpired
  <1>3. \A k \in DOMAIN entries : entries[k] > clock =>
          k \in DOMAIN Replay!Scanned /\ Replay!Scanned[k] = entries[k]
    BY DEF Replay!Scanned, Replay!Unexpired
  <1>4. m \in DOMAIN uses
    BY <1>2 DEF Replay!Refuse, Replay!Fresh, Cached
  <1>5. QED
    BY <1>1, <1>2, <1>3, <1>4 DEF Cached

\* Steps that use no key and accept no request.
LEMMA UnusedKeeps ==
  ASSUME SpentInv, KeysOfRequests', UNCHANGED <<entries, uses, refused, answers>>,
         clock \in Nat, clock' \in Nat, clock' >= clock,
         \A h \in Handlers : AcceptedBy(h)' => AcceptedBy(h) /\ job'[h] = job[h]
  PROVE  SpentInv'
  <1>1. Cached'
    BY DEF SpentInv, Cached
  <1>2. ReplaysAreRefused'
    BY DEF SpentInv, KeysSpent, ReplaysAreRefused, Key
  <1>3. KeysSpent'
    <2>1. \A h \in Handlers : AcceptedBy(h)' =>
            AcceptedBy(h) /\ Key(job[h].request)' = Key(job[h].request)
      BY DEF Key
    <2>2. \A n \in DOMAIN answers : Key(answers[n].request)' = Key(answers[n].request)
      BY DEF Key
    <2>3. QED
      BY <1>2, <2>1, <2>2 DEF SpentInv, KeysSpent
  <1>4. QED
    BY <1>1, <1>3 DEF SpentInv

\* A request in its window whose key the cache takes is the first of its key.
LEMMA CheckingKeepsSpent ==
  ASSUME Prompt, SloTyped, SpentInv, NEW h \in Handlers, CheckReplay(h)
  PROVE  SpentInv'
  <1> DEFINE r == job[h].request
             key == Key(r)
  <1>1. /\ pc[h] = "stamped" /\ h \in DOMAIN job /\ clock = job[h].now
        /\ UNCHANGED <<requests, answers>> /\ clock \in Nat
    BY SessionStoreAssumption DEF CheckReplay, SloTyped, StoreTypeOK
  <1>2. r \in requests /\ Expiry(r) \in Nat /\ (InWindow(r, clock) => Expiry(r) > clock)
    <2>1. r \in requests /\ r \in Request
      BY <1>1 DEF SpentInv, KeysOfRequests, SloTyped
    <2>2. r.issued \in Nat /\ r.until \in Nat \union {Never}
      BY <2>1, RequestTimes
    <2>3. QED
      BY <1>1, <2>1, <2>2, WindowWithinExpiry
  <1>3. ASSUME Finish(h)
        PROVE  \A k \in Handlers : k \in DOMAIN job' => /\ k \in DOMAIN job /\ job'[k] = job[k]
                                                        /\ k # h /\ pc'[k] = pc[k]
    BY <1>1, <1>3, FinishForgets
  <1>4. CASE Finish(h) /\ UNCHANGED <<clock, replayVars, refused>>
    <2>1. KeysOfRequests'
      BY <1>1, <1>3, <1>4, FinishForgets DEF SpentInv, KeysOfRequests, Key, Expiry, replayVars
    <2>2. \A k \in Handlers : AcceptedBy(k)' => AcceptedBy(k) /\ job'[k] = job[k]
      BY <1>3, <1>4 DEF AcceptedBy
    <2>3. QED
      BY <1>1, <1>4, <2>1, <2>2, UnusedKeeps DEF replayVars
  <1>5. CASE Replay!Refuse(key) /\ Finish(h) /\ refused' = refused \union {<<r.issuer, r.id>>}
    <2>1. Cached' /\ UNCHANGED <<uses, clock>> /\ key \in DOMAIN uses
      BY <1>1, <1>5, RefuseKeepsCached DEF SpentInv
    <2>2. KeysOfRequests'
      BY <1>1, <1>3, <1>5, <2>1, FinishForgets DEF SpentInv, KeysOfRequests, Key, Expiry
    <2>3. \A k \in Handlers : AcceptedBy(k)' => AcceptedBy(k) /\ job'[k] = job[k]
      BY <1>3, <1>5 DEF AcceptedBy
    <2>4. ReplaysAreRefused'
      <3>1. refused' \subseteq DOMAIN uses'
        BY <1>5, <2>1 DEF SpentInv, KeysSpent, ReplaysAreRefused, Key
      <3>2. QED
        BY <1>1, <3>1 DEF SpentInv, KeysSpent, ReplaysAreRefused, Key
    <2>5. KeysSpent'
      BY <1>1, <2>1, <2>3, <2>4 DEF SpentInv, KeysSpent, Key
    <2>6. QED
      BY <2>1, <2>2, <2>5 DEF SpentInv
  <1>6. CASE /\ InWindow(r, job[h].now) /\ Replay!Accept(key, Expiry(r))
             /\ pc' = [pc EXCEPT ![h] = "accepted"]
             /\ job' = [job EXCEPT ![h].found = Named(r)] /\ UNCHANGED refused
    <2>1. /\ Cached' /\ clock' = clock
          /\ DOMAIN uses' = DOMAIN uses \union {key}
          /\ uses'[key] = Expiry(r) /\ \A k \in DOMAIN uses : k # key => uses'[k] = uses[k]
          /\ key \in DOMAIN uses => uses[key] <= clock
      BY <1>1, <1>2, <1>6, AcceptKeepsCached DEF SpentInv
    <2>2. key \notin DOMAIN uses
      <3> SUFFICES ASSUME key \in DOMAIN uses PROVE FALSE
        OBVIOUS
      <3>1. uses[key] = Expiry(r)
        BY <1>2 DEF SpentInv, KeysOfRequests
      <3>2. QED
        BY <1>1, <1>2, <1>6, <2>1, <3>1
    <2>3. /\ DOMAIN job' = DOMAIN job
          /\ \A k \in DOMAIN job : job'[k].request = job[k].request
          /\ pc'[h] = "accepted" /\ \A k \in Handlers : k # h => pc'[k] = pc[k]
      <3> DEFINE f == Named(r)
      <3>1. job' = [job EXCEPT ![h].found = f]
        BY <1>6
      <3> HIDE DEF f
      <3>2. QED
        BY <1>1, <1>6, <3>1 DEF SloTyped, Job
    <2>4. KeysOfRequests'
      <3>1. \A k \in DOMAIN uses' : \E s \in requests : Key(s) = k /\ uses'[k] = Expiry(s)
        BY <1>2, <2>1 DEF SpentInv, KeysOfRequests
      <3>2. QED
        BY <1>1, <2>3, <3>1 DEF SpentInv, KeysOfRequests, Key, Expiry
    <2>5. \A k \in Handlers : AcceptedBy(k)' =>
            (k = h \/ AcceptedBy(k)) /\ Key(job[k].request)' = Key(job[k].request)
      BY <2>3 DEF AcceptedBy, Key
    <2>6. \A n \in DOMAIN answers : Key(answers[n].request)' = Key(answers[n].request)
      BY <1>1 DEF Key
    <2>7. ReplaysAreRefused'
      BY <1>1, <1>6, <2>1 DEF SpentInv, KeysSpent, ReplaysAreRefused, Key
    <2> HIDE DEF key, r
    <2>8. key = Key(job[h].request)
      BY DEF key, r
    <2>9. KeysSpent'
      <3>1. \A k \in Handlers : AcceptedBy(k)' => Key(job[k].request)' \in DOMAIN uses'
        BY <2>1, <2>5, <2>8 DEF SpentInv, KeysSpent
      <3>2. ASSUME NEW k \in Handlers, NEW g \in Handlers, AcceptedBy(k)', AcceptedBy(g)',
                   Key(job[k].request)' = Key(job[g].request)'
            PROVE  k = g
        BY <2>2, <2>5, <2>8, <3>2 DEF SpentInv, KeysSpent
      <3>3. ASSUME NEW n \in DOMAIN answers'
            PROVE  /\ Key(answers[n].request)' \in DOMAIN uses'
                   /\ \A k \in Handlers :
                        AcceptedBy(k)' => Key(job[k].request)' # Key(answers[n].request)'
        BY <1>1, <2>1, <2>2, <2>5, <2>6, <2>8 DEF SpentInv, KeysSpent
      <3>4. QED
        BY <2>7, <3>1, <3>2, <3>3 DEF KeysSpent
    <2>10. QED
      BY <2>1, <2>4, <2>9 DEF SpentInv
  <1>7. QED
    BY <1>4, <1>5, <1>6 DEF CheckReplay

\* An answer takes its handler's key over.
LEMMA TakingKeepsSpent ==
  ASSUME SloTyped, SpentInv, NEW h \in Handlers, Take(h), answers' \in Seq(Answer)
  PROVE  SpentInv'
  <1>1. /\ pc[h] = "accepted" /\ h \in DOMAIN job /\ Finish(h)
        /\ UNCHANGED <<clock, entries, uses, requests, refused>>
    BY DEF Take, replayVars, SloTyped
  <1>2. PICK a : a.request = job[h].request /\ answers' = Append(answers, a)
    BY DEF Take
  <1>3. /\ DOMAIN answers' = DOMAIN answers \union {Len(answers) + 1}
        /\ answers'[Len(answers) + 1] = a
        /\ \A k \in DOMAIN answers : answers'[k] = answers[k]
    BY <1>2 DEF SloTyped
  <1>4. /\ DOMAIN job' = DOMAIN job \ {h}
        /\ \A k \in DOMAIN job' : job'[k] = job[k] /\ pc'[k] = pc[k]
    BY <1>1, FinishForgets
  <1>5. Cached' /\ KeysOfRequests'
    BY <1>1, <1>4 DEF SpentInv, Cached, KeysOfRequests, Key, Expiry
  <1>6. AcceptedBy(h)
    BY <1>1 DEF AcceptedBy
  <1>7. \A k \in Handlers : AcceptedBy(k)' =>
          k # h /\ AcceptedBy(k) /\ Key(job[k].request)' = Key(job[k].request)
    BY <1>4 DEF AcceptedBy, Key
  <1>8. ASSUME NEW n \in DOMAIN answers'
        PROVE  \/ n \in DOMAIN answers /\ Key(answers[n].request)' = Key(answers[n].request)
               \/ n = Len(answers) + 1 /\ Key(answers[n].request)' = Key(job[h].request)
    BY <1>2, <1>3 DEF Key
  <1>9. ReplaysAreRefused'
    <2>1. \A n \in DOMAIN answers : Key(answers[n].request) # Key(job[h].request)
      BY <1>6 DEF SpentInv, KeysSpent
    <2>2. ASSUME NEW j \in DOMAIN answers', NEW k \in DOMAIN answers',
                 Key(answers[j].request)' = Key(answers[k].request)'
          PROVE  j = k
      BY <1>8, <2>1, <2>2 DEF SpentInv, KeysSpent, ReplaysAreRefused
    <2>3. refused' \subseteq DOMAIN uses'
      BY <1>1 DEF SpentInv, KeysSpent, ReplaysAreRefused
    <2>4. QED
      BY <2>2, <2>3 DEF ReplaysAreRefused
  <1>10. KeysSpent'
    <2>1. \A k \in Handlers : AcceptedBy(k)' => Key(job[k].request)' \in DOMAIN uses'
      BY <1>1, <1>7 DEF SpentInv, KeysSpent
    <2>2. ASSUME NEW k \in Handlers, NEW g \in Handlers, AcceptedBy(k)', AcceptedBy(g)',
                 Key(job[k].request)' = Key(job[g].request)'
          PROVE  k = g
      BY <1>7, <2>2 DEF SpentInv, KeysSpent
    <2>3. ASSUME NEW n \in DOMAIN answers'
          PROVE  /\ Key(answers[n].request)' \in DOMAIN uses'
                 /\ \A k \in Handlers :
                      AcceptedBy(k)' => Key(job[k].request)' # Key(answers[n].request)'
      BY <1>1, <1>6, <1>7, <1>8 DEF SpentInv, KeysSpent
    <2>4. QED
      BY <1>9, <2>1, <2>2, <2>3 DEF KeysSpent
  <1>11. QED
    BY <1>5, <1>10 DEF SpentInv

\* A copy of a LogoutRequest never logs out a second time, and no provider's
\* request is refused for what another sent: for any windows, skew and age, as
\* long as a handler asks the cache at the instant at which it read the clock.
THEOREM ReplaysNeverLogOut ==
  ASSUME Prompt
  PROVE  Spec => []ReplaysAreRefused
  <1>1. Init => SpentInv
    <2> SUFFICES ASSUME Init PROVE SpentInv
      OBVIOUS
    <2>1. /\ entries = << >> /\ uses = << >> /\ requests = {} /\ job = << >>
          /\ answers = << >> /\ refused = {}
      BY DEF Init, Replay!ReplayInit
    <2>2. QED
      BY <2>1 DEF SpentInv, Cached, KeysOfRequests, KeysSpent, AcceptedBy, ReplaysAreRefused
  <1>2. LogoutInv /\ LogoutInv' /\ SpentInv /\ [Next]_vars => SpentInv'
    <2> SUFFICES ASSUME SloTyped, SloTyped', SpentInv, [Next]_vars PROVE SpentInv'
      BY DEF LogoutInv
    <2>1. clock \in Nat /\ clock' \in Nat
      BY SessionStoreAssumption DEF SloTyped, StoreTypeOK
    <2>2. ASSUME UNCHANGED <<entries, uses, requests, pc, job, refused, answers>>, clock' >= clock
          PROVE  SpentInv'
      <3>1. KeysOfRequests'
        BY <2>2 DEF SpentInv, KeysOfRequests, Key, Expiry
      <3>2. \A h \in Handlers : AcceptedBy(h)' => AcceptedBy(h) /\ job'[h] = job[h]
        BY <2>2 DEF AcceptedBy
      <3>3. QED
        BY <2>1, <2>2, <3>1, <3>2, UnusedKeeps
    <2>3. CASE Manage
      <3>1. clock' = clock
        BY <2>3 DEF Manage, CreateSession, AddParticipant, RemoveParticipant, DestroySession,
                    CleanupExpired
      <3>2. QED
        BY <2>1, <2>2, <2>3, <3>1 DEF Manage, replayVars
    <2>4. CASE Elapse
      BY <2>1, <2>2, <2>4 DEF Elapse, Replay!Advance
    <2>5. CASE SendRequest
      <3>1. \E r0 : /\ requests' = requests \union {r0}
                    /\ \A r \in requests : Key(r) # Key(r0)
        <4>1. PICK s \in Entities, i \in RequestIds, n \in NameId, is \in IndexLists,
                   lead \in 0..MaxLead, bounded \in BOOLEAN, f \in Faults :
                /\ \A r \in requests : <<r.issuer, r.id>> # <<s, i>>
                /\ requests' = requests \union
                     {[issuer |-> s, id |-> i, name |-> n, indexes |-> is,
                       issued |-> clock + lead,
                       until |-> IF bounded THEN clock + lead + Life ELSE Never, fault |-> f]}
          BY <2>5 DEF SendRequest
        <4> DEFINE r0 == [issuer |-> s, id |-> i, name |-> n, indexes |-> is,
                          issued |-> clock + lead,
                          until |-> IF bounded THEN clock + lead + Life ELSE Never, fault |-> f]
        <4>2. Key(r0) = <<s, i>>
          BY DEF Key
        <4> HIDE DEF r0
        <4>3. requests' = requests \union {r0}
          BY <4>1 DEF r0
        <4>4. \A r \in requests : Key(r) # Key(r0)
          BY <4>1, <4>2 DEF Key
        <4>5. QED
          BY <4>3, <4>4
      <3>2. UNCHANGED <<clock, entries, uses, pc, job, refused, answers>>
        BY <2>5 DEF SendRequest, storeVars, replayVars
      <3>3. KeysOfRequests'
        <4>1. PICK r0 : /\ requests' = requests \union {r0}
                        /\ \A r \in requests : Key(r) # Key(r0)
          BY <3>1
        <4>2. QED
          BY <3>2, <4>1 DEF SpentInv, KeysOfRequests, Key, Expiry
      <3>4. \A h \in Handlers : AcceptedBy(h)' => AcceptedBy(h) /\ job'[h] = job[h]
        BY <3>2 DEF AcceptedBy
      <3>5. QED
        BY <2>1, <3>2, <3>3, <3>4, UnusedKeeps
    <2>6. ASSUME NEW h \in Handlers, NEW r \in requests, Authorize(h, r) PROVE SpentInv'
      <3>1. /\ UNCHANGED <<clock, entries, uses, requests, refused, answers>>
            /\ pc[h] = "idle" /\ pc'[h] = "stamped" /\ DOMAIN job' = DOMAIN job \union {h}
            /\ job'[h].request = r
            /\ \A k \in Handlers : k # h => pc'[k] = pc[k]
            /\ \A k \in DOMAIN job : k # h => job'[k] = job[k]
        BY <2>6 DEF Authorize, storeVars, replayVars, SloTyped
      <3>2. KeysOfRequests'
        BY <3>1 DEF SpentInv, KeysOfRequests, Key, Expiry
      <3>3. \A k \in Handlers : AcceptedBy(k)' => AcceptedBy(k) /\ job'[k] = job[k]
        BY <3>1 DEF AcceptedBy
      <3>4. QED
        BY <2>1, <3>1, <3>2, <3>3, UnusedKeeps
    <2>7. ASSUME NEW h \in Handlers, CheckReplay(h) PROVE SpentInv'
      BY <2>7, CheckingKeepsSpent
    <2>8. ASSUME NEW h \in Handlers, Take(h) PROVE SpentInv'
      BY <2>8, TakingKeepsSpent DEF SloTyped
    <2>9. ASSUME NEW h \in Handlers, TakeFails(h) PROVE SpentInv'
      <3>1. /\ UNCHANGED <<clock, entries, uses, requests, refused, answers>>
            /\ h \in DOMAIN job /\ Finish(h)
        BY <2>9 DEF TakeFails, storeVars, replayVars, SloTyped
      <3>2. /\ DOMAIN job' = DOMAIN job \ {h}
            /\ \A k \in DOMAIN job' : job'[k] = job[k] /\ pc'[k] = pc[k]
        BY <3>1, FinishForgets
      <3>3. KeysOfRequests'
        BY <3>1, <3>2 DEF SpentInv, KeysOfRequests, Key, Expiry
      <3>4. \A k \in Handlers : AcceptedBy(k)' => AcceptedBy(k) /\ job'[k] = job[k]
        BY <3>2 DEF AcceptedBy
      <3>5. QED
        BY <2>1, <3>1, <3>3, <3>4, UnusedKeeps
    <2>10. CASE UNCHANGED vars
      BY <2>1, <2>2, <2>10 DEF vars
    <2>11. QED
      BY <2>3, <2>4, <2>5, <2>6, <2>7, <2>8, <2>9, <2>10 DEF Next
  <1>3. SpentInv => ReplaysAreRefused
    BY DEF SpentInv, KeysSpent
  <1>4. QED
    BY <1>1, <1>2, <1>3, LogoutInvariant, PTL DEF Spec
=============================================================================
