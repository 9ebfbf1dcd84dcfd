---------------------------- MODULE IdpSsoProofs ----------------------------
(***************************************************************************)
(* Proofs about web-browser SSO at the identity provider, for any handlers, *)
(* browsers, users, brokers, requests and methods, and any session lifetime. *)
(***************************************************************************)
EXTENDS IdpSso, WellFoundedInduction, TLAPS

\* h has opened no session.
Unprompted(h) == \A n \in DOMAIN logins : logins[n].by # h

\* h has a subject to answer with, or has answered with it.
Answering(h) == pc[h] \in {"respond", "issue", "sign"} \/ outcome[h] = "issued"

\* A request that is answered from a session rests on its login, and one that
\* prompts on a login of its own.
Rests(h) ==
  LET s == job[h].subject
      n == job[h].session
  IN \/ /\ job[h].disposition = "reuse" /\ ~job[h].request.force
        /\ n \in DOMAIN logins /\ s.session = n
        /\ s.user = logins[n].user /\ s.instant = logins[n].at
     \/ /\ job[h].disposition = "authenticate"
        /\ s.session \in DOMAIN logins /\ logins[s.session].by = h

\* What the handler was told to do.
Told(h) ==
  \/ /\ job[h].disposition = "reuse" /\ ~job[h].request.force
     /\ job[h].session \in DOMAIN logins
  \/ job[h].disposition = "authenticate" /\ ~job[h].request.passive

HandlerInv(h) ==
  /\ outcome[h] = "none" <=> pc[h] # "done"
  /\ pc[h] # "idle" => job[h].session \in 0..Len(logins)
  /\ pc[h] \in {"idle", "check", "callback"} => Unprompted(h)
  /\ pc[h] # "idle" /\ job[h].request.passive => Unprompted(h)
  /\ pc[h] = "callback" => Told(h)
  /\ Answering(h) => Rests(h)
  /\ (pc[h] = "sign" \/ outcome[h] = "issued") /\ job[h].disposition = "reuse" =>
       job[h].sessionEnd = job[h].subject.instant + SessionLifetime

\* A NameID is on record, and an assertion stored, for a handler past its denials.
RecordsInv ==
  /\ \A e \in names : pc[e.by] = "sign" \/ outcome[e.by] \in {"issued", "error"}
  /\ \A h \in stored : outcome[h] = "issued"

SsoInv == TypeOK /\ (\A h \in Handlers : HandlerInv(h)) /\ RecordsInv

-----------------------------------------------------------------------------

Labels == {"idle", "check", "callback", "respond", "issue", "sign", "done"}

\* A sequence with one more element.
LEMMA OneMore ==
  ASSUME NEW S, NEW s \in Seq(S), NEW e \in S, NEW t, t = Append(s, e)
  PROVE  /\ t \in Seq(S) /\ Len(t) = Len(s) + 1 /\ t[Len(s) + 1] = e
         /\ \A n \in DOMAIN s : n \in DOMAIN t /\ t[n] = s[n]
         /\ \A n \in DOMAIN t : n \in DOMAIN s \/ t[n] = e
  <1>1. Len(s) \in Nat /\ DOMAIN s = 1..Len(s)
    OBVIOUS
  <1>2. t \in Seq(S) /\ Len(t) = Len(s) + 1 /\ DOMAIN t = 1..(Len(s) + 1)
    OBVIOUS
  <1>3. t[Len(s) + 1] = e /\ \A k \in 1..Len(s) : t[k] = s[k]
    OBVIOUS
  <1>4. QED
    BY <1>1, <1>2, <1>3

LEMMA GotoMoves ==
  ASSUME TypeOK, NEW h \in Handlers, NEW label \in Labels \ {"idle"}, NEW r, Goto(h, label, r)
  PROVE  /\ pc' \in [Handlers -> Labels] /\ pc'[h] = label /\ job'[h] = r
         /\ DOMAIN job' = {k \in Handlers : pc'[k] # "idle"}
         /\ \A k \in Handlers \ {h} : pc'[k] = pc[k] /\ (pc[k] # "idle" => job'[k] = job[k])
  BY DEF Goto, TypeOK, Labels

LEMMA AnswerMoves ==
  ASSUME TypeOK, NEW h \in Handlers, pc[h] # "idle", NEW o, Answer(h, o)
  PROVE  /\ pc' \in [Handlers -> Labels] /\ pc'[h] = "done" /\ outcome'[h] = o
         /\ DOMAIN job' = {k \in Handlers : pc'[k] # "idle"} /\ job' = job
         /\ \A k \in Handlers \ {h} : pc'[k] = pc[k] /\ outcome'[k] = outcome[k]
  BY DEF Answer, TypeOK, Labels

\* The logins so far stay, and another's does not count.
LEMMA OthersKeep ==
  ASSUME TypeOK, NEW k \in Handlers, HandlerInv(k),
         pc'[k] = pc[k], outcome'[k] = outcome[k], pc[k] # "idle" => job'[k] = job[k],
         Len(logins) <= Len(logins'), Len(logins') \in Nat,
         \A n \in DOMAIN logins : n \in DOMAIN logins' /\ logins'[n] = logins[n],
         \A n \in DOMAIN logins' : n \in DOMAIN logins \/ logins'[n].by # k
  PROVE  HandlerInv(k)'
  <1>1. Len(logins) \in Nat
    BY DEF TypeOK
  <1>2. Unprompted(k) => Unprompted(k)'
    BY DEF Unprompted
  <1>3. Answering(k)' => Answering(k) /\ pc[k] # "idle"
    BY DEF Answering, HandlerInv
  <1>4. pc[k] # "idle" /\ Rests(k) => Rests(k)'
    BY DEF Rests
  <1>5. pc[k] # "idle" /\ Told(k) => Told(k)'
    BY DEF Told
  <1>6. pc[k] # "idle" => job'[k].session \in 0..Len(logins')
    BY <1>1 DEF HandlerInv
  <1>7. outcome[k] = "issued" => pc[k] # "idle"
    BY DEF HandlerInv
  <1>8. QED
    BY <1>2, <1>3, <1>4, <1>5, <1>6, <1>7 DEF HandlerInv

\* What the steps that answer a request keep.
LEMMA AnsweringKeeps ==
  ASSUME SsoInv, NEW h \in Handlers, pc[h] \notin {"idle", "done"},
         NEW o \in {"issued", "redirected", "error"} \union Denials, Answer(h, o),
         UNCHANGED <<broker, clock, logins, sessions>>,
         o = "issued" => pc[h] = "sign",
         pc[h] = "sign" => o \in {"issued", "error"},
         \/ names' = names
         \/ names' = names \union {[user |-> job[h].subject.user, by |-> h]}
            /\ o \in {"issued", "error"},
         names' \subseteq [user : Users, by : Handlers],
         \A e, f \in names' : e.user = f.user => e = f,
         stored' = stored \/ (stored' = stored \union {h} /\ o = "issued")
  PROVE  SsoInv'
  <1>1. /\ pc' \in [Handlers -> Labels] /\ pc'[h] = "done" /\ outcome'[h] = o
        /\ DOMAIN job' = {k \in Handlers : pc'[k] # "idle"} /\ job' = job
        /\ \A k \in Handlers \ {h} : pc'[k] = pc[k] /\ outcome'[k] = outcome[k]
    BY AnswerMoves DEF SsoInv
  <1>2. outcome' \in [Handlers -> {"none", "issued", "redirected", "error"} \union Denials]
    BY DEF Answer, SsoInv, TypeOK
  <1>3. stored' \subseteq Handlers
    BY DEF SsoInv, TypeOK
  <1>4. TypeOK'
    <2>1. \A k \in DOMAIN job' : k \in DOMAIN job
      BY <1>1
    <2>2. \A k \in Handlers : pc'[k] \in {"respond", "issue", "sign"} => pc'[k] = pc[k]
      BY <1>1
    <2>3. QED
      BY <1>1, <1>2, <1>3, <2>1, <2>2 DEF SsoInv, TypeOK, Labels
  <1>5. ASSUME NEW k \in Handlers PROVE HandlerInv(k)'
    <2>1. CASE k # h
      <3>1. HandlerInv(k) /\ TypeOK /\ Len(logins) \in Nat
        BY DEF SsoInv, TypeOK
      <3>2. QED
        BY <1>1, <2>1, <3>1, OthersKeep
    <2>2. CASE k = h
      <3>1. /\ HandlerInv(h) /\ Unprompted(h)' = Unprompted(h)
            /\ Rests(h)' = Rests(h)
        BY <1>1 DEF SsoInv, Unprompted, Rests
      <3>2. o # "none"
        BY DEF Denials
      <3>3. Answering(h)' => o = "issued" /\ Answering(h)
        BY <1>1 DEF Answering
      <3>4. QED
        BY <1>1, <2>2, <3>1, <3>2, <3>3 DEF HandlerInv
    <2>3. QED
      BY <2>1, <2>2
  <1>6. RecordsInv'
    <2>1. outcome[h] = "none"
      BY DEF SsoInv, HandlerInv
    <2>2. \A e \in names : e.by \in Handlers
      BY DEF SsoInv, TypeOK
    <2>3. \A e \in names' : pc'[e.by] = "sign" \/ outcome'[e.by] \in {"issued", "error"}
      <3> SUFFICES ASSUME NEW e \in names'
                   PROVE  pc'[e.by] = "sign" \/ outcome'[e.by] \in {"issued", "error"}
        OBVIOUS
      <3>1. CASE e \in names /\ e.by # h
        BY <1>1, <2>2, <3>1 DEF SsoInv, RecordsInv
      <3>2. CASE e \in names /\ e.by = h
        BY <1>1, <2>1, <3>2 DEF SsoInv, RecordsInv
      <3>3. CASE e \notin names
        BY <1>1, <3>3
      <3>4. QED
        BY <3>1, <3>2, <3>3
    <2>4. \A k \in stored' : outcome'[k] = "issued"
      <3>1. \A k \in stored : k # h /\ k \in Handlers
        BY <2>1 DEF SsoInv, RecordsInv, TypeOK
      <3>2. QED
        BY <1>1, <3>1 DEF SsoInv, RecordsInv
    <2>5. QED
      BY <2>3, <2>4 DEF RecordsInv
  <1>7. QED
    BY <1>4, <1>5, <1>6 DEF SsoInv

\* What the steps that go on with a request keep, when the handler is right
\* afterwards.
LEMMA GoingOnKeeps ==
  ASSUME SsoInv, NEW h \in Handlers, pc[h] # "done", NEW label \in Labels \ {"idle", "done"},
         NEW r, Goto(h, label, r), UNCHANGED <<broker, clock, stored, outcome>>,
         r.browser \in Browsers, r.request \in AuthnRequest,
         label \in {"respond", "issue", "sign"} => r.subject \in Subject,
         pc[h] # "sign", HandlerInv(h)',
         sessions' \in [Browsers -> 0..Len(logins')],
         \/ logins' = logins
         \/ \E login \in Login : /\ logins' = Append(logins, login) /\ login.by = h
                                 /\ Len(logins) < MaxLogins,
         \/ names' = names
         \/ /\ names' = names \union {[user |-> r.subject.user, by |-> h]}
            /\ label = "sign" /\ ~OnRecord(r.subject.user)
  PROVE  SsoInv'
  <1>1. /\ pc' \in [Handlers -> Labels] /\ pc'[h] = label /\ job'[h] = r
        /\ DOMAIN job' = {k \in Handlers : pc'[k] # "idle"}
        /\ \A k \in Handlers \ {h} : pc'[k] = pc[k] /\ (pc[k] # "idle" => job'[k] = job[k])
    BY GotoMoves DEF SsoInv
  <1>2. /\ logins \in Seq(Login) /\ Len(logins) \in Nat /\ Len(logins) <= MaxLogins
        /\ MaxLogins \in Nat
    BY IdpSsoAssumption DEF SsoInv, TypeOK
  <1>3. /\ logins' \in Seq(Login) /\ Len(logins') \in Nat /\ Len(logins') <= MaxLogins
        /\ Len(logins) <= Len(logins')
        /\ \A n \in DOMAIN logins : n \in DOMAIN logins' /\ logins'[n] = logins[n]
        /\ \A n \in DOMAIN logins' : n \in DOMAIN logins \/ logins'[n].by = h
    <2>1. CASE logins' = logins
      BY <1>2, <2>1
    <2>2. ASSUME NEW login \in Login, logins' = Append(logins, login), login.by = h,
                 Len(logins) < MaxLogins
          PROVE  /\ logins' \in Seq(Login) /\ Len(logins') \in Nat /\ Len(logins') <= MaxLogins
                 /\ Len(logins) <= Len(logins')
                 /\ \A n \in DOMAIN logins : n \in DOMAIN logins' /\ logins'[n] = logins[n]
                 /\ \A n \in DOMAIN logins' : n \in DOMAIN logins \/ logins'[n].by = h
      <3>1. logins' \in Seq(Login) /\ Len(logins') = Len(logins) + 1
        BY <1>2, <2>2, OneMore
      <3>2. \A n \in DOMAIN logins : n \in DOMAIN logins' /\ logins'[n] = logins[n]
        BY <1>2, <2>2, OneMore
      <3>3. \A n \in DOMAIN logins' : n \in DOMAIN logins \/ logins'[n] = login
        BY <1>2, <2>2, OneMore
      <3>4. \A n \in DOMAIN logins' : n \in DOMAIN logins \/ logins'[n].by = h
        BY <2>2, <3>3
      <3>5. Len(logins') <= MaxLogins /\ Len(logins') \in Nat /\ Len(logins) <= Len(logins')
        BY <1>2, <2>2, <3>1
      <3>6. QED
        BY <3>1, <3>2, <3>4, <3>5
    <2>3. QED
      BY <2>1, <2>2
  <1>4. /\ names' \subseteq [user : Users, by : Handlers]
        /\ \A e, f \in names' : e.user = f.user => e = f
    <2>1. CASE names' = names
      BY <2>1 DEF SsoInv, TypeOK
    <2>2. CASE /\ names' = names \union {[user |-> r.subject.user, by |-> h]}
               /\ label = "sign" /\ ~OnRecord(r.subject.user)
      <3> DEFINE e0 == [user |-> r.subject.user, by |-> h]
      <3>1. e0 \in [user : Users, by : Handlers] /\ e0.user = r.subject.user
        BY <2>2 DEF Subject
      <3>2. \A e \in names : e.user # r.subject.user
        BY <2>2 DEF OnRecord
      <3> HIDE DEF e0
      <3>3. names' = names \union {e0}
        BY <2>2 DEF e0
      <3>4. QED
        BY <3>1, <3>2, <3>3 DEF SsoInv, TypeOK
    <2>3. QED
      BY <2>1, <2>2
  <1>5. \A k \in DOMAIN job' : job'[k].browser \in Browsers /\ job'[k].request \in AuthnRequest
    BY <1>1 DEF SsoInv, TypeOK
  <1>6. \A k \in Handlers : pc'[k] \in {"respond", "issue", "sign"} => job'[k].subject \in Subject
    BY <1>1 DEF SsoInv, TypeOK
  <1>7. TypeOK'
    BY <1>1, <1>3, <1>4, <1>5, <1>6 DEF SsoInv, TypeOK, Labels
  <1>8. ASSUME NEW k \in Handlers PROVE HandlerInv(k)'
    <2>1. CASE k # h
      <3>1. HandlerInv(k) /\ TypeOK
        BY DEF SsoInv
      <3>2. QED
        BY <1>1, <1>3, <2>1, <3>1, OthersKeep
    <2>2. QED
      BY <2>1
  <1>9. RecordsInv'
    <2>1. outcome[h] = "none"
      BY DEF SsoInv, HandlerInv
    <2>2. \A e \in names : e.by \in Handlers
      BY DEF SsoInv, TypeOK
    <2>3. \A e \in names : e.by # h
      BY <2>1 DEF SsoInv, RecordsInv
    <2>4. \A e \in names' : pc'[e.by] = "sign" \/ outcome'[e.by] \in {"issued", "error"}
      <3> SUFFICES ASSUME NEW e \in names'
                   PROVE  pc'[e.by] = "sign" \/ outcome'[e.by] \in {"issued", "error"}
        OBVIOUS
      <3>1. CASE e \in names
        BY <1>1, <2>2, <2>3, <3>1 DEF SsoInv, RecordsInv
      <3>2. CASE e \notin names
        BY <1>1, <3>2
      <3>3. QED
        BY <3>1, <3>2
    <2>5. QED
      BY <2>4 DEF RecordsInv, SsoInv
  <1>10. QED
    BY <1>7, <1>8, <1>9 DEF SsoInv
-----------------------------------------------------------------------------

LEMMA TickKeeps == ASSUME SsoInv, Tick PROVE SsoInv'
  <1>1. TypeOK'
    BY IdpSsoAssumption DEF SsoInv, TypeOK, Tick
  <1>2. ASSUME NEW k \in Handlers PROVE HandlerInv(k)'
    <2>1. TypeOK /\ HandlerInv(k) /\ Len(logins) \in Nat
      BY DEF SsoInv, TypeOK
    <2>2. QED
      BY <2>1, OthersKeep DEF Tick
  <1>3. RecordsInv'
    BY DEF SsoInv, RecordsInv, Tick
  <1>4. QED
    BY <1>1, <1>2, <1>3 DEF SsoInv

LEMMA LogoutKeeps == ASSUME SsoInv, NEW b \in Browsers, Logout(b) PROVE SsoInv'
  <1>1. TypeOK'
    <2>1. Len(logins) \in Nat
      BY DEF SsoInv, TypeOK
    <2>2. QED
      BY <2>1 DEF SsoInv, TypeOK, Logout
  <1>2. ASSUME NEW k \in Handlers PROVE HandlerInv(k)'
    <2>1. TypeOK /\ HandlerInv(k) /\ Len(logins) \in Nat
      BY DEF SsoInv, TypeOK
    <2>2. QED
      BY <2>1, OthersKeep DEF Logout
  <1>3. RecordsInv'
    BY DEF SsoInv, RecordsInv, Logout
  <1>4. QED
    BY <1>1, <1>2, <1>3 DEF SsoInv

\* The session a handler is told of is one there has been.
LEMMA ReceiveKeeps == ASSUME SsoInv, NEW h \in Handlers, Receive(h) PROVE SsoInv'
  <1>1. PICK b \in Browsers, q \in Requests[h] :
          Goto(h, "check", [browser |-> b, request |-> q, session |-> sessions[b]])
    BY DEF Receive
  <1> DEFINE r == [browser |-> b, request |-> q, session |-> sessions[b]]
  <1>2. /\ r.browser \in Browsers /\ r.request \in AuthnRequest
        /\ r.session \in 0..Len(logins) /\ r.request = q
    BY IdpSsoAssumption DEF SsoInv, TypeOK
  <1>3. Goto(h, "check", r)
    BY <1>1
  <1> HIDE DEF r
  <1>4. pc'[h] = "check" /\ job'[h] = r /\ pc[h] = "idle"
    BY <1>3, GotoMoves DEF SsoInv, Labels, Receive
  <1>5. UNCHANGED <<broker, clock, logins, sessions, names, stored, outcome>>
    BY DEF Receive
  <1>6. HandlerInv(h)'
    <2>1. HandlerInv(h) /\ Unprompted(h)' = Unprompted(h)
      BY <1>5 DEF SsoInv, Unprompted
    <2>2. outcome'[h] = "none" /\ ~Answering(h)'
      BY <1>4, <1>5, <2>1 DEF HandlerInv, Answering
    <2>3. QED
      BY <1>2, <1>4, <1>5, <2>1, <2>2 DEF HandlerInv
  <1>7. sessions' \in [Browsers -> 0..Len(logins')]
    BY <1>5 DEF SsoInv, TypeOK
  <1>8. QED
    BY <1>2, <1>3, <1>4, <1>5, <1>6, <1>7, GoingOnKeeps DEF Labels

\* A session is reused only where force is off, and a user prompted only where
\* passive is.
LEMMA CheckKeeps == ASSUME SsoInv, NEW h \in Handlers, Check(h) PROVE SsoInv'
  <1> DEFINE d == Disposition(h)
  <1>1. /\ pc[h] = "check" /\ UNCHANGED <<broker, clock, logins, sessions, names, stored>>
        /\ h \in DOMAIN job
    BY DEF Check, SsoInv, TypeOK
  <1>2. d \in {"NoAuthnContext", "reuse", "NoPassive", "authenticate"}
    BY DEF Disposition
  <1>3. CASE d \in Denials /\ Answer(h, d)
    BY <1>1, <1>2, <1>3, AnsweringKeeps DEF SsoInv, TypeOK, Denials
  <1>4. CASE d \notin Denials
    <2> DEFINE r == [browser |-> job[h].browser, request |-> job[h].request,
                     session |-> job[h].session, disposition |-> d,
                     offered |-> IF d = "reuse" THEN {} ELSE Pick(broker, job[h].request.context)]
    <2>1. Goto(h, "callback", r) /\ UNCHANGED outcome
      BY <1>4 DEF Check
    <2>2. /\ r.browser = job[h].browser /\ r.request = job[h].request
          /\ r.session = job[h].session /\ r.disposition = d
      OBVIOUS
    <2>3. \/ d = "reuse" /\ Reusable(h)
          \/ d = "authenticate" /\ ~job[h].request.passive
      BY <1>2, <1>4 DEF Disposition, Denials
    <2> HIDE DEF r, d
    <2>4. pc'[h] = "callback" /\ job'[h] = r
      BY <2>1, GotoMoves DEF SsoInv, Labels
    <2>5. HandlerInv(h)'
      <3>1. HandlerInv(h) /\ Unprompted(h)' = Unprompted(h)
        BY <1>1 DEF SsoInv, Unprompted
      <3>2. outcome'[h] = "none" /\ ~Answering(h)'
        BY <1>1, <2>1, <2>4, <3>1 DEF HandlerInv, Answering
      <3>3. Told(h)'
        <4>1. Len(logins) \in Nat /\ DOMAIN logins = 1..Len(logins)
          BY DEF SsoInv, TypeOK
        <4>2. job[h].session \in 0..Len(logins)
          BY <1>1, <3>1 DEF HandlerInv
        <4>3. Reusable(h) => job[h].session # 0 /\ ~job[h].request.force
          BY DEF Reusable
        <4>4. QED
          BY <1>1, <2>2, <2>3, <2>4, <4>1, <4>2, <4>3 DEF Told
      <3>4. QED
        BY <1>1, <2>1, <2>2, <2>4, <3>1, <3>2, <3>3 DEF HandlerInv
    <2>6. sessions' \in [Browsers -> 0..Len(logins')]
      BY <1>1 DEF SsoInv, TypeOK
    <2>7. r.browser \in Browsers /\ r.request \in AuthnRequest
      BY <1>1, <2>2 DEF SsoInv, TypeOK
    <2>8. QED
      BY <1>1, <2>1, <2>5, <2>6, <2>7, GoingOnKeeps DEF Labels
  <1>5. QED
    BY <1>3, <1>4 DEF Check

LEMMA DeclineKeeps == ASSUME SsoInv, NEW h \in Handlers, Decline(h) PROVE SsoInv'
  <1>1. PICK o \in {"redirected", "AuthnFailed", "error"} : Answer(h, o)
    BY DEF Decline
  <1>2. o \in {"issued", "redirected", "error"} \union Denials
    BY DEF Denials
  <1>3. QED
    BY <1>1, <1>2, AnsweringKeeps DEF Decline, SsoInv, TypeOK

\* The response goes on resting on the login it is given.
LEMMA RespondKeeps == ASSUME SsoInv, NEW h \in Handlers, Respond(h) PROVE SsoInv'
  <1>1. pc[h] = "respond" /\ UNCHANGED <<broker, clock, logins, sessions, names, stored>>
    BY DEF Respond
  <1>2. CASE Refusal(h) # "none" /\ Answer(h, Refusal(h))
    <2>1. Refusal(h) \in {"error"} \union Denials
      BY <1>2 DEF Refusal, Denials
    <2>2. Refusal(h) # "issued"
      BY <2>1 DEF Denials
    <2>3. QED
      BY <1>1, <1>2, <2>1, <2>2, AnsweringKeeps DEF SsoInv, TypeOK
  <1>3. CASE Goto(h, "issue", job[h]) /\ UNCHANGED outcome
    <2>1. pc'[h] = "issue" /\ job'[h] = job[h]
      BY <1>3, GotoMoves DEF SsoInv, Labels
    <2>2. HandlerInv(h)'
      <3>1. /\ HandlerInv(h) /\ Unprompted(h)' = Unprompted(h)
            /\ Rests(h)' = Rests(h) /\ Answering(h)
        BY <1>1, <2>1 DEF SsoInv, Unprompted, Rests, Answering
      <3>2. QED
        BY <1>1, <1>3, <2>1, <3>1 DEF HandlerInv
    <2>3. /\ sessions' \in [Browsers -> 0..Len(logins')]
          /\ job[h].browser \in Browsers /\ job[h].request \in AuthnRequest
          /\ job[h].subject \in Subject
      BY <1>1 DEF SsoInv, TypeOK
    <2>4. QED
      BY <1>1, <1>3, <2>2, <2>3, GoingOnKeeps DEF Labels
  <1>4. QED
    BY <1>2, <1>3 DEF Respond

\* The reused session's method, instant and index replace the callback's.
LEMMA PinnedToLogin ==
  ASSUME NEW u \in Users, NEW m, NEW t, NEW n \in 0..MaxLogins, logins[n] \in Login,
         NEW s, s = Pinned([user |-> u, method |-> m, instant |-> t, session |-> 0], n)
  PROVE  /\ s \in Subject /\ s.user = u /\ s.instant = logins[n].at /\ s.session = n
         /\ s.method = logins[n].method
  <1> DEFINE login == logins[n]
  <1>1. login.method \in Method /\ login.at \in 0..MaxTime
    BY DEF Login
  <1> HIDE DEF login
  <1>2. s = [[[[user |-> u, method |-> m, instant |-> t, session |-> 0]
               EXCEPT !.method = login.method] EXCEPT !.instant = login.at] EXCEPT !.session = n]
    BY DEF Pinned, login
  <1>3. s = [user |-> u, method |-> login.method, instant |-> login.at, session |-> n]
    BY <1>2
  <1>4. QED
    BY <1>1, <1>3 DEF Subject, login

LEMMA ReuseSessionKeeps == ASSUME SsoInv, NEW h \in Handlers, ReuseSession(h) PROVE SsoInv'
  <1> DEFINE n == job[h].session
  <1>1. /\ pc[h] = "callback" /\ job[h].disposition = "reuse"
        /\ UNCHANGED <<broker, clock, logins, sessions, names, stored>>
    BY DEF ReuseSession
  <1>2. HandlerInv(h) /\ Told(h) /\ ~job[h].request.force /\ n \in DOMAIN logins
    BY <1>1 DEF SsoInv, HandlerInv, Told
  <1>3. PICK u \in Users, m \in Methods, t \in {Fresh, clock} :
          \/ Answer(h, "error")
          \/ /\ u = logins[n].user
             /\ Goto(h, "respond", WithSubject(h,
                  Pinned([user |-> u, method |-> m, instant |-> t, session |-> 0], n)))
             /\ UNCHANGED outcome
    BY DEF ReuseSession
  <1>4. CASE Answer(h, "error")
    BY <1>1, <1>4, AnsweringKeeps DEF SsoInv, TypeOK
  <1>5. CASE /\ u = logins[n].user
             /\ Goto(h, "respond", WithSubject(h,
                  Pinned([user |-> u, method |-> m, instant |-> t, session |-> 0], n)))
             /\ UNCHANGED outcome
    <2> DEFINE s == Pinned([user |-> u, method |-> m, instant |-> t, session |-> 0], n)
               r == WithSubject(h, s)
    <2>1. logins[n] \in Login /\ n \in 0..MaxLogins
      BY <1>2, IdpSsoAssumption DEF SsoInv, TypeOK
    <2>2. s \in Subject /\ s.user = u /\ s.instant = logins[n].at /\ s.session = n
      BY <2>1, PinnedToLogin
    <2>3. s.user = logins[n].user
      BY <1>5, <2>2
    <2> HIDE DEF s
    <2>4. /\ r.browser = job[h].browser /\ r.request = job[h].request
          /\ r.session = n /\ r.disposition = "reuse" /\ r.subject = s
      BY <1>1 DEF WithSubject
    <2>5. Goto(h, "respond", r)
      BY <1>5 DEF s
    <2> HIDE DEF r
    <2>6. pc'[h] = "respond" /\ job'[h] = r
      BY <2>5, GotoMoves DEF SsoInv, Labels
    <2>7. Rests(h)'
      BY <1>1, <1>2, <2>2, <2>3, <2>4, <2>6 DEF Rests
    <2>8. HandlerInv(h)'
      <3>1. Unprompted(h)' = Unprompted(h)
        BY <1>1 DEF Unprompted
      <3>2. QED
        BY <1>1, <1>2, <1>5, <2>4, <2>6, <2>7, <3>1 DEF HandlerInv
    <2>9. /\ sessions' \in [Browsers -> 0..Len(logins')]
          /\ r.browser \in Browsers /\ r.request \in AuthnRequest
      BY <1>1, <2>4 DEF SsoInv, TypeOK
    <2>10. QED
      BY <1>1, <1>5, <2>2, <2>4, <2>5, <2>8, <2>9, GoingOnKeeps DEF Labels
  <1>6. QED
    BY <1>3, <1>4, <1>5

\* The login opened is the handler's own.
LEMMA AuthenticateKeeps == ASSUME SsoInv, NEW h \in Handlers, Authenticate(h) PROVE SsoInv'
  <1> DEFINE n == Len(logins) + 1
  <1>1. /\ pc[h] = "callback" /\ job[h].disposition = "authenticate" /\ n <= MaxLogins
        /\ UNCHANGED <<broker, clock, names, stored, outcome>>
        /\ sessions' = [sessions EXCEPT ![job[h].browser] = n]
    BY DEF Authenticate
  <1>2. HandlerInv(h) /\ Told(h) /\ ~job[h].request.passive
    BY <1>1 DEF SsoInv, HandlerInv, Told
  <1>3. /\ logins \in Seq(Login) /\ Len(logins) \in Nat /\ clock \in 0..MaxTime
        /\ MaxLogins \in Nat /\ job[h].browser \in Browsers /\ job[h].request \in AuthnRequest
    BY <1>1, IdpSsoAssumption DEF SsoInv, TypeOK
  <1>4. PICK u \in Users, m \in Methods, t \in {Fresh, clock} :
          /\ logins' = Append(logins, [user |-> u, method |-> m, at |-> clock, by |-> h])
          /\ Goto(h, "respond", WithSubject(h,
               [user |-> u, method |-> m, instant |-> t, session |-> n]))
    BY DEF Authenticate
  <1> DEFINE login == [user |-> u, method |-> m, at |-> clock, by |-> h]
             s == [user |-> u, method |-> m, instant |-> t, session |-> n]
             r == WithSubject(h, s)
  <1>5. login \in Login /\ login.by = h
    BY <1>3, IdpSsoAssumption DEF Login
  <1>6. s \in Subject /\ s.session = n
    <2>1. n \in 0..MaxLogins
      BY <1>1, <1>3
    <2>2. m \in Method /\ t \in 0..MaxTime \union {Fresh}
      BY <1>3, IdpSsoAssumption
    <2>3. QED
      BY <2>1, <2>2 DEF Subject
  <1>7. logins' = Append(logins, login) /\ Goto(h, "respond", r)
    BY <1>4
  <1> HIDE DEF s, login
  <1>8. /\ r.browser = job[h].browser /\ r.request = job[h].request
        /\ r.session = job[h].session /\ r.disposition = "authenticate" /\ r.subject = s
    BY <1>1 DEF WithSubject
  <1> HIDE DEF r
  <1>9. pc'[h] = "respond" /\ job'[h] = r
    BY <1>7, GotoMoves DEF SsoInv, Labels
  <1>10. logins' \in Seq(Login) /\ Len(logins') = n /\ logins'[n] = login
    BY <1>3, <1>5, <1>7, OneMore
  <1>11. DOMAIN logins' = 1..n
    BY <1>10
  <1>12. Rests(h)'
    <2>1. n \in DOMAIN logins'
      BY <1>3, <1>11
    <2>2. QED
      BY <1>5, <1>6, <1>8, <1>9, <1>10, <2>1 DEF Rests
  <1>13. HandlerInv(h)'
    <2>1. job[h].session \in 0..Len(logins')
      BY <1>1, <1>2, <1>3, <1>10 DEF HandlerInv
    <2>2. QED
      BY <1>1, <1>2, <1>8, <1>9, <1>12, <2>1 DEF HandlerInv
  <1>14. sessions' \in [Browsers -> 0..Len(logins')]
    BY <1>1, <1>3, <1>10 DEF SsoInv, TypeOK
  <1>15. Len(logins) < MaxLogins
    BY <1>1, <1>3
  <1>16. QED
    BY <1>1, <1>3, <1>5, <1>6, <1>7, <1>8, <1>13, <1>14, <1>15, GoingOnKeeps DEF Labels

\* A NameID is recorded only for a response that is not denied any more.
LEMMA ConstructKeeps == ASSUME SsoInv, NEW h \in Handlers, ConstructNameId(h) PROVE SsoInv'
  <1> DEFINE s == job[h].subject
             start == IF s.instant = Fresh THEN clock ELSE s.instant
             r == [browser |-> job[h].browser, request |-> job[h].request,
                   session |-> job[h].session, disposition |-> job[h].disposition,
                   offered |-> job[h].offered, subject |-> s,
                   sessionEnd |-> start + SessionLifetime]
  <1>1. /\ pc[h] = "issue" /\ UNCHANGED <<broker, clock, logins, sessions, stored>>
        /\ job[h].browser \in Browsers /\ job[h].request \in AuthnRequest /\ s \in Subject
    BY DEF ConstructNameId, SsoInv, TypeOK
  <1>2. NameRefusal(h) \in {"none", "InvalidNameIdPolicy", "NameIdCreationNotAllowed"}
    BY DEF NameRefusal
  <1>3. NameRefusal(h) # "none" => Recorded(h) = names
    BY DEF Recorded
  <1>4. CASE NameRefusal(h) # "none" /\ Answer(h, NameRefusal(h)) /\ names' = names
    BY <1>1, <1>2, <1>4, AnsweringKeeps DEF SsoInv, TypeOK, Denials
  <1>5. CASE Answer(h, "error") /\ UNCHANGED names
    BY <1>1, <1>5, AnsweringKeeps DEF SsoInv, TypeOK
  <1>6. CASE Goto(h, "sign", r) /\ names' = Recorded(h) /\ UNCHANGED outcome
    <2>1. /\ r.browser = job[h].browser /\ r.request = job[h].request
          /\ r.session = job[h].session /\ r.disposition = job[h].disposition
          /\ r.subject = s /\ r.sessionEnd = start + SessionLifetime
      OBVIOUS
    <2> HIDE DEF r
    <2>2. pc'[h] = "sign" /\ job'[h] = r
      BY <1>6, GotoMoves DEF SsoInv, Labels
    <2>3. /\ HandlerInv(h) /\ Unprompted(h)' = Unprompted(h) /\ Answering(h)
      BY <1>1 DEF SsoInv, Unprompted, Answering
    <2>4. Rests(h) /\ Rests(h)'
      BY <1>1, <2>1, <2>2, <2>3 DEF HandlerInv, Rests
    <2>5. job[h].disposition = "reuse" => s.instant # Fresh
      <3>1. ASSUME job[h].disposition = "reuse" PROVE s.instant \in Nat
        <4>1. job[h].session \in DOMAIN logins /\ s.instant = logins[job[h].session].at
          BY <2>4, <3>1 DEF Rests
        <4>2. logins[job[h].session] \in Login
          BY <4>1 DEF SsoInv, TypeOK
        <4>3. QED
          BY <4>1, <4>2 DEF Login
      <3>2. QED
        BY <3>1, IdpSsoAssumption
    <2>6. HandlerInv(h)'
      BY <1>1, <1>6, <2>1, <2>2, <2>3, <2>4, <2>5 DEF HandlerInv
    <2>7. sessions' \in [Browsers -> 0..Len(logins')]
      BY <1>1 DEF SsoInv, TypeOK
    <2>8. \/ names' = names
          \/ /\ names' = names \union {[user |-> r.subject.user, by |-> h]}
             /\ ~OnRecord(r.subject.user)
      BY <1>6, <2>1 DEF Recorded
    <2>9. QED
      BY <1>1, <1>6, <2>1, <2>6, <2>7, <2>8, GoingOnKeeps DEF Labels
  <1>7. QED
    BY <1>3, <1>4, <1>5, <1>6 DEF ConstructNameId

LEMMA SignKeeps == ASSUME SsoInv, NEW h \in Handlers, Sign(h) PROVE SsoInv'
  <1>1. pc[h] = "sign" /\ UNCHANGED <<broker, clock, logins, sessions, names>>
    BY DEF Sign
  <1>2. PICK o \in {"issued", "error"} :
          Answer(h, o) /\ (stored' = stored \/ (stored' = stored \union {h} /\ o = "issued"))
    BY DEF Sign
  <1>3. QED
    BY <1>1, <1>2, AnsweringKeeps DEF SsoInv, TypeOK

LEMMA SsoInvInit == Init => SsoInv
  <1> SUFFICES ASSUME Init PROVE SsoInv
    OBVIOUS
  <1>1. TypeOK
    BY IdpSsoAssumption DEF Init, TypeOK
  <1>2. \A h \in Handlers : HandlerInv(h)
    BY DEF Init, HandlerInv, Answering, Unprompted
  <1>3. QED
    BY <1>1, <1>2 DEF Init, SsoInv, RecordsInv

LEMMA SsoInvNext == SsoInv /\ [Next]_vars => SsoInv'
  <1> SUFFICES ASSUME SsoInv, [Next]_vars PROVE SsoInv'
    OBVIOUS
  <1>1. CASE Tick
    BY <1>1, TickKeeps
  <1>2. CASE \E b \in Browsers : Logout(b)
    BY <1>2, LogoutKeeps
  <1>3. ASSUME NEW h \in Handlers,
               \/ Receive(h) \/ Check(h) \/ ReuseSession(h) \/ Authenticate(h) \/ Decline(h)
               \/ Respond(h) \/ ConstructNameId(h) \/ Sign(h)
        PROVE  SsoInv'
    BY <1>3, ReceiveKeeps, CheckKeeps, ReuseSessionKeeps, AuthenticateKeeps, DeclineKeeps,
       RespondKeeps, ConstructKeeps, SignKeeps
  <1>4. CASE UNCHANGED vars
    BY <1>4 DEF vars, SsoInv, TypeOK, HandlerInv, RecordsInv, Unprompted, Answering, Rests, Told
  <1>5. QED
    BY <1>1, <1>2, <1>3, <1>4 DEF Next

LEMMA SsoInvHolds == Spec => []SsoInv
  BY SsoInvInit, SsoInvNext, PTL DEF Spec

\* Every state of the provider's single sign-on is well typed.
THEOREM TypeCorrect == Spec => []TypeOK
  BY SsoInvHolds, PTL DEF SsoInv

\* ForceAuthn is answered from a login of its own, and nobody is prompted for an
\* IsPassive request, whatever runs in parallel.
THEOREM PromptsAreAsAsked == Spec => []PromptingAsAsked
  <1>1. SsoInv => PromptingAsAsked
    <2> SUFFICES ASSUME SsoInv, NEW h \in Handlers
                 PROVE  /\ outcome[h] = "issued" /\ job[h].request.force =>
                             logins[job[h].subject.session].by = h
                        /\ pc[h] # "idle" /\ job[h].request.passive =>
                             \A n \in DOMAIN logins : logins[n].by # h
      BY DEF PromptingAsAsked
    <2>1. HandlerInv(h)
      BY DEF SsoInv
    <2>2. outcome[h] = "issued" => Rests(h)
      BY <2>1 DEF HandlerInv, Answering
    <2>3. QED
      BY <2>1, <2>2 DEF HandlerInv, Unprompted, Rests
  <1>2. QED
    BY <1>1, SsoInvHolds, PTL

\* A reused session is answered with its own user and ends when its login's
\* lifetime does.
THEOREM SessionsNeverSlide == Spec => []SessionNeverSlides
  <1>1. SsoInv => SessionNeverSlides
    <2> SUFFICES ASSUME SsoInv, NEW h \in Handlers,
                        outcome[h] = "issued", job[h].disposition = "reuse"
                 PROVE  /\ job[h].subject.session = job[h].session
                        /\ job[h].subject.user = logins[job[h].session].user
                        /\ job[h].sessionEnd = logins[job[h].session].at + SessionLifetime
      BY DEF SessionNeverSlides
    <2>1. HandlerInv(h)
      BY DEF SsoInv
    <2>2. QED
      BY <2>1 DEF HandlerInv, Answering, Rests
  <1>2. QED
    BY <1>1, SsoInvHolds, PTL

\* What is on record or in the store is there for a response past its denials.
THEOREM DenialsLeaveNothing == Spec => []DenialLeavesNothing
  <1>1. SsoInv => DenialLeavesNothing
    <2> SUFFICES ASSUME SsoInv PROVE DenialLeavesNothing
      OBVIOUS
    <2>1. \A e \in names : e.by \in Handlers
      BY DEF SsoInv, TypeOK
    <2>2. \A e \in names : outcome[e.by] \in {"none", "issued", "error"}
      BY <2>1 DEF SsoInv, RecordsInv, HandlerInv
    <2>3. QED
      BY <2>2 DEF SsoInv, RecordsInv, DenialLeavesNothing
  <1>2. QED
    BY <1>1, SsoInvHolds, PTL

-----------------------------------------------------------------------------
(* The broker: the level a class is measured by is one it is registered with. *)

LEMMA LeastOf ==
  ASSUME NEW S \in SUBSET Nat, S # {}
  PROVE  \E x \in S : \A y \in S : x <= y
  <1>1. IsWellFoundedOn(OpToRel(<, Nat), Nat)
    BY NatLessThanWellFounded
  <1>2. PICK x \in S : \A y \in S : ~(<<y, x>> \in OpToRel(<, Nat))
    BY <1>1, WFMin
  <1>3. \A y \in S : ~(y < x)
    BY <1>2 DEF OpToRel
  <1>4. QED
    BY <1>3

LEMMA GreatestOf ==
  ASSUME NEW bound \in Nat, NEW S \in SUBSET (0..bound), S # {}
  PROVE  \E x \in S : \A y \in S : y <= x
  <1> DEFINE T == {bound - y : y \in S}
  <1>1. T \in SUBSET Nat /\ T # {}
    <2>1. ASSUME NEW z \in T PROVE z \in Nat
      <3>1. PICK y \in S : z = bound - y
        OBVIOUS
      <3>2. QED
        BY <3>1
    <2>2. PICK y \in S : TRUE
      OBVIOUS
    <2>3. bound - y \in T
      OBVIOUS
    <2>4. QED
      BY <2>1, <2>3
  <1>2. PICK t \in T : \A y \in T : t <= y
    BY <1>1, LeastOf
  <1>3. PICK x \in S : t = bound - x
    OBVIOUS
  <1>4. \A y \in S : bound - x <= bound - y
    BY <1>2, <1>3
  <1>5. QED
    BY <1>4

LEMMA ElementOf == ASSUME NEW S, NEW s \in Seq(S) PROVE \A k \in DOMAIN s : s[k] \in S
  OBVIOUS

\* The levels of a class's registrations, and how Seed chooses one of them.
Levels(b, class) == {b.methods[k].level : k \in OfClass(b, class)}

LEMMA SeedOfClass ==
  ASSUME NEW b \in Broker, NEW class, NEW comparison \in Comparisons, OfClass(b, class) # {}
  PROVE  Seed(b, class, comparison) \in Levels(b, class)
  <1> DEFINE same == OfClass(b, class)
             level(k) == b.methods[k].level
  <1>1. /\ \A k \in same : level(k) \in 0..MaxLevel
        /\ same \in SUBSET Nat /\ MaxLevel \in Nat
    <2>1. b.methods \in Seq([class : Classes, level : 0..MaxLevel])
      BY DEF Broker
    <2>2. same \subseteq DOMAIN b.methods /\ DOMAIN b.methods \subseteq Nat
      BY <2>1 DEF OfClass
    <2>3. \A k \in DOMAIN b.methods : b.methods[k] \in [class : Classes, level : 0..MaxLevel]
      BY <2>1, ElementOf
    <2> HIDE DEF same
    <2>4. \A k \in same : level(k) \in 0..MaxLevel
      BY <2>2, <2>3
    <2>5. QED
      BY <2>2, <2>4, IdpSsoAssumption
  <1>2. CASE comparison = "exact"
    <2>1. \E k \in same : \A j \in same : k <= j
      BY <1>1, LeastOf
    <2>2. (CHOOSE k \in same : \A j \in same : k <= j) \in same
      BY <2>1
    <2>3. QED
      BY <1>2, <2>2 DEF Seed, Levels
  <1>3. CASE comparison # "exact"
    <2> DEFINE L == Levels(b, class)
               Settled(l) == \A k \in same : level(k) # l => ~Satisfies(comparison, l, level(k))
    <2>1. Seed(b, class, comparison) = CHOOSE l \in L : Settled(l)
      BY <1>3 DEF Seed, Levels
    <2>2. /\ L \in SUBSET (0..MaxLevel) /\ L \in SUBSET Nat /\ L # {}
          /\ \A k \in same : level(k) \in L
      BY <1>1 DEF Levels
    <2>3. \E l \in L : Settled(l)
      <3>1. CASE comparison = "maximum"
        <4>1. PICK l \in L : \A m \in L : l <= m
          BY <2>2, LeastOf
        <4>2. ASSUME NEW k \in same, level(k) # l PROVE ~Satisfies(comparison, l, level(k))
          BY <1>1, <2>2, <3>1, <4>1, <4>2 DEF Satisfies
        <4>3. QED
          BY <4>2
      <3>2. CASE comparison \in {"minimum", "better"}
        <4>1. PICK l \in L : \A m \in L : m <= l
          BY <1>1, <2>2, GreatestOf
        <4>2. ASSUME NEW k \in same, level(k) # l PROVE ~Satisfies(comparison, l, level(k))
          BY <1>1, <2>2, <3>2, <4>1, <4>2 DEF Satisfies
        <4>3. QED
          BY <4>2
      <3>3. QED
        BY <1>3, <3>1, <3>2 DEF Comparisons
    <2> HIDE DEF L, Settled
    <2>4. QED
      BY <2>1, <2>3 DEF L
  <1>4. QED
    BY <1>2, <1>3

\* The class a response may assert is one that meets the request by its level.
LEMMA SatisfiedIsMet ==
  ASSUME broker \in Broker, NEW context \in Context, NEW class,
         ClassSatisfies(broker, context, class)
  PROVE  Meets(context, class)
  <1>1. CASE context = NoContext
    BY <1>1 DEF Meets
  <1>2. CASE context.comparison = "exact" /\ class \in context.refs
    BY <1>2 DEF Meets
  <1>3. ASSUME context # NoContext, NEW k \in Pick(broker, context),
               class = broker.methods[k].class
        PROVE  Meets(context, class)
    <2>1. PICK c \in context.refs : k \in PickByClass(broker, c, context.comparison)
      BY <1>3 DEF Pick
    <2>2. context.comparison \in Comparisons
      BY <1>3, <2>1 DEF Context, Declaration
    <2>3. k \in DOMAIN broker.methods
      BY <2>1 DEF PickByClass
    <2>4. CASE k \in OfClass(broker, c) /\ context.comparison # "better"
      <3>1. class = c
        BY <1>3, <2>4 DEF OfClass
      <3>2. QED
        BY <2>4, <3>1 DEF Meets
    <2>5. CASE /\ OfClass(broker, c) # {}
               /\ context.comparison = "exact" => broker.exactByLevel
               /\ Satisfies(context.comparison, Seed(broker, c, context.comparison),
                            broker.methods[k].level)
      <3> DEFINE l == broker.methods[k].level
      <3>1. l \in Levels(broker, class)
        BY <1>3, <2>3 DEF Levels, OfClass
      <3>2. PICK m \in Levels(broker, c) : Satisfies(context.comparison, m, l)
        BY <2>2, <2>5, SeedOfClass
      <3> HIDE DEF l
      <3>3. QED
        BY <2>5, <3>1, <3>2 DEF Meets, Satisfies, Levels
    <2>6. QED
      BY <2>1, <2>4, <2>5 DEF PickByClass
  <1>4. QED
    BY <1>1, <1>2, <1>3 DEF ClassSatisfies

-----------------------------------------------------------------------------
(* The method that is used, from the offer to the response.                   *)

ContextInv(h) ==
  /\ pc[h] \in {"check", "callback"} => "subject" \notin DOMAIN job[h]
  /\ pc[h] \in {"callback", "respond"} =>
       job[h].offered \subseteq Pick(broker, job[h].request.context)
  /\ pc[h] \in {"issue", "sign"} \/ outcome[h] = "issued" =>
       \E c \in Resolved(job[h].subject.method) : Suits(h, c)
  /\ outcome[h] = "NoAuthnContext" /\ "subject" \in DOMAIN job[h] =>
       job[h].subject.method.ref \notin job[h].offered

ContextsInv == \A h \in Handlers : ContextInv(h)

LEMMA ContextStays ==
  ASSUME NEW k \in Handlers, HandlerInv(k), ContextInv(k), pc'[k] = pc[k],
         outcome'[k] = outcome[k], pc[k] # "idle" => job'[k] = job[k], broker' = broker
  PROVE  ContextInv(k)'
  <1>1. CASE pc[k] = "idle"
    BY <1>1 DEF ContextInv, HandlerInv
  <1>2. CASE pc[k] # "idle"
    <2>1. job'[k] = job[k]
      BY <1>2
    <2>2. Resolved(job[k].subject.method)' = Resolved(job[k].subject.method)
      BY <2>1 DEF Resolved
    <2>3. \A c : Suits(k, c)' = Suits(k, c)
      BY <2>1 DEF Suits
    <2>4. QED
      BY <2>1, <2>2, <2>3 DEF ContextInv
  <1>3. QED
    BY <1>1, <1>2

\* An answer carries on what the handler had established.
LEMMA ContextOfAnswer ==
  ASSUME SsoInv, ContextsInv, NEW h \in Handlers, pc[h] # "idle", NEW o, Answer(h, o),
         UNCHANGED broker,
         o = "issued" => pc[h] = "sign",
         o = "NoAuthnContext" => \/ pc[h] \in {"check", "callback"}
                                 \/ job[h].subject.method.ref \notin job[h].offered
  PROVE  ContextsInv'
  <1>1. /\ pc'[h] = "done" /\ outcome'[h] = o /\ job' = job
        /\ \A k \in Handlers \ {h} : pc'[k] = pc[k] /\ outcome'[k] = outcome[k]
    BY AnswerMoves DEF SsoInv
  <1>2. ASSUME NEW k \in Handlers, k # h PROVE ContextInv(k)'
    BY <1>1, <1>2, ContextStays DEF SsoInv, ContextsInv
  <1>3. ContextInv(h)'
    <2>1. Resolved(job[h].subject.method)' = Resolved(job[h].subject.method)
      BY <1>1 DEF Resolved
    <2>2. \A c : Suits(h, c)' = Suits(h, c)
      BY <1>1 DEF Suits
    <2>3. QED
      BY <1>1, <2>1, <2>2 DEF ContextsInv, ContextInv
  <1>4. QED
    BY <1>2, <1>3 DEF ContextsInv

LEMMA ContextOfStep ==
  ASSUME SsoInv, ContextsInv, NEW h \in Handlers, NEW label \in Labels \ {"idle", "done"},
         NEW r, Goto(h, label, r), UNCHANGED <<broker, outcome>>, outcome[h] = "none",
         ContextInv(h)'
  PROVE  ContextsInv'
  <1>1. \A k \in Handlers \ {h} : pc'[k] = pc[k] /\ (pc[k] # "idle" => job'[k] = job[k])
    BY GotoMoves DEF SsoInv
  <1>2. ASSUME NEW k \in Handlers, k # h PROVE ContextInv(k)'
    BY <1>1, <1>2, ContextStays DEF SsoInv, ContextsInv
  <1>3. QED
    BY <1>2 DEF ContextsInv

\* A method that was offered answers the request.
LEMMA OfferedSuits ==
  ASSUME SsoInv, NEW h \in Handlers, NEW m \in Method,
         m.ref \in Pick(broker, job[h].request.context)
  PROVE  \E c \in Resolved(m) : Suits(h, c)
  <1>1. /\ broker.methods \in Seq([class : Classes, level : 0..MaxLevel])
        /\ DOMAIN broker.methods \subseteq Nat \ {0}
    BY DEF SsoInv, TypeOK, Broker
  <1>2. Pick(broker, job[h].request.context) \subseteq DOMAIN broker.methods
    BY DEF Pick, PickByClass
  <1>3. m.ref # 0 /\ m.ref \in DOMAIN broker.methods
    BY <1>1, <1>2
  <1>4. broker.methods[m.ref].class \in Resolved(m)
    BY <1>3 DEF Resolved
  <1>5. Suits(h, broker.methods[m.ref].class)
    BY DEF Suits, ClassSatisfies
  <1>6. QED
    BY <1>4, <1>5

LEMMA ContextsInvNext == SsoInv /\ ContextsInv /\ [Next]_vars => ContextsInv'
  <1> SUFFICES ASSUME SsoInv, ContextsInv, [Next]_vars PROVE ContextsInv'
    OBVIOUS
  <1>1. ASSUME UNCHANGED <<broker, pc, job, outcome>> PROVE ContextsInv'
    BY <1>1, ContextStays DEF SsoInv, ContextsInv
  <1>2. CASE Tick \/ (\E b \in Browsers : Logout(b)) \/ UNCHANGED vars
    BY <1>1, <1>2 DEF Tick, Logout, vars
  <1>3. ASSUME NEW h \in Handlers, Receive(h) PROVE ContextsInv'
    <2>1. PICK b \in Browsers, q \in Requests[h] :
            Goto(h, "check", [browser |-> b, request |-> q, session |-> sessions[b]])
      BY <1>3 DEF Receive
    <2> DEFINE r == [browser |-> b, request |-> q, session |-> sessions[b]]
    <2>2. "subject" \notin DOMAIN r
      OBVIOUS
    <2>3. Goto(h, "check", r)
      BY <2>1
    <2> HIDE DEF r
    <2>4. pc'[h] = "check" /\ job'[h] = r
      BY <2>3, GotoMoves DEF SsoInv, Labels
    <2>5. outcome[h] = "none" /\ UNCHANGED <<broker, outcome>>
      BY <1>3 DEF Receive, SsoInv, HandlerInv
    <2>6. ContextInv(h)'
      BY <2>2, <2>4, <2>5 DEF ContextInv
    <2>7. QED
      BY <2>3, <2>5, <2>6, ContextOfStep DEF Labels
  <1>4. ASSUME NEW h \in Handlers, Check(h) PROVE ContextsInv'
    <2> DEFINE d == Disposition(h)
    <2>1. pc[h] = "check" /\ UNCHANGED broker /\ outcome[h] = "none"
      BY <1>4 DEF Check, SsoInv, HandlerInv
    <2>2. CASE Answer(h, d)
      <3>1. d # "issued"
        BY DEF Disposition
      <3>2. QED
        BY <2>1, <2>2, <3>1, ContextOfAnswer
    <2>3. CASE d \notin Denials
      <3> DEFINE r == [browser |-> job[h].browser, request |-> job[h].request,
                       session |-> job[h].session, disposition |-> d,
                       offered |-> IF d = "reuse" THEN {}
                                   ELSE Pick(broker, job[h].request.context)]
      <3>1. Goto(h, "callback", r) /\ UNCHANGED outcome
        BY <1>4, <2>3 DEF Check
      <3>2. /\ r.offered \subseteq Pick(broker, r.request.context)
            /\ "subject" \notin DOMAIN r
        OBVIOUS
      <3> HIDE DEF r
      <3>3. pc'[h] = "callback" /\ job'[h] = r
        BY <3>1, GotoMoves DEF SsoInv, Labels
      <3>4. ContextInv(h)'
        BY <2>1, <3>1, <3>2, <3>3 DEF ContextInv
      <3>5. QED
        BY <2>1, <3>1, <3>4, ContextOfStep DEF Labels
    <2>4. QED
      BY <1>4, <2>2, <2>3 DEF Check
  <1>5. ASSUME NEW h \in Handlers, NEW s, pc[h] = "callback", UNCHANGED <<broker, outcome>>,
               Goto(h, "respond", WithSubject(h, s))
        PROVE  ContextsInv'
    <2> DEFINE r == WithSubject(h, s)
    <2>1. outcome[h] = "none"
      BY <1>5 DEF SsoInv, HandlerInv
    <2>2. r.offered = job[h].offered /\ r.request = job[h].request
      BY DEF WithSubject
    <2> HIDE DEF r
    <2>3. Goto(h, "respond", r)
      BY <1>5 DEF r
    <2>4. pc'[h] = "respond" /\ job'[h] = r
      BY <2>3, GotoMoves DEF SsoInv, Labels
    <2>5. ContextInv(h)'
      BY <1>5, <2>1, <2>2, <2>4 DEF ContextInv, ContextsInv
    <2>6. QED
      BY <1>5, <2>1, <2>3, <2>5, ContextOfStep DEF Labels
  <1>6. ASSUME NEW h \in Handlers, ReuseSession(h) PROVE ContextsInv'
    BY <1>5, <1>6, ContextOfAnswer DEF ReuseSession
  <1>7. ASSUME NEW h \in Handlers, Authenticate(h) PROVE ContextsInv'
    BY <1>5, <1>7 DEF Authenticate
  <1>8. ASSUME NEW h \in Handlers, Decline(h) PROVE ContextsInv'
    BY <1>8, ContextOfAnswer DEF Decline
  <1>9. ASSUME NEW h \in Handlers, NEW label \in {"issue", "sign"}, NEW r,
               Goto(h, label, r), UNCHANGED <<broker, outcome>>, outcome[h] = "none",
               r.subject = job[h].subject, r.request = job[h].request,
               \E c \in Resolved(job[h].subject.method) : Suits(h, c)
        PROVE  ContextsInv'
    <2>1. pc'[h] = label /\ job'[h] = r
      <3>1. label \in Labels \ {"idle"}
        BY DEF Labels
      <3>2. TypeOK /\ Goto(h, label, r)
        BY <1>9 DEF SsoInv
      <3>3. QED
        BY <3>1, <3>2, GotoMoves
    <2>2. Resolved(job[h].subject.method)' = Resolved(job[h].subject.method)
      BY <1>9, <2>1 DEF Resolved
    <2>3. \A c : Suits(h, c)' = Suits(h, c)
      BY <1>9, <2>1 DEF Suits
    <2>4. ContextInv(h)'
      BY <1>9, <2>1, <2>2, <2>3 DEF ContextInv
    <2>5. QED
      BY <1>9, <2>4, ContextOfStep DEF Labels
  <1>10. ASSUME NEW h \in Handlers, Respond(h) PROVE ContextsInv'
    <2>1. /\ pc[h] = "respond" /\ UNCHANGED broker /\ outcome[h] = "none"
          /\ job[h].subject.method \in Method
      BY <1>10 DEF Respond, SsoInv, HandlerInv, TypeOK, Subject
    <2>2. CASE Answer(h, Refusal(h))
      <3>1. Refusal(h) # "issued"
        BY DEF Refusal
      <3>2. Refusal(h) = "NoAuthnContext" =>
              \A c \in Resolved(job[h].subject.method) : ~Suits(h, c)
        BY DEF Refusal
      <3>3. job[h].offered \subseteq Pick(broker, job[h].request.context)
        BY <2>1 DEF ContextInv, ContextsInv
      <3>4. Refusal(h) = "NoAuthnContext" => job[h].subject.method.ref \notin job[h].offered
        BY <2>1, <3>2, <3>3, OfferedSuits
      <3>5. QED
        BY <2>1, <2>2, <3>1, <3>4, ContextOfAnswer
    <2>3. CASE Refusal(h) = "none" /\ Goto(h, "issue", job[h]) /\ UNCHANGED outcome
      <3>1. \E c \in Resolved(job[h].subject.method) : Suits(h, c)
        BY <2>3 DEF Refusal
      <3>2. QED
        BY <1>9, <2>1, <2>3, <3>1
    <2>4. QED
      BY <1>10, <2>2, <2>3 DEF Respond
  <1>11. ASSUME NEW h \in Handlers, ConstructNameId(h) PROVE ContextsInv'
    <2>1. /\ pc[h] = "issue" /\ UNCHANGED broker /\ outcome[h] = "none"
          /\ \E c \in Resolved(job[h].subject.method) : Suits(h, c)
      BY <1>11 DEF ConstructNameId, SsoInv, HandlerInv, ContextInv, ContextsInv
    <2>2. NameRefusal(h) \notin {"issued", "NoAuthnContext"}
      BY DEF NameRefusal
    <2>3. CASE Answer(h, NameRefusal(h)) \/ Answer(h, "error")
      BY <2>1, <2>2, <2>3, ContextOfAnswer
    <2>4. CASE ~(Answer(h, NameRefusal(h)) \/ Answer(h, "error"))
      <3> DEFINE start == IF job[h].subject.instant = Fresh THEN clock ELSE job[h].subject.instant
                 r == [browser |-> job[h].browser, request |-> job[h].request,
                       session |-> job[h].session, disposition |-> job[h].disposition,
                       offered |-> job[h].offered, subject |-> job[h].subject,
                       sessionEnd |-> start + SessionLifetime]
      <3>1. Goto(h, "sign", r) /\ UNCHANGED outcome
        BY <1>11, <2>4 DEF ConstructNameId
      <3>2. r.subject = job[h].subject /\ r.request = job[h].request
        OBVIOUS
      <3> HIDE DEF r
      <3>3. QED
        BY <1>9, <2>1, <3>1, <3>2
    <2>5. QED
      BY <2>3, <2>4
  <1>12. ASSUME NEW h \in Handlers, Sign(h) PROVE ContextsInv'
    BY <1>12, ContextOfAnswer DEF Sign
  <1>13. QED
    BY <1>2, <1>3, <1>4, <1>6, <1>7, <1>8, <1>10, <1>11, <1>12 DEF Next

\* Each response issued asserts a context that meets the request's, for every
\* broker; and no user is turned away for a method that was offered.
THEOREM ContextsAreHonoured == Spec => []ContextHonoured
  <1>1. Init => ContextsInv
    BY DEF Init, ContextsInv, ContextInv
  <1>2. SsoInv /\ ContextsInv => ContextHonoured
    <2> SUFFICES ASSUME SsoInv, ContextsInv, NEW h \in Handlers
                 PROVE  /\ outcome[h] = "issued" =>
                             \A c \in Resolved(job[h].subject.method) :
                               Meets(job[h].request.context, c)
                        /\ /\ pc[h] = "done" /\ "subject" \in DOMAIN job[h]
                           /\ job[h].subject.method.ref \in job[h].offered
                           => outcome[h] # "NoAuthnContext"
      BY DEF ContextHonoured
    <2>1. ContextInv(h) /\ HandlerInv(h) /\ broker \in Broker
      BY DEF SsoInv, ContextsInv, TypeOK
    <2>2. ASSUME outcome[h] = "issued", NEW c \in Resolved(job[h].subject.method)
          PROVE  Meets(job[h].request.context, c)
      <3>1. PICK e \in Resolved(job[h].subject.method) : Suits(h, e)
        BY <2>1, <2>2 DEF ContextInv
      <3>2. e = c
        BY <2>2 DEF Resolved
      <3>3. job[h].request.context \in Context
        <4>1. h \in DOMAIN job
          BY <2>1, <2>2 DEF SsoInv, TypeOK, HandlerInv
        <4>2. job[h].request \in AuthnRequest
          BY <4>1 DEF SsoInv, TypeOK
        <4>3. QED
          BY <4>2 DEF AuthnRequest
      <3>4. QED
        BY <2>1, <3>1, <3>2, <3>3, SatisfiedIsMet DEF Suits
    <2>3. QED
      BY <2>1, <2>2 DEF ContextInv
  <1>3. QED
    BY <1>1, <1>2, ContextsInvNext, SsoInvHolds, PTL DEF Spec
=============================================================================
