------------------------------- MODULE IdpSso -------------------------------
(***************************************************************************)
(* Web-browser SSO at the identity provider, policy-driven                  *)
(* (crates/gamlastan-actix/src/idp.rs: idp_sso, with                        *)
(* crates/gamlastan/src/idp/orchestrator/respond.rs).  Handlers run in       *)
(* parallel; time passes, and users log in and out, between the steps of a   *)
(* handler, above all while the application's callback authenticates the     *)
(* user.  The request has been parsed, bound to a trusted SP and validated.  *)
(* The NameID of a user for the SP is one atomic step: IdentDb shows that    *)
(* it may be.                                                               *)
(***************************************************************************)
EXTENDS AuthnBroker, FiniteSets

CONSTANTS
  Handlers,         \* AuthnRequests being answered, one each
  Browsers,
  Users,            \* local subject IDs
  Brokers,          \* the brokers an IdP may be set up with
  MaxLevel,         \* the greatest level a method can have (u32::MAX)
  Requests,         \* the AuthnRequests each handler may be sent
  Methods,          \* the methods the application uses, stale references included
  SessionLifetime,  \* ReleasePolicy::session_lifetime
  MaxLogins,        \* bound: logins
  MaxTime,          \* bound of the clock
  Fresh             \* authn_instant = None

\* AuthnMethodRef: inline (ref 0) with its class, or a registration's reference.
Method == [ref : {0}, class : Classes] \union [ref : Nat \ {0}, class : {Unspecified}]

AuthnRequest ==
  [force : BOOLEAN, passive : BOOLEAN, context : Context,
   attributes : {"met", "unknownService", "missing"},
   name : {"default", "persistent", "existing", "refused"}]

\* A broker's registrations, and its allow_exact_level_matching.
Broker == [methods : Seq([class : Classes, level : 0..MaxLevel]), exactByLevel : BOOLEAN]

ASSUME IdpSsoAssumption ==
  /\ MaxLevel \in Nat /\ Brokers \subseteq Broker
  /\ Requests \in [Handlers -> SUBSET AuthnRequest]
  /\ Methods \subseteq Method
  /\ SessionLifetime \in Nat /\ MaxLogins \in Nat /\ MaxTime \in Nat
  /\ Fresh \notin Nat

VARIABLES
  broker,    \* the AuthnBroker; never changes
  clock,     \* the wall clock
  logins,    \* the logins so far; a login's number is its session index
  sessions,  \* the application: each browser's live session, 0 when it has none
  names,     \* persistent NameIDs on record: of whom, and minted by which handler
  stored,    \* assertion store: the handlers whose assertion it holds
  pc, job,   \* the handlers
  outcome    \* how each request was answered

vars == <<broker, clock, logins, sessions, names, stored, pc, job, outcome>>

Denials == {"NoPassive", "NoAuthnContext", "InvalidNameIdPolicy", "NameIdCreationNotAllowed",
            "MissingRequiredAttributes", "InvalidAttributeConsumingServiceIndex", "AuthnFailed"}

Login == [user : Users, method : Method, at : 0..MaxTime, by : Handlers]

\* AuthenticatedSubject, its attributes left out.
Subject == [user : Users, method : Method, instant : 0..MaxTime \union {Fresh},
            session : 0..MaxLogins]

TypeOK ==
  /\ broker \in Broker
  /\ clock \in 0..MaxTime
  /\ logins \in Seq(Login) /\ Len(logins) <= MaxLogins
  /\ sessions \in [Browsers -> 0..Len(logins)]
  /\ names \subseteq [user : Users, by : Handlers]
  /\ \A e, f \in names : e.user = f.user => e = f
  /\ stored \subseteq Handlers
  /\ pc \in [Handlers -> {"idle", "check", "callback", "respond", "issue", "sign", "done"}]
  /\ outcome \in [Handlers -> {"none", "issued", "redirected", "error"} \union Denials]
  /\ DOMAIN job = {h \in Handlers : pc[h] # "idle"}
  /\ \A h \in DOMAIN job : job[h].browser \in Browsers /\ job[h].request \in AuthnRequest
  /\ \A h \in Handlers : pc[h] \in {"respond", "issue", "sign"} => job[h].subject \in Subject

Init ==
  /\ broker \in Brokers
  /\ clock = 0
  /\ logins = << >>
  /\ sessions = [b \in Browsers |-> 0]
  /\ names = {} /\ stored = {}
  /\ pc = [h \in Handlers |-> "idle"]
  /\ job = << >>
  /\ outcome = [h \in Handlers |-> "none"]

Goto(h, label, r) ==
  /\ pc' = [pc EXCEPT ![h] = label]
  /\ job' = [k \in DOMAIN job \union {h} |-> IF k = h THEN r ELSE job[k]]

Answer(h, o) ==
  /\ pc' = [pc EXCEPT ![h] = "done"]
  /\ outcome' = [outcome EXCEPT ![h] = o]
  /\ UNCHANGED job

-----------------------------------------------------------------------------
(* The application between requests.                                        *)

Logout(b) ==
  /\ sessions[b] # 0
  /\ sessions' = [sessions EXCEPT ![b] = 0]
  /\ UNCHANGED <<broker, clock, logins, names, stored, pc, job, outcome>>

Tick ==
  /\ clock < MaxTime
  /\ clock' = clock + 1
  /\ UNCHANGED <<broker, logins, sessions, names, stored, pc, job, outcome>>

-----------------------------------------------------------------------------
(* check_request.                                                           *)

\* The application reports the browser's session, if it has one.
Receive(h) ==
  /\ pc[h] = "idle"
  /\ \E b \in Browsers, r \in Requests[h] :
       Goto(h, "check", [browser |-> b, request |-> r, session |-> sessions[b]])
  /\ UNCHANGED <<broker, clock, logins, sessions, names, stored, outcome>>

\* AuthnMethodRef::resolve: the class of a method, if it has one.
Resolved(m) ==
  IF m.ref = 0 THEN {m.class}
  ELSE {broker.methods[k].class : k \in {m.ref} \intersect DOMAIN broker.methods}

Unexpired(instant) == clock < instant + SessionLifetime

\* A class that may answer the request.
Suits(h, class) == ClassSatisfies(broker, job[h].request.context, class)

ReusableAnyway(h) ==
  LET n == job[h].session
  IN /\ n # 0
     /\ Unexpired(logins[n].at)
     /\ \E c \in Resolved(logins[n].method) : Suits(h, c)
Reusable(h) ==
  LET n == job[h].session
  IN /\ n # 0
     /\ Unexpired(logins[n].at)
     /\ ~job[h].request.force
     /\ \E c \in Resolved(logins[n].method) : Suits(h, c)

\* No method can answer the request; with an empty broker an inline one may
\* still answer an exact request.
Unavailable(h) ==
  LET context == job[h].request.context
  IN /\ context # NoContext
     /\ Pick(broker, context) = {}
     /\ ~(broker.methods = << >> /\ context.comparison = "exact")

\* The disposition, or the denial, of a request.
Disposition(h) ==
  IF job[h].request.context = Declaration THEN "NoAuthnContext"
  ELSE IF Reusable(h) THEN "reuse"
  ELSE IF job[h].request.passive THEN "NoPassive"
  ELSE IF Unavailable(h) THEN "NoAuthnContext" ELSE "authenticate"

Check(h) ==
  LET d == Disposition(h)
  IN /\ pc[h] = "check"
     /\ \/ d \in Denials /\ Answer(h, d)
        \/ /\ d \notin Denials
           /\ Goto(h, "callback",
                [browser |-> job[h].browser, request |-> job[h].request,
                 session |-> job[h].session, disposition |-> d,
                 offered |-> IF d = "reuse" THEN {} ELSE Pick(broker, job[h].request.context)])
           /\ UNCHANGED outcome
     /\ UNCHANGED <<broker, clock, logins, sessions, names, stored>>

-----------------------------------------------------------------------------
(* The application's callback, and pin_to_reused_session.                   *)

WithSubject(h, s) ==
  [browser |-> job[h].browser, request |-> job[h].request, session |-> job[h].session,
   disposition |-> job[h].disposition, offered |-> job[h].offered, subject |-> s]

\* The session owns the method, the instant and the index; the callback's are lost.
AsReturned(s, n) == s
Pinned(s, n) ==
  [s EXCEPT !.method = logins[n].method, !.instant = logins[n].at, !.session = n]

\* Told to reuse the session, the callback returns a user, who must be the
\* session's, and whatever else it likes.
ReuseSession(h) ==
  LET n == job[h].session
  IN /\ pc[h] = "callback" /\ job[h].disposition = "reuse"
     /\ \E u \in Users, m \in Methods, t \in {Fresh, clock} :
          \/ /\ u # logins[n].user
             /\ Answer(h, "error")
          \/ /\ u = logins[n].user
             /\ Goto(h, "respond", WithSubject(h,
                  Pinned([user |-> u, method |-> m, instant |-> t, session |-> 0], n)))
             /\ UNCHANGED outcome
     /\ UNCHANGED <<broker, clock, logins, sessions, names, stored>>

\* Told to authenticate, the application logs a user in by a method of its
\* choice, not always one that was offered, and opens a session for the browser.
Authenticate(h) ==
  LET n == Len(logins) + 1
  IN /\ pc[h] = "callback" /\ job[h].disposition = "authenticate"
     /\ n <= MaxLogins
     /\ \E u \in Users, m \in Methods, t \in {Fresh, clock} :
          /\ logins' = Append(logins, [user |-> u, method |-> m, at |-> clock, by |-> h])
          /\ Goto(h, "respond", WithSubject(h,
               [user |-> u, method |-> m, instant |-> t, session |-> n]))
     /\ sessions' = [sessions EXCEPT ![job[h].browser] = n]
     /\ UNCHANGED <<broker, clock, names, stored, outcome>>

\* The callback redirects the browser itself, refuses the request, or fails.
Decline(h) ==
  /\ pc[h] = "callback"
  /\ \E o \in {"redirected", "AuthnFailed", "error"} : Answer(h, o)
  /\ UNCHANGED <<broker, clock, logins, sessions, names, stored>>

-----------------------------------------------------------------------------
(* create_authn_response.                                                   *)

Expired(h) == job[h].subject.instant # Fresh /\ ~Unexpired(job[h].subject.instant)

\* What is checked before a NameID is constructed: "none" when all is well.
RefusalUnverified(h) ==
  LET r == job[h].request
  IN IF r.attributes = "unknownService" THEN "InvalidAttributeConsumingServiceIndex"
     ELSE IF r.attributes = "missing" THEN "MissingRequiredAttributes"
     ELSE IF Resolved(job[h].subject.method) = {} THEN "error"
     ELSE IF Expired(h) THEN "AuthnFailed" ELSE "none"
Refusal(h) ==
  LET r == job[h].request
      classes == Resolved(job[h].subject.method)
  IN IF r.attributes = "unknownService" THEN "InvalidAttributeConsumingServiceIndex"
     ELSE IF r.attributes = "missing" THEN "MissingRequiredAttributes"
     ELSE IF classes = {} THEN "error"
     ELSE IF \A c \in classes : ~Suits(h, c) THEN "NoAuthnContext"
     ELSE IF Expired(h) THEN "AuthnFailed" ELSE "none"

Respond(h) ==
  /\ pc[h] = "respond"
  /\ \/ /\ Refusal(h) # "none"
        /\ Answer(h, Refusal(h))
     \/ /\ Refusal(h) = "none"
        /\ Goto(h, "issue", job[h])
        /\ UNCHANGED outcome
  /\ UNCHANGED <<broker, clock, logins, sessions, names, stored>>

OnRecord(u) == \E e \in names : e.user = u

\* The NameIDPolicy refused: another entity's qualifier or a format not issued,
\* or AllowCreate=false and nothing on record.
NameRefusal(h) ==
  LET wanted == job[h].request.name
  IN IF wanted = "refused" THEN "InvalidNameIdPolicy"
     ELSE IF wanted = "existing" /\ ~OnRecord(job[h].subject.user)
     THEN "NameIdCreationNotAllowed" ELSE "none"

\* The records once the NameID is constructed; a transient one is not kept.
RecordedAnyway(h) ==
  IF job[h].request.name # "default" /\ ~OnRecord(job[h].subject.user)
  THEN names \union {[user |-> job[h].subject.user, by |-> h]} ELSE names
Recorded(h) ==
  IF /\ NameRefusal(h) = "none" /\ job[h].request.name # "default"
     /\ ~OnRecord(job[h].subject.user)
  THEN names \union {[user |-> job[h].subject.user, by |-> h]} ELSE names

\* The dates are computed on a second reading of the clock, then the NameID is
\* constructed; the identity store may fail.
ConstructNameId(h) ==
  LET s == job[h].subject
      start == IF s.instant = Fresh THEN clock ELSE s.instant
  IN /\ pc[h] = "issue"
     /\ \/ /\ NameRefusal(h) # "none"
           /\ Answer(h, NameRefusal(h))
           /\ names' = Recorded(h)
        \/ /\ NameRefusal(h) = "none"
           /\ Goto(h, "sign", [browser |-> job[h].browser, request |-> job[h].request,
                session |-> job[h].session, disposition |-> job[h].disposition,
                offered |-> job[h].offered, subject |-> s,
                sessionEnd |-> start + SessionLifetime])
           /\ names' = Recorded(h)
           /\ UNCHANGED outcome
        \/ /\ job[h].request.name \in {"persistent", "existing"}
           /\ Answer(h, "error")
           /\ UNCHANGED names
     /\ UNCHANGED <<broker, clock, logins, sessions, stored>>

\* The response is signed and its assertion stored, in this order; either fails.
Sign(h) ==
  /\ pc[h] = "sign"
  /\ \/ Answer(h, "issued") /\ stored' = stored \union {h}
     \/ Answer(h, "error") /\ UNCHANGED stored
  /\ UNCHANGED <<broker, clock, logins, sessions, names>>

Next ==
  \/ Tick
  \/ \E b \in Browsers : Logout(b)
  \/ \E h \in Handlers :
       \/ Receive(h) \/ Check(h) \/ ReuseSession(h) \/ Authenticate(h) \/ Decline(h)
       \/ Respond(h) \/ ConstructNameId(h) \/ Sign(h)

Spec == Init /\ [][Next]_vars

-----------------------------------------------------------------------------

\* ForceAuthn is never answered from an older session, not even from one of a
\* parallel request, and nobody is prompted for an IsPassive request.
PromptingAsAsked ==
  \A h \in Handlers :
    /\ outcome[h] = "issued" /\ job[h].request.force => logins[job[h].subject.session].by = h
    /\ pc[h] # "idle" /\ job[h].request.passive => \A n \in DOMAIN logins : logins[n].by # h

\* SAML Core 3.3.2.2.1 on the levels of the registrations: an exact request is
\* met by a class it names, or, by level matching, by one as strong as it; the
\* others by a class that is as strong, as weak, or stronger than one it names.
Meets(context, class) ==
  LET levels(c) == {broker.methods[k].level : k \in OfClass(broker, c)}
      compares(c, Op(_, _)) == \E l \in levels(class), k \in levels(c) : Op(l, k)
  IN \/ context = NoContext
     \/ context.comparison # "better" /\ class \in context.refs
     \/ \E c \in context.refs :
          \/ context.comparison = "exact" /\ broker.exactByLevel /\ compares(c, =)
          \/ context.comparison = "minimum" /\ compares(c, >=)
          \/ context.comparison = "maximum" /\ compares(c, <=)
          \/ context.comparison = "better" /\ compares(c, >)

\* Every response issued asserts an authentication context that meets the
\* request's, whichever method the application used in the end and whether the
\* login is new or reused; and a user who logged in by a method that was offered
\* is not turned away for it ("the response must accept the method that was
\* offered, not deny it after the user has authenticated").
ContextHonoured ==
  \A h \in Handlers :
    /\ outcome[h] = "issued" =>
         \A c \in Resolved(job[h].subject.method) : Meets(job[h].request.context, c)
    /\ /\ pc[h] = "done" /\ "subject" \in DOMAIN job[h]
       /\ job[h].subject.method.ref \in job[h].offered
       => outcome[h] # "NoAuthnContext"

\* However often and however late a session is reused, and whatever the callback
\* returns, each response that rests on it names the user who logged in and ends
\* the session when that login's lifetime does.
SessionNeverSlides ==
  \A h \in Handlers : outcome[h] = "issued" /\ job[h].disposition = "reuse" =>
    LET login == logins[job[h].session]
    IN /\ job[h].subject.session = job[h].session
       /\ job[h].subject.user = login.user
       /\ job[h].sessionEnd = login.at + SessionLifetime

\* A denied request leaves nothing behind: a NameID is on record, and an
\* assertion in the store, only for a response that was issued, or that failed
\* after everything it could be denied for.
DenialLeavesNothing ==
  /\ \A e \in names : outcome[e.by] \in {"none", "issued", "error"}
  /\ \A h \in stored : outcome[h] = "issued"
=============================================================================
