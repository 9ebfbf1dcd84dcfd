----------------------------- MODULE ExampleIdp -----------------------------
(***************************************************************************)
(* The example identity provider (example-idp/src/main.rs): an AuthnRequest *)
(* of a trusted service provider is answered at once from the browser's     *)
(* session, or waits in a bounded table until its login form comes back.    *)
(* Forms may be submitted by several threads at once, repeatedly, late, and *)
(* with a mistyped password; abandoned ones expire.                         *)
(***************************************************************************)
EXTENDS AuthnBroker, Integers, FiniteSets

CONSTANTS
  Password, ProtectedTransport,  \* the other AuthnContext class refs it knows
  MetadataFiles,    \* the SP metadata files, a sequence
  AllowUnsigned,    \* --allow-unsigned-authn-requests
  LoginRequests,    \* the AuthnRequests that may arrive
  Users,
  Browsers,
  LoginThreads,     \* threads that handle a submitted form
  FormSlots,        \* MAX_PENDING_AUTHN_REQUESTS
  FormTtl,          \* PENDING_AUTHN_REQUEST_TTL
  SessionLife,      \* session_lifetime_seconds
  IdpEnd,           \* bound of the clock
  MaxForms,         \* bound: login forms shown for new requests
  MaxAnswers        \* bound: responses sent

ASSUME ExampleIdpAssumption == {FormSlots, FormTtl, SessionLife, IdpEnd} \subseteq Nat

VARIABLES
  now,        \* the clock
  forms,      \* pending_requests: form -> [request, at]
  asked,      \* history: asked[f] is the request form f was shown for, and when
  submitted,  \* thread -> the [form, user] it has authenticated, or none yet
  sessions,   \* every Session so far; none is ever removed
  cookie,     \* browser -> its idp_session, 0 for none
  sent        \* history: the responses, in order

idpVars == <<now, forms, asked, submitted, sessions, cookie, sent>>

\* supported_authn_contexts
IdpBroker ==
  [methods |-> <<[class |-> Unspecified, level |-> 0], [class |-> Password, level |-> 1],
                 [class |-> ProtectedTransport, level |-> 2]>>,
   exactByLevel |-> FALSE]

\* load_trusted_sps and load_trusted_sp: one bad file keeps the program from
\* starting, and so does an entity ID that two files give.
Loads(files) ==
  /\ files # << >>
  /\ \A i \in DOMAIN files : files[i].certificates > 0
  /\ \A i, j \in DOMAIN files : files[i].entity = files[j].entity => i = j

TrustedSps == {MetadataFiles[i] : i \in DOMAIN MetadataFiles}
MustSign(sp) == sp.wantsSigned \/ ~AllowUnsigned

IdpInit ==
  /\ Loads(MetadataFiles)
  /\ now = 0 /\ forms = << >> /\ asked = << >> /\ sessions = << >> /\ sent = << >>
  /\ submitted = [t \in LoginThreads |-> {}]
  /\ cookie = [b \in Browsers |-> 0]

-----------------------------------------------------------------------------
(* The table of pending requests; every look at it drops the expired ones.  *)

LiveForms == {f \in DOMAIN forms : now - forms[f].at <= FormTtl}
Purged == [f \in LiveForms |-> forms[f]]

\* store_pending_authn_request fails when it is full.
SlotLeft == Cardinality(LiveForms) < FormSlots

StorePending(f, r) ==
  forms' = [g \in LiveForms \union {f} |-> IF g = f THEN [request |-> r, at |-> now] ELSE forms[g]]

\* take_pending_authn_request
TakePendingLater(f) == Purged

TakePending(f) == [g \in LiveForms \ {f} |-> forms[g]]

-----------------------------------------------------------------------------
(* Policy: validate_authn_request and check_request.                        *)

\* A signature must verify and cover the request, and be there if it must.
Validated(r) ==
  \E sp \in TrustedSps :
    /\ sp.entity = r.sp
    /\ r.signature \in {"none", "valid"} /\ (MustSign(sp) => r.signature = "valid")
    /\ ~r.namesSubject /\ sp.postAcs

\* The session of the cookie, if it may answer the request.
ReusableAnyway(r, n) ==
  n # 0 /\ now < sessions[n].at + SessionLife /\ ClassSatisfies(IdpBroker, r.context, sessions[n].class)

ReusableSession(r, n) ==
  /\ n # 0 /\ ~r.force
  /\ now < sessions[n].at + SessionLife
  /\ ClassSatisfies(IdpBroker, r.context, sessions[n].class)

Disposition(r, n) ==
  IF r.context = Declaration THEN "NoAuthnContext"
  ELSE IF ReusableSession(r, n) THEN "reuse"
  ELSE IF r.passive THEN "NoPassive"
  ELSE IF r.context # NoContext /\ Pick(IdpBroker, r.context) = {} THEN "NoAuthnContext"
  ELSE "authenticate"

\* The strongest method offered; of equally strong ones the last.
Selected(r) ==
  LET offered == Pick(IdpBroker, r.context)
  IN IdpBroker.methods[CHOOSE k \in offered : \A j \in offered :
       IdpBroker.methods[j].level <= IdpBroker.methods[k].level].class

-----------------------------------------------------------------------------
(* sso_handler.                                                             *)

Send(form, r, n, denial) ==
  /\ Len(sent) < MaxAnswers
  /\ sent' = Append(sent, [form |-> form, request |-> r, session |-> n, denial |-> denial,
                           at |-> now])

\* handle_authn_request: answered at once, or put off; with a full table the
\* request is refused.
HandleAuthnRequest(b, r) ==
  LET n == cookie[b]
      d == Disposition(r, n)
      f == Len(asked) + 1
  IN /\ Validated(r) /\ f <= MaxForms
     /\ \/ /\ d = "reuse" /\ Send(0, r, n, "none")
           /\ UNCHANGED <<forms, asked>>
        \/ /\ d \in {"NoPassive", "NoAuthnContext"} /\ Send(0, r, 0, d)
           /\ UNCHANGED <<forms, asked>>
        \/ /\ d = "authenticate" /\ SlotLeft
           /\ StorePending(f, r)
           /\ asked' = Append(asked, [request |-> r, at |-> now])
           /\ UNCHANGED sent
        \/ /\ d = "authenticate" /\ ~SlotLeft
           /\ forms' = Purged
           /\ UNCHANGED <<asked, sent>>
     /\ UNCHANGED <<now, submitted, sessions, cookie>>

\* handle_login as far as the password: the form is looked up, not consumed, so
\* that a mistyped password may be tried again.
Submit(t, f, u) ==
  /\ submitted[t] = {} /\ f \in LiveForms
  /\ submitted' = [submitted EXCEPT ![t] = {[form |-> f, user |-> u]}]
  /\ forms' = Purged
  /\ UNCHANGED <<now, asked, sessions, cookie, sent>>

Mistype(f) ==
  /\ forms' = Purged
  /\ UNCHANGED <<now, asked, submitted, sessions, cookie, sent>>

\* The rest of handle_login: one of the threads gets the request and answers it,
\* over a session of its own.  Nothing can fail in between: the policy was
\* checked when the form was shown, and the new login is not expired.
FinishLogin(t, b) ==
  /\ \E s \in submitted[t] :
       /\ s.form \in LiveForms
       /\ LET r == forms[s.form].request
              n == Len(sessions) + 1
          IN /\ sessions' = Append(sessions, [user |-> s.user, at |-> now, class |-> Selected(r)])
             /\ cookie' = [cookie EXCEPT ![b] = n]
             /\ Send(s.form, r, n, "none")
       /\ forms' = TakePending(s.form)
  /\ submitted' = [submitted EXCEPT ![t] = {}]
  /\ UNCHANGED <<now, asked>>

LoginTooLate(t) ==
  /\ \E s \in submitted[t] : s.form \notin LiveForms
  /\ submitted' = [submitted EXCEPT ![t] = {}]
  /\ forms' = Purged
  /\ UNCHANGED <<now, asked, sessions, cookie, sent>>

IdpTick ==
  /\ now < IdpEnd /\ now' = now + 1
  /\ UNCHANGED <<forms, asked, submitted, sessions, cookie, sent>>

IdpNext ==
  \/ \E b \in Browsers, r \in LoginRequests : HandleAuthnRequest(b, r)
  \/ \E t \in LoginThreads, f \in 1..MaxForms, u \in Users : Submit(t, f, u)
  \/ \E f \in 1..MaxForms : Mistype(f)
  \/ \E t \in LoginThreads, b \in Browsers : FinishLogin(t, b)
  \/ \E t \in LoginThreads : LoginTooLate(t)
  \/ IdpTick

IdpSpec == IdpInit /\ [][IdpNext]_idpVars

-----------------------------------------------------------------------------

\* However many threads submit a form, it is answered once, for the request it
\* was shown for and before it expires; until then it stays, whatever passwords
\* are mistyped, and the table never outgrows its bound.
FormsAnswerOnce ==
  /\ \A i, j \in DOMAIN sent : sent[i].form = sent[j].form /\ sent[i].form # 0 => i = j
  /\ \A i \in DOMAIN sent : sent[i].form # 0 =>
       LET a == asked[sent[i].form]
       IN sent[i].request = a.request /\ sent[i].at <= a.at + FormTtl
  /\ \A f \in DOMAIN asked :
       \/ f \in DOMAIN forms
       \/ now > asked[f].at + FormTtl
       \/ \E i \in DOMAIN sent : sent[i].form = f
  /\ Cardinality(DOMAIN forms) <= FormSlots

\* A response rests on a login that was made for it if the request forces one,
\* that has not outlived its session, and of a class the request accepts, also
\* when a session established for another request answers it.
SessionsAnswerAsAsked ==
  \A i \in DOMAIN sent : sent[i].session # 0 =>
    LET s == sessions[sent[i].session]
        c == sent[i].request.context
    IN /\ sent[i].request.force => sent[i].form # 0 /\ s.at >= asked[sent[i].form].at
       /\ sent[i].at < s.at + SessionLife \/ s.at = sent[i].at
       /\ c # NoContext =>
            s.class \in {IdpBroker.methods[k].class : k \in Pick(IdpBroker, c)} \union
                        (IF c.comparison = "exact" THEN c.refs ELSE {})
=============================================================================
