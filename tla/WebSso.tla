------------------------------- MODULE WebSso -------------------------------
(***************************************************************************)
(* One web-browser SSO exchange, message by message                         *)
(* (crates/gamlastan/src/profiles/sso/sp.rs and sso/idp.rs, driven by       *)
(* crates/gamlastan-actix/src/sp.rs and idp.rs): the service provider's     *)
(* AuthnRequest, what the identity provider makes of it, the response it    *)
(* builds and signs, and what the service provider accepts.  The response   *)
(* may also come from another implementation of the IdP that fills in the   *)
(* fields differently, or may be damaged on its way.                        *)
(*                                                                          *)
(* A signature is its key and the content it was made over; it verifies     *)
(* when the key is trusted and the content is still the same.               *)
(***************************************************************************)
EXTENDS AssertionValidator

CONSTANTS
  Sp, Idp,        \* the two parties
  Stranger,       \* another entity: another SP, another IdP, another request
  Users,
  Sites,          \* the settings of both parties
  MaxTime,        \* bound of the clock
  Lifetime,       \* IdpConfig.assertion_lifetime_seconds
  MaxDeliveries   \* bound: deliveries to the SP

ASSUME WebSsoAssumption ==
  /\ MaxTime \in Nat /\ Lifetime \in Nat /\ Absent \notin Int
  /\ \A s \in Sites :
       /\ s.responses \in Nat /\ s.lead \in Int
       /\ s.security.skew \in Nat /\ s.security.maxAge \in Nat
       /\ DOMAIN s.acs \subseteq Nat /\ \A i \in DOMAIN s.acs : s.acs[i].index \in Nat

VARIABLES
  site,       \* the settings, fixed from the start, with two bounds: how many
              \* responses circulate, and whether they vary
  now,        \* the SP's clock
  request,    \* the AuthnRequest, once sent
  pending,    \* the request the SP's tracker holds for this browser, or Absent
  processed,  \* what the IdP read from the request, a refusal, or Absent
  wire,       \* responses in circulation
  issued,     \* history: the assertions the IdP made
  seen,       \* the SP's replay cache
  owner,      \* the SP's persistent NameIDs
  deliveries  \* history: what the SP answered to each delivery

vars == <<site, now, request, pending, processed, wire, issued, seen, owner, deliveries>>

\* metadata.acs is the sequence of ACS endpoints the SP registered.
Url(at) == [at |-> at, slash |-> FALSE]
Refused == [refused |-> TRUE]
RequestId == "r1"

TypeOK ==
  /\ site \in Sites /\ now \in 0..MaxTime
  /\ pending \in {RequestId, Absent}
  /\ Cardinality(wire) <= site.responses /\ Len(deliveries) <= MaxDeliveries
  /\ \A id \in DOMAIN seen : seen[id] \in Int
  /\ \A k \in DOMAIN owner : owner[k] \in Users

Init ==
  /\ site \in Sites
  /\ now = 0 /\ request = Absent /\ pending = Absent /\ processed = Absent
  /\ wire = {} /\ issued = {} /\ seen = << >> /\ owner = << >> /\ deliveries = << >>

-----------------------------------------------------------------------------
(* The service provider asks: find_sso_endpoint, create_authn_request and    *)
(* sp_login.                                                                *)

FirstOrAbsent(s, indices) == IF indices = {} THEN Absent ELSE FirstAt(s, indices)

\* The endpoint of the preferred binding, or the first one of another binding.
SsoEndpoint(endpoints, binding) ==
  LET preferred == {i \in DOMAIN endpoints : endpoints[i].binding = binding}
  IN FirstAt(endpoints, IF preferred # {} THEN preferred ELSE DOMAIN endpoints)

\* An AuthnRequest with the options o.  This library's SP names an issuer and no
\* confirmation, and leaves RequestedAuthnContext out when it asks for no class.
AuthnRequest(o, endpoint) ==
  [id |-> RequestId, issuer |-> o.issuer, destination |-> endpoint.location,
   confirmation |-> o.confirmation, acsUrl |-> o.acsUrl, acsIndex |-> o.acsIndex,
   binding |-> o.binding, context |-> o.context,
   redirectSig |-> IF o.via = "redirect" THEN o.signer ELSE Absent, xmlSig |-> o.xmlSigner]

\* The ID is tracked before the redirect or the form is made.
SpLogin ==
  /\ request = Absent /\ site.ssoEndpoints # << >>
  /\ request' = AuthnRequest(site.options, SsoEndpoint(site.ssoEndpoints, site.options.via))
  /\ pending' = RequestId
  /\ UNCHANGED <<site, now, processed, wire, issued, seen, owner, deliveries>>

-----------------------------------------------------------------------------
(* The identity provider reads the request: idp_sso, process_authn_request.  *)

\* Redirect signatures are verified with the SP's first key, XML signatures
\* with any; every representation that is there must verify.
SignaturesVerify(q) ==
  /\ q.redirectSig # Absent => site.spKeys # << >> /\ q.redirectSig = site.spKeys[1]
  /\ q.xmlSig # Absent => \E i \in DOMAIN site.spKeys : q.xmlSig = site.spKeys[i]

Authenticated(q) == q.redirectSig # Absent \/ q.xmlSig # Absent

\* Of some endpoints the explicit default, or the one of the lowest index.
DefaultAcs(endpoints, candidates) ==
  LET default == {i \in candidates : endpoints[i].isDefault}
      lowest == {i \in candidates : \A j \in candidates : endpoints[i].index <= endpoints[j].index}
  IN FirstAt(endpoints, IF default # {} THEN default ELSE lowest)

ResolveAcsByUrl(q, endpoints) ==
  IF q.acsUrl = Absent THEN DefaultAcs(endpoints, DOMAIN endpoints)
  ELSE FirstOrAbsent(endpoints, {i \in DOMAIN endpoints : endpoints[i].url = q.acsUrl})

\* The location and binding the answer goes to, or Absent.  The URL goes before
\* the index; a binding that is asked for must be the endpoint's own.
ResolveAcs(q, endpoints) ==
  LET bound == {i \in DOMAIN endpoints : q.binding \in {Absent, endpoints[i].binding}}
      atUrl == {i \in bound : endpoints[i].url = q.acsUrl}
      atIndex == FirstOrAbsent(endpoints, {i \in DOMAIN endpoints : endpoints[i].index = q.acsIndex})
  IN IF q.acsUrl # Absent THEN FirstOrAbsent(endpoints, atUrl)
     ELSE IF q.acsIndex = Absent
     THEN IF bound = {} THEN Absent ELSE DefaultAcs(endpoints, bound)
     ELSE IF atIndex # Absent /\ q.binding \in {Absent, atIndex.binding} THEN atIndex ELSE Absent

Processable(q) ==
  /\ q.issuer # Absent
  /\ ~q.confirmation
  /\ q.xmlSig # Absent \/ site.requestsSigned => Authenticated(q)
  /\ ResolveAcs(q, site.acs) # Absent
  /\ q.context # {}

\* The ready handler answers trusted SPs only, and by HTTP-POST only.
Admitted(q) ==
  /\ q.issuer = Sp
  /\ SignaturesVerify(q) /\ Processable(q)
  /\ ResolveAcs(q, site.acs).binding = "post"

ReadRequest ==
  /\ request # Absent /\ processed = Absent
  /\ processed' = IF Admitted(request)
                  THEN [id |-> request.id, acsUrl |-> ResolveAcs(request, site.acs).url]
                  ELSE Refused
  /\ UNCHANGED <<site, now, request, pending, wire, issued, seen, owner, deliveries>>

-----------------------------------------------------------------------------
(* The identity provider answers: create_response, create_error_response,    *)
(* create_unsolicited_response and sign_response_xml_with.                   *)

\* The IdP's clock is site.lead ahead of the SP's.
IdpNow == now + site.lead

Assertion(id, irt, acsUrl, user) ==
  LET until == IdpNow + Lifetime
  IN [id |-> id, issued |-> IdpNow, issuer |-> Idp, sig |-> Absent,
      subject |->
        [nameId |-> [value |-> user, format |-> "persistent", encrypted |-> FALSE],
         confirmations |->
           <<[method |-> "bearer",
              data |-> [recipient |-> acsUrl, until |-> until, irt |-> irt,
                        notBefore |-> Absent, address |-> Absent]]>>],
      conditions |-> [notBefore |-> IdpNow, until |-> until, audiences |-> {{Sp}},
                      proxies |-> Absent],
      sessions |-> <<until>>, attributes |-> {user}]

Response(id, irt, acsUrl, success, assertions) ==
  [id |-> id, destination |-> acsUrl, issuerFormat |-> "entity", irt |-> irt, sig |-> Absent,
   success |-> success, assertions |-> assertions, encrypted |-> 0]

Unsigned(x) == [x EXCEPT !.sig = Absent]
Signed(x) == [x EXCEPT !.sig = [key |-> site.idpKey, over |-> Unsigned(x)]]

SignResponseFirst(r, assertions, response) ==
  LET outer == IF response THEN Signed(r) ELSE r
  IN IF assertions
     THEN [outer EXCEPT !.assertions = [i \in DOMAIN @ |-> IF i = 1 THEN Signed(@[i]) ELSE @[i]]]
     ELSE outer

\* The assertion is signed first, so that the response's signature covers it.
SignResponse(r, assertions, response) ==
  LET inner == IF assertions
               THEN [r EXCEPT !.assertions = [i \in DOMAIN @ |->
                                                IF i = 1 THEN Signed(@[i]) ELSE @[i]]]
               ELSE r
  IN IF response THEN Signed(inner) ELSE inner

Send(r) == wire' = wire \union {r}

Room == Cardinality(wire) < site.responses
NextAssertion == Cardinality(wire) + 1

\* How the response came about, for the properties: "own" is what this library
\* sends, "peer" another implementation's, "damaged" no longer what was sent.
Message(origin, r) == [origin |-> origin, response |-> r]

\* A response about a user, which is sent signed.
About(user, irt, acsUrl) ==
  Response(NextAssertion, irt, acsUrl, TRUE, <<Assertion(NextAssertion, irt, acsUrl, user)>>)

Answer(origin, r) ==
  /\ Send(Message(origin, SignResponse(r, site.signAssertions, site.signResponses)))
  /\ issued' = issued \union {r.assertions[i] : i \in DOMAIN r.assertions}
  /\ UNCHANGED <<site, now, request, pending, processed, seen, owner, deliveries>>

Known == processed # Absent /\ processed # Refused

Respond ==
  /\ Known /\ Room
  /\ \E u \in Users : Answer("own", About(u, processed.id, processed.acsUrl))

\* PEFIM: the assertions move into EncryptedAssertion elements; signing an
\* assertion of such a response is an error.
EncryptAssertions(r) == [r EXCEPT !.assertions = << >>, !.encrypted = Len(r.assertions) + @]

RespondEncrypted ==
  /\ Known /\ Room /\ site.encrypts /\ ~site.signAssertions
  /\ \E u \in Users :
       Answer("own", EncryptAssertions(About(u, processed.id, processed.acsUrl)))

\* The SP's default endpoint, no InResponseTo.
RespondUnsolicited ==
  /\ Room /\ site.acs # << >>
  /\ \E u \in Users :
       Answer("own", About(u, Absent, DefaultAcs(site.acs, DOMAIN site.acs).url))

\* A denial has no assertion; its envelope is always signed.
Deny ==
  /\ Known /\ Room
  /\ Send(Message("own", SignResponse(Response(NextAssertion, processed.id, processed.acsUrl,
                                               FALSE, << >>), FALSE, TRUE)))
  /\ UNCHANGED <<site, now, request, pending, processed, issued, seen, owner, deliveries>>

\* The responses that differ from r in one place.
OtherFields(r) ==
  {[r EXCEPT !.destination = d] : d \in {Absent, Url("elsewhere"), [r.destination EXCEPT !.slash = TRUE]}}
    \union {[r EXCEPT !.issuerFormat = f] : f \in {Absent, "email"}}
    \union {[r EXCEPT !.irt = i] : i \in {Absent, Stranger}}
    \union {[r EXCEPT !.success = FALSE], [r EXCEPT !.assertions = << >>]}

OtherData(d) ==
  {Absent} \union {[d EXCEPT !.recipient = u] : u \in {Absent, Url("elsewhere")}}
    \union {[d EXCEPT !.until = t] : t \in {Absent, 0}}
    \union {[d EXCEPT !.irt = i] : i \in {Absent, Stranger}}
    \union {[d EXCEPT !.notBefore = 0], [d EXCEPT !.address = "client"],
            [d EXCEPT !.address = "elsewhere"]}

OtherSubjects(s) ==
  LET bearer == s.confirmations[1]
      holder == [bearer EXCEPT !.method = "holder-of-key"]
  IN {Absent, [s EXCEPT !.nameId = Absent], [s EXCEPT !.nameId.encrypted = TRUE],
      [s EXCEPT !.nameId.format = "transient"], [s EXCEPT !.nameId.value = Stranger]}
       \union {[s EXCEPT !.confirmations = cs] : cs \in {<< >>, <<holder>>, <<holder, bearer>>}}
       \union {[s EXCEPT !.confirmations = <<[bearer EXCEPT !.data = d]>>] : d \in OtherData(bearer.data)}

OtherConditions(k) ==
  {Absent} \union {[k EXCEPT !.audiences = as] :
                     as \in {{}, {{Stranger}}, {{Sp, Stranger}}, {{Sp}, {Stranger}}}}
    \union {[k EXCEPT !.notBefore = k.until], [k EXCEPT !.notBefore = Absent],
            [k EXCEPT !.until = Absent], [k EXCEPT !.until = 0], [k EXCEPT !.proxies = 0]}

OtherAssertions(a) ==
  {[a EXCEPT !.subject = s] : s \in OtherSubjects(a.subject)}
    \union {[a EXCEPT !.conditions = k] : k \in OtherConditions(a.conditions)}
    \union {[a EXCEPT !.sessions = s] : s \in {<< >>, <<Absent>>, <<0>>}}
    \union {[a EXCEPT !.issuer = Stranger], [a EXCEPT !.issued = @ + 2], [a EXCEPT !.issued = @ - 3],
            [a EXCEPT !.attributes = {Stranger}]}

\* A second assertion with attributes alone, under its own ID or the first one's.
Another(a, id, sessions) ==
  [a EXCEPT !.id = id, !.sig = Absent, !.sessions = sessions, !.attributes = {Stranger}]
SecondAssertions(a) ==
  {<<a, Another(a, i, s)>> : i \in {a.id, a.id + site.responses}, s \in {a.sessions, << >>}}

Variations(r) ==
  OtherFields(r) \union
    (IF r.assertions = << >> THEN {}
     ELSE {[r EXCEPT !.assertions = <<a>>] : a \in OtherAssertions(r.assertions[1])}
            \union {[r EXCEPT !.assertions = as] : as \in SecondAssertions(r.assertions[1])})

RespondOtherwise ==
  /\ Known /\ wire = {} /\ site.varied
  /\ \E u \in Users :
       \E v \in Variations(About(u, processed.id, processed.acsUrl)) : Answer("peer", v)

\* What is in circulation changes, the signatures do not.
Damage ==
  /\ Cardinality(wire) = 1 /\ site.varied
  /\ \E m \in wire :
       /\ m.origin = "own"
       /\ \E v \in Variations(m.response) \ {m.response} : wire' = {Message("damaged", v)}
  /\ UNCHANGED <<site, now, request, pending, processed, issued, seen, owner, deliveries>>

-----------------------------------------------------------------------------
(* The service provider receives: verify_acs_response_signatures,            *)
(* process_response_with_verified_signatures and sp_acs.                     *)

Verifies(x) == x.sig.key \in site.trustedKeys /\ x.sig.over = Unsigned(x)

SignedParts(r) ==
  {x \in {r} \union {r.assertions[i] : i \in DOMAIN r.assertions} : x.sig # Absent}

SignaturesPassIfAny(r, c) ==
  SignedParts(r) = {} \/ \E x \in SignedParts(r) : Verifies(x)

\* Whether the signatures let the response through.  No key in the metadata is
\* a configuration error, and one signature that fails refuses the response.
SignaturesPass(r, c) ==
  IF SignedParts(r) = {} THEN ~c.signedAssertions /\ ~c.signedResponses
  ELSE \A x \in SignedParts(r) : Verifies(x)

\* IDs of what the verified signatures cover; an assertion's ID and a response's
\* never coincide.
VerifiedAssertions(r) == {r.assertions[i].id : i \in {j \in DOMAIN r.assertions : r.assertions[j].sig # Absent}}
ResponseVerified(r) == IF r.sig = Absent THEN "unsigned" ELSE "yes"

Params(r, expected) ==
  [url |-> site.acsUrl, acs |-> site.acsUrl, idp |-> Idp, sp |-> Sp, request |-> expected,
   client |-> Absent, relay |-> Absent, depth |-> 0, sigXml |-> Absent, cache |-> TRUE,
   principal |-> Absent, verified |-> VerifiedAssertions(r),
   responseVerified |-> ResponseVerified(r), now |-> now]

\* What stops the response before the validator sees it: the status, an answer
\* to nothing, and encryption this layer cannot undo.
Unprocessable(r, expected, c) ==
  \/ ~r.success
  \/ r.irt = Absent /\ expected = Absent /\ ~c.unsolicited
  \/ c.encryptedAssertions
  \/ r.assertions = << >>

\* The identity is that of the first assertion with an AuthnStatement; the
\* attributes are those of all assertions.
Identity(r) ==
  FirstAt(r.assertions, {i \in DOMAIN r.assertions : r.assertions[i].sessions # << >>})
Named(a) == a.subject # Absent /\ a.subject.nameId # Absent /\ ~a.subject.nameId.encrypted

Verdict(r, expected, c) ==
  IF ~SignaturesPass(r, c) THEN "unsigned"
  ELSE IF ~r.success THEN "denied"
  ELSE IF Unprocessable(r, expected, c) THEN "unprocessable"
  ELSE IF Failures(r, Params(r, expected), c, seen, owner) # {} THEN "invalid"
  ELSE IF Named(Identity(r)) THEN "accepted" ELSE "nameless"

\* The tracker gives the request up before anything is validated, but after the
\* signatures were verified.
Expected(r) == IF r.irt # Absent /\ r.irt = pending THEN pending ELSE Absent

Delivery(m, verdict, expected, principal) ==
  [message |-> m, verdict |-> verdict, expected |-> expected, principal |-> principal,
   at |-> now]

DeliverToAcs ==
  /\ Len(deliveries) < MaxDeliveries
  /\ \E m \in wire :
       LET r == m.response
           expected == Expected(r)
           verdict == Verdict(r, expected, site.security)
           validated == verdict \in {"invalid", "accepted", "nameless"}
       IN /\ deliveries' = Append(deliveries, Delivery(m, verdict, expected, Absent))
          /\ pending' = IF verdict # "unsigned" /\ expected # Absent THEN Absent ELSE pending
          /\ seen' = IF validated THEN SeenAfter(r, Params(r, expected), site.security, seen) ELSE seen
  /\ UNCHANGED <<site, now, request, processed, wire, issued, owner>>

\* An application that calls the validator itself gives it what the ready
\* handler leaves out: a principal for persistent NameIDs, the client's address,
\* the RelayState, the signature's XML and the proxy depth.
Validate ==
  /\ Len(deliveries) < MaxDeliveries
  /\ site.call # Absent
  /\ \E m \in wire, principal \in Users \union {Absent} :
       LET r == m.response
           p == [Params(r, pending) EXCEPT
                   !.client = site.call.client, !.relay = site.call.relay,
                   !.depth = site.call.depth, !.sigXml = site.call.sigXml,
                   !.cache = site.call.cache, !.principal = principal]
           failed == Failures(r, p, site.security, seen, owner)
       IN /\ SignaturesPass(r, site.security)
          /\ deliveries' = Append(deliveries, Delivery(m,
               IF failed = {} THEN "valid" ELSE "invalid", pending, principal))
          /\ seen' = IF p.cache THEN SeenAfter(r, p, site.security, seen) ELSE seen
          /\ owner' = OwnerAfter(r, p, site.security, owner)
  /\ UNCHANGED <<site, now, request, pending, processed, wire, issued>>

\* Nothing before the first response depends on the time.
Tick ==
  /\ wire # {} /\ now < MaxTime /\ now' = now + 1
  /\ UNCHANGED <<site, request, pending, processed, wire, issued, seen, owner, deliveries>>

Next ==
  \/ SpLogin \/ ReadRequest \/ Respond \/ RespondEncrypted \/ RespondUnsolicited \/ Deny
  \/ RespondOtherwise \/ Damage \/ DeliverToAcs \/ Validate \/ Tick

Spec == Init /\ [][Next]_vars

-----------------------------------------------------------------------------

\* What the library sends goes to an endpoint that the SP registered, under the
\* binding it was registered with and the request asked for ("the response only
\* ever goes to an endpoint registered in the SP's metadata").
AnswersGoWhereRegistered ==
  \A m \in wire :
    m.origin = "own" /\ m.response.irt # Absent =>
      \E i \in DOMAIN site.acs :
        /\ site.acs[i].url = m.response.destination /\ site.acs[i].binding = "post"
        /\ request.acsUrl \in {Absent, site.acs[i].url}
        /\ request.binding \in {Absent, "post"}
        /\ request.acsUrl = Absent => request.acsIndex \in {Absent, site.acs[i].index}

\* The two sides agree: the SP can do what its settings ask for, the IdP signs
\* what the SP wants signed with a key the SP knows, and the clocks are close.
Agreed(r) ==
  LET c == site.security
  IN /\ ~c.encryptedAssertions /\ r.encrypted = 0
     /\ site.idpKey \in site.trustedKeys /\ site.lead <= c.skew
     /\ r.success => /\ c.signedAssertions => site.signAssertions
                     /\ c.signedResponses => site.signResponses
     /\ UrlsMatch(r.destination, site.acsUrl)

InTime(d) ==
  LET r == d.message.response
  IN r.success => /\ d.at < r.assertions[1].conditions.until + site.security.skew
                  /\ d.at <= r.assertions[1].issued + site.security.maxAge

FirstTry(i) == \A j \in 1..(i - 1) : deliveries[j].message # deliveries[i].message

\* The two halves of the library understand each other: a response as this IdP
\* makes it, for the request that is outstanding, delivered once and in time to
\* an SP whose settings it satisfies, logs the user in, or tells the SP that the
\* user was denied.
AnswersAreUnderstood ==
  \A i \in DOMAIN deliveries :
    LET d == deliveries[i]
        r == d.message.response
    IN /\ d.message.origin = "own" /\ d.verdict # "valid" /\ site.call = Absent
       /\ Agreed(r) /\ InTime(d) /\ FirstTry(i)
       /\ d.expected = r.irt /\ (r.irt = Absent => site.security.unsolicited)
       /\ ~site.security.uniquePersistent
       => d.verdict = (IF r.success THEN "accepted" ELSE "denied")

Accepted == {i \in DOMAIN deliveries : deliveries[i].verdict \in {"accepted", "valid"}}
AsksForSignatures == site.security.signedAssertions \/ site.security.signedResponses

Meant(a, d) ==
  LET c == site.security
  IN /\ AsksForSignatures => Unsigned(a) \in issued
     /\ a.issuer = Idp /\ {Sp} \intersect UNION a.conditions.audiences # {}
     /\ a.conditions.until # Absent => d.at < a.conditions.until + c.skew
     /\ d.at <= a.issued + c.maxAge

Genuine(d) ==
  LET r == d.message.response
  IN /\ \A k \in DOMAIN r.assertions : Meant(r.assertions[k], d)
     /\ site.security.signedResponses => d.message.origin # "damaged"
     /\ r.irt = d.expected /\ (site.security.unsolicited \/ r.irt = RequestId)

AcceptedIsGenuine == \A i \in Accepted : Genuine(deliveries[i])

AcceptedOnce ==
  AsksForSignatures =>
    \A i, j \in Accepted :
      \A k \in DOMAIN deliveries[i].message.response.assertions,
         l \in DOMAIN deliveries[j].message.response.assertions :
        deliveries[i].message.response.assertions[k].id
          = deliveries[j].message.response.assertions[l].id => i = j

\* Whatever was done to a response or left out of it, what the SP takes over was
\* made by its IdP, for this SP and for the request of this browser, and has not
\* expired.  And an SP that asks for signatures takes no assertion over twice,
\* however its response is repeated, cut up or completed ("SAML Web SSO requires
\* assertion IDs to be single-use within their validity window").
AcceptedIsMeant == AcceptedIsGenuine /\ AcceptedOnce

\* Once an account has signed in with a persistent NameID, nobody else's account
\* is told that it owns that NameID ("Persistent IDs never reassigned").
NamesKeepTheirAccount ==
  \A i, j \in DOMAIN deliveries :
    LET Name(d) == PersistentName(d.message.response.assertions[1])
    IN /\ site.security.uniquePersistent
       /\ deliveries[i].verdict = "valid" /\ deliveries[j].verdict = "valid"
       /\ Name(deliveries[i]) # Absent /\ Name(deliveries[i]) = Name(deliveries[j])
       => deliveries[i].principal = deliveries[j].principal
=============================================================================
