---------------------------- MODULE SwedenConnect ----------------------------
(***************************************************************************)
(* An exchange under the deployment profile of the Swedish eID framework    *)
(* (crates/gamlastan/src/profiles/swedenconnect/): the service provider's   *)
(* request for a level of assurance (LoA), the response with its assertion  *)
(* encrypted and its envelope signed, and verify_and_process_response,      *)
(* which runs the validator among checks of its own.  The response may come *)
(* from another implementation, or be altered on its way.                   *)
(***************************************************************************)
EXTENDS AssertionValidator

CONSTANTS
  Sp, Idp, Stranger,
  Users,
  Deployments,    \* the settings of both sides
  MaxTime,        \* bound of the clock
  MaxDeliveries   \* bound: deliveries to the SP

VARIABLES
  deployment,  \* the settings, fixed from the start, with a bound: how many
               \* responses circulate, and whether they vary
  clock,
  asked,       \* the AuthnRequest, Refused, or Absent
  posted,      \* responses in circulation
  signed,      \* history: what the IdP put its signature to
  used,        \* the SP's replay cache
  received     \* history: what the SP made of each delivery

scVars == <<deployment, clock, asked, posted, signed, used, received>>

RequestId == "r1"
Refused == [refused |-> TRUE]
Acs == [at |-> "acs", slash |-> FALSE]
AnswerLifetime == 2
MaxSkew == 1

Init ==
  /\ deployment \in Deployments
  /\ clock = 0 /\ asked = Absent /\ posted = {} /\ signed = {} /\ used = << >> /\ received = << >>

-----------------------------------------------------------------------------
(* build_authn_request.                                                     *)

Buildable(o) == o.destination # Absent /\ (o.acsUrl = Absent \/ o.acsIndex = Absent)

\* Contexts compare exactly; a signature service always forces authentication.
AuthnRequest(d) ==
  [id |-> RequestId, binding |-> "post", acsUrl |-> d.options.acsUrl,
   acsIndex |-> d.options.acsIndex, context |-> d.requested,
   force |-> d.role = "signature service" \/ d.options.force]

BuildRequest ==
  /\ asked = Absent
  /\ asked' = IF Buildable(deployment.options) THEN AuthnRequest(deployment) ELSE Refused
  /\ UNCHANGED <<deployment, clock, posted, signed, used, received>>

-----------------------------------------------------------------------------
(* The identity provider: create_response, encrypt_assertions, error_response *)
(* and the signature over the result.                                        *)

\* The application may leave the LoA open: the first one that is configured.
DeliveredLoa(chosen) == IF chosen # Absent THEN chosen ELSE deployment.issuable[1]

\* There is an AttributeStatement even when there is nothing to say in it.
Assertion(id, irt, user, loa) ==
  LET until == clock + AnswerLifetime
  IN [id |-> id, issued |-> clock, issuer |-> Idp, sig |-> Absent,
      subject |->
        [nameId |-> [value |-> user, format |-> "persistent", encrypted |-> FALSE],
         confirmations |->
           <<[method |-> "bearer",
              data |-> [recipient |-> Acs, until |-> until, irt |-> irt,
                        notBefore |-> Absent, address |-> Absent]]>>],
      conditions |-> [notBefore |-> clock, until |-> until, audiences |-> {{Sp}},
                      proxies |-> Absent],
      sessions |-> <<until>>, loas |-> <<loa>>, attributeStatements |-> 1]

\* Algorithms are allowed by section 8 of the profile or they are not.
Box(assertion) == [assertion |-> assertion, algorithmsAllowed |-> TRUE]

Response(id, irt, success, assertions) ==
  [id |-> id, issuer |-> Idp, issuerFormat |-> "entity", destination |-> Acs, irt |-> irt,
   success |-> success, sig |-> Absent, algorithmsAllowed |-> TRUE,
   assertions |-> assertions, boxes |-> << >>]

EncryptAssertions(r) ==
  [r EXCEPT !.assertions = << >>, !.boxes = [i \in DOMAIN r.assertions |-> Box(r.assertions[i])]]

Unsigned(x) == [x EXCEPT !.sig = Absent]
SignedBy(x, key, covers) ==
  [x EXCEPT !.sig = [key |-> key, over |-> Unsigned(x), covers |-> covers]]

Post(origin, r) ==
  /\ posted' = posted \union {[origin |-> origin, response |-> r]}
  /\ signed' = IF r.sig # Absent /\ r.sig.key = "idp" THEN signed \union {Unsigned(r)} ELSE signed
  /\ UNCHANGED <<deployment, clock, asked, used, received>>

Room == Cardinality(posted) < deployment.responses
NextId == Cardinality(posted) + 1
Asked == asked \notin {Absent, Refused}
Answered == {Absent} \union (IF Asked THEN {RequestId} ELSE {})

Respond ==
  /\ Room
  /\ \E irt \in Answered, user \in Users,
        chosen \in {Absent} \union {deployment.issuable[i] : i \in DOMAIN deployment.issuable} :
       Post("own", SignedBy(EncryptAssertions(
         Response(NextId, irt, TRUE, <<Assertion(NextId, irt, user, DeliveredLoa(chosen))>>)),
         "idp", "response"))

\* A cancelled, fraudulent or unsatisfiable request: no assertion to encrypt.
Decline ==
  /\ Room /\ Asked
  /\ Post("own", SignedBy(Response(NextId, RequestId, FALSE, << >>), "idp", "response"))

\* Assertions that differ from a in one place.
OtherAssertions(a) ==
  LET bearer == a.subject.confirmations[1]
      holder == [bearer EXCEPT !.method = "holder-of-key"]
  IN {[a EXCEPT !.subject.confirmations = cs] : cs \in {<< >>, <<holder>>, <<holder, bearer>>}}
       \union {[a EXCEPT !.subject.nameId = n] : n \in {Absent, [a.subject.nameId EXCEPT !.encrypted = TRUE]}}
       \union {[a EXCEPT !.subject.confirmations[1].data.irt = i] : i \in {Absent, Stranger}}
       \union {[a EXCEPT !.loas = l, !.sessions = [i \in DOMAIN l |-> @[1]]] :
                 l \in {<< >>, <<Absent>>, <<"unknown">>, a.loas \o a.loas}}
       \union {[a EXCEPT !.attributeStatements = n] : n \in {0, 2}}
       \union {[a EXCEPT !.subject = Absent], [a EXCEPT !.issuer = Stranger], [a EXCEPT !.issued = @ - 3],
               SignedBy(a, "idp", "assertion"), SignedBy(a, "stranger", "assertion")}

\* Envelopes that differ from the encrypted r in one place.
OtherEnvelopes(r) ==
  LET a == r.boxes[1].assertion
  IN {[r EXCEPT !.issuer = i] : i \in {Absent, Stranger}}
       \union {[r EXCEPT !.irt = i] : i \in {Absent, Stranger}}
       \union {[r EXCEPT !.assertions = <<a>>, !.boxes = b] : b \in {<< >>, r.boxes}}
       \union {[r EXCEPT !.boxes = <<Box(a), Box([a EXCEPT !.id = @ + 10])>>], [r EXCEPT !.boxes = << >>],
               [r EXCEPT !.algorithmsAllowed = FALSE], [r EXCEPT !.boxes[1].algorithmsAllowed = FALSE],
               [r EXCEPT !.destination = Absent]}

Variations(r) ==
  OtherEnvelopes(r) \union {[r EXCEPT !.boxes = <<Box(a)>>] : a \in OtherAssertions(r.boxes[1].assertion)}

\* Another implementation: it may also leave the envelope unsigned, sign with a
\* key nobody trusts, or sign something else that the envelope carries.
RespondOtherwise ==
  /\ deployment.varied /\ posted = {} /\ Asked
  /\ \E user \in Users :
       LET usual == EncryptAssertions(Response(NextId, RequestId, TRUE,
                      <<Assertion(NextId, RequestId, user, deployment.issuable[1])>>))
       IN \/ \E v \in Variations(usual) : Post("peer", SignedBy(v, "idp", "response"))
          \/ Post("peer", usual)
          \/ Post("peer", SignedBy(usual, "stranger", "response"))
          \/ Post("peer", SignedBy(usual, "idp", "sibling"))

\* What circulates changes, its signature does not.
Alter ==
  /\ deployment.varied /\ Cardinality(posted) = 1
  /\ \E m \in posted :
       /\ m.origin = "own" /\ m.response.boxes # << >>
       /\ \E v \in Variations(m.response) : posted' = {[origin |-> "altered", response |-> v]}
  /\ UNCHANGED <<deployment, clock, asked, signed, used, received>>

-----------------------------------------------------------------------------
(* The service provider: verify_and_process_response.                       *)

\* security_config: the skew is clamped to what the profile allows.
SecurityOf(d) ==
  [DefaultConfig EXCEPT !.skew = Lesser(d.skew, MaxSkew), !.signedAssertions = d.wantSigned,
     !.signedResponses = TRUE, !.encryptedAssertions = TRUE, !.unsolicited = d.unsolicited]

Verifies(x) == x.sig.key = "idp" /\ x.sig.over = Unsigned(x)

\* Algorithms, the envelope's signature, nothing in clear, and the signature of
\* an assertion once it is decrypted, if it has one.
Readable(r) ==
  /\ r.algorithmsAllowed
  /\ r.sig # Absent /\ Verifies(r)
  /\ r.assertions = << >>
  /\ \A i \in DOMAIN r.boxes :
       LET a == r.boxes[i].assertion
       IN r.boxes[i].algorithmsAllowed /\ (a.sig # Absent => Verifies(a))

Decrypted(r) == [r EXCEPT !.assertions = [i \in DOMAIN r.boxes |-> r.boxes[i].assertion]]

\* The InResponseTo of an assertion's first confirmation that has data.
ConfirmedIrt(a) ==
  LET confirmations == IF a.subject = Absent THEN << >> ELSE a.subject.confirmations
      withData == {i \in DOMAIN confirmations : confirmations[i].data # Absent}
  IN IF withData = {} THEN Absent ELSE FirstAt(confirmations, withData).data.irt

Dangling(r) == r.irt # Absent \/ \E i \in DOMAIN r.assertions : ConfirmedIrt(r.assertions[i]) # Absent

\* What process_response asks before it runs the validator, and after.
Processable(r, expected) ==
  /\ r.success
  /\ r.issuer = Idp
  /\ expected = Absent => deployment.unsolicited /\ ~Dangling(r)
  /\ Len(r.assertions) = 1
  /\ r.sig.covers = "response"

LoaPresent(loa) == loa # Absent

LoaAccepted(loa) ==
  loa # Absent /\ (deployment.requested = << >> \/ \E i \in DOMAIN deployment.requested : deployment.requested[i] = loa)

Conformant(a) ==
  /\ Len(a.loas) = 1 /\ a.attributeStatements = 1
  /\ \E i \in DOMAIN a.subject.confirmations :
       a.subject.confirmations[i].method \in {"bearer", "holder-of-key"}
  /\ LoaAccepted(a.loas[1])
  /\ a.subject.nameId # Absent /\ ~a.subject.nameId.encrypted

Params(r, expected) ==
  [url |-> Acs, acs |-> Acs, idp |-> Idp, sp |-> Sp, request |-> expected,
   client |-> Absent, relay |-> Absent, depth |-> 0, sigXml |-> Absent, cache |-> TRUE,
   principal |-> Absent, responseVerified |-> "yes", now |-> clock,
   verified |-> {r.assertions[i].id : i \in {j \in DOMAIN r.assertions : r.assertions[j].sig # Absent}}]

\* The caller names the request only when the response answers it, and goes on
\* doing so: only the replay cache knows that it was answered.
Expected(r) == IF Asked /\ r.irt = RequestId THEN RequestId ELSE Absent

Deliver ==
  /\ Len(received) < MaxDeliveries
  /\ \E m \in posted :
       LET r == Decrypted(m.response)
           expected == Expected(r)
           c == SecurityOf(deployment)
           validated == Readable(m.response) /\ Processable(r, expected)
           failed == Failures(r, Params(r, expected), c, used, << >>)
           verdict == IF ~Readable(m.response) THEN "unreadable"
                      ELSE IF ~r.success THEN "declined"
                      ELSE IF ~validated THEN "unprocessable"
                      ELSE IF failed # {} THEN "invalid"
                      ELSE IF Conformant(r.assertions[1]) THEN "accepted" ELSE "unfit"
       IN /\ received' = Append(received, [message |-> m, verdict |-> verdict, at |-> clock])
          /\ used' = IF validated THEN SeenAfter(r, Params(r, expected), c, used) ELSE used
  /\ UNCHANGED <<deployment, clock, asked, posted, signed>>

Tick ==
  /\ posted # {} /\ clock < MaxTime /\ clock' = clock + 1
  /\ UNCHANGED <<deployment, asked, posted, signed, used, received>>

Next == BuildRequest \/ Respond \/ Decline \/ RespondOtherwise \/ Alter \/ Deliver \/ Tick

Spec == Init /\ [][Next]_scVars

-----------------------------------------------------------------------------

\* Whatever was left out or altered, what the SP takes over is one assertion
\* that its IdP encrypted and signed the envelope of, that vouches for a level
\* the request named, answers that request (or none, where that is allowed), is
\* not too old, and was not taken over before.
AcceptedIsAssured ==
  LET Accepted == {i \in DOMAIN received : received[i].verdict = "accepted"}
      One(i) == received[i].message.response.boxes[1].assertion
      wanted == IF Asked THEN asked.context ELSE deployment.requested
  IN \A i \in Accepted :
       LET r == received[i].message.response
           a == One(i)
       IN /\ Unsigned(r) \in signed /\ r.assertions = << >> /\ Len(r.boxes) = 1
          /\ wanted # << >> => \E k \in DOMAIN wanted : a.loas = <<wanted[k]>>
          /\ r.irt = RequestId \/ (r.irt = Absent /\ deployment.unsolicited)
          /\ received[i].at <= a.issued + DefaultConfig.maxAge
          /\ received[i].at < a.conditions.until + MaxSkew
          /\ \A j \in Accepted \ {i} : One(j).id # a.id

\* What this library's IdP answers reaches this library's SP: with a level that
\* was asked for, in time and for the first time, it logs the user in.
AnswersReachTheSp ==
  \A i \in DOMAIN received :
    LET d == received[i]
        r == d.message.response
    IN d.message.origin = "own" /\ (\A j \in 1..(i - 1) : received[j].message # d.message) =>
         IF ~r.success THEN d.verdict = "declined"
         ELSE LET a == r.boxes[1].assertion
              IN /\ \/ r.irt = RequestId
                    \/ r.irt = Absent /\ deployment.unsolicited
                 /\ LoaAccepted(a.loas[1]) /\ ~deployment.wantSigned
                 /\ d.at < a.conditions.until + Lesser(deployment.skew, MaxSkew)
                 => d.verdict = "accepted"
=============================================================================
