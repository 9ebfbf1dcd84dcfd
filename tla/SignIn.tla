-------------------------------- MODULE SignIn --------------------------------
(***************************************************************************)
(* The profiles by which a user signs in, side by side: web-browser SSO,    *)
(* the Swedish profile, ECP, and the discovery of the identity provider.    *)
(* They share no state, and each goes on at its own pace.                   *)
(***************************************************************************)
EXTENDS WebSso

CONSTANTS
  Deployments, EidMaxTime,                                        \* the Swedish profile
  Conversations, MaxAnswers, MaxReceived,                         \* ECP
  Idps, Malformed, DiscoveryRequests, Registered, MaxLogins, MaxRedirects   \* discovery

VARIABLES
  deployment, clock, asked, posted, signed, used, received,
  opened, held, atIdp, answers, relays, outcomes,
  cookie, visits, logins, lastSet, redirects

Eid == INSTANCE SwedenConnect WITH MaxTime <- EidMaxTime
Client == INSTANCE Ecp
Finder == INSTANCE Discovery

eidVars == <<deployment, clock, asked, posted, signed, used, received>>
clientVars == <<opened, held, atIdp, answers, relays, outcomes>>
finderVars == <<cookie, visits, logins, lastSet, redirects>>
signInVars == <<vars, eidVars, clientVars, finderVars>>

\* The IDs of AuthnRequests are drawn at random, and a service provider that
\* gives its conversations a messageID gives each its own.
ASSUME ConversationsAssumption ==
  \A c, d \in Conversations :
    c.id = d.id \/ (c.messageId # Absent /\ c.messageId = d.messageId) => c = d

\* Times are whole numbers, and an IdP has a level of assurance to issue.
ASSUME DeploymentsAssumption ==
  /\ EidMaxTime \in Nat
  /\ \A d \in Deployments :
       d.skew \in Nat /\ d.responses \in Nat /\ 1 \in DOMAIN d.issuable

\* The endpoints of an SP are in order.
IsSequence(s) == s \in Seq({s[i] : i \in DOMAIN s})
ASSUME SitesAssumption == \A s \in Sites : IsSequence(s.acs)

\* A place is a base and a query, a sequence of parameters; the indexes of
\* endpoints compare.
IsPlace(url) == url = [base |-> url.base, query |-> url.query] /\ IsSequence(url.query)
ASSUME DiscoveryAssumption ==
  /\ Absent \notin Seq(Idps)
  /\ IsSequence(Registered)
  /\ \A i \in DOMAIN Registered :
       IsPlace(Registered[i].location) /\ Registered[i].index \in Nat
  /\ \A q \in DiscoveryRequests : q.returnUrl # Absent => IsPlace(q.returnUrl)

\* Absent is none of the elements that the identity providers of this library
\* write: endpoints, names, subjects, conditions, signatures.
Places == UNION {{s.acs[i].url : i \in DOMAIN s.acs} : s \in Sites}
NameIds == [value : Users, format : {"persistent"}, encrypted : {FALSE}]
DataFor(places) ==
  [recipient : places, until : Int, irt : {Absent, RequestId}, notBefore : {Absent},
   address : {Absent}]
SubjectsFor(places) ==
  [nameId : NameIds, confirmations : Seq([method : {"bearer"}, data : DataFor(places)])]
ConditionsMade == [notBefore : Int, until : Int, audiences : {{{Sp}}}, proxies : {Absent}]

AssertionsWith(signatures) ==
  [id : Nat, issued : Int, issuer : {Idp}, sig : signatures, subject : SubjectsFor(Places),
   conditions : ConditionsMade, sessions : Seq(Int), attributes : SUBSET Users]
SignaturesOver(contents) == [key : {s.idpKey : s \in Sites}, over : contents]
AssertionsMade == AssertionsWith({Absent})
ResponsesMade ==
  [id : Nat, destination : Places, issuerFormat : {"entity"}, irt : {Absent, RequestId},
   sig : {Absent}, success : BOOLEAN, encrypted : Nat,
   assertions : Seq(AssertionsMade \union AssertionsWith(SignaturesOver(AssertionsMade)))]

\* Those of the Swedish profile.
StatementsMade ==
  [id : Nat, issued : Int, issuer : {Idp}, sig : {Absent}, subject : SubjectsFor({Eid!Acs}),
   conditions : ConditionsMade, sessions : Seq(Int), attributeStatements : {1},
   loas : Seq(UNION {{d.issuable[i] : i \in DOMAIN d.issuable} : d \in Deployments})]
EnvelopesMade ==
  [id : Nat, issuer : {Idp}, issuerFormat : {"entity"}, destination : {Eid!Acs},
   irt : {Absent, RequestId}, success : BOOLEAN, sig : {Absent}, algorithmsAllowed : {TRUE},
   assertions : {<< >>}, boxes : Seq([assertion : StatementsMade, algorithmsAllowed : {TRUE}])]

ASSUME AbsenceAssumption ==
  /\ Absent # RequestId
  /\ Absent \notin Places /\ Absent \notin NameIds /\ Absent \notin ConditionsMade
  /\ Absent \notin DataFor(Places) /\ Absent \notin SubjectsFor(Places)
  /\ Absent \notin SignaturesOver(AssertionsMade) /\ Absent \notin SignaturesOver(ResponsesMade)
  /\ Absent # Eid!Acs
  /\ Absent \notin DataFor({Eid!Acs}) /\ Absent \notin SubjectsFor({Eid!Acs})
  /\ Absent \notin [key : {"idp"}, over : EnvelopesMade, covers : {"response"}]

SignInInit == Init /\ Eid!Init /\ Client!EcpInit /\ Finder!DiscoveryInit

WebStep == Next /\ UNCHANGED <<eidVars, clientVars, finderVars>>
EidStep == Eid!Next /\ UNCHANGED <<vars, clientVars, finderVars>>
ClientStep == Client!EcpNext /\ UNCHANGED <<vars, eidVars, finderVars>>
FinderStep == Finder!DiscoveryNext /\ UNCHANGED <<vars, eidVars, clientVars>>

SignInNext == WebStep \/ EidStep \/ ClientStep \/ FinderStep

SignInSpec == SignInInit /\ [][SignInNext]_signInVars

-----------------------------------------------------------------------------

\* The Swedish profile and ECP: whatever was done to a response, the identity that
\* the SP takes over is assured at a level it asked for and meant for it, once and
\* in time, and the answers of several ECP conversations never end up in each
\* other's login.
TakenOverIsMeant == Eid!AcceptedIsAssured /\ Client!ConversationsStayApart

\* The browser profile and the Swedish one: what this library's IdP answers, its SP understands.
OwnAnswersAreUnderstood == AnswersAreUnderstood /\ Eid!AnswersReachTheSp

\* An SP that asks for discovery hears of the identity provider used last.
HeardIsLastUsed == Finder!HeardIsLastUsed
=============================================================================
