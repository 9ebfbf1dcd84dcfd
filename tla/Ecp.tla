--------------------------------- MODULE Ecp ---------------------------------
(***************************************************************************)
(* The Enhanced Client or Proxy profile, all three roles                    *)
(* (crates/gamlastan/src/profiles/sso/ecp.rs, with bindings/paos.rs): the   *)
(* service provider answers a client with an AuthnRequest in a PAOS         *)
(* envelope, the client takes it to the identity provider, and the answer   *)
(* back.  One client holds several conversations at a time, and an answer   *)
(* may reach it late, twice, or while it works on another one.              *)
(*                                                                          *)
(* A conversation is a record: the ID of its AuthnRequest, the ACS URL in   *)
(* it, and what the PAOS envelope adds (issuer, responseConsumerURL,        *)
(* messageID, RelayState).  Header blocks that are missing are Absent.      *)
(***************************************************************************)
EXTENDS Integers, Sequences, FiniteSets

CONSTANTS
  Absent,
  Conversations,   \* what service providers ask, one record each
  MaxAnswers,      \* bound: envelopes the IdP sends
  MaxReceived      \* bound: envelopes that reach a service provider

VARIABLES
  opened,    \* conversations whose first envelope went to the client
  held,      \* conversations the client has parsed (EcpRequest)
  atIdp,     \* AuthnRequests that reached the identity provider
  answers,   \* envelopes from the identity provider
  relays,    \* envelopes the client posts, with the URL they go to
  outcomes   \* history: what a service provider made of an envelope, per conversation

ecpVars == <<opened, held, atIdp, answers, relays, outcomes>>

EcpInit ==
  opened = {} /\ held = {} /\ atIdp = {} /\ answers = {} /\ relays = {} /\ outcomes = << >>

-----------------------------------------------------------------------------
(* create_ecp_authn_request_envelope and parse_ecp_authn_request_envelope.  *)

Sendable(c) == c.issuer # Absent /\ c.consumerUrl # Absent

Open(c) ==
  /\ c \notin opened /\ Sendable(c)
  /\ opened' = opened \union {c}
  /\ UNCHANGED <<held, atIdp, answers, relays, outcomes>>

Hold(c) ==
  /\ c \in opened \ held
  /\ held' = held \union {c}
  /\ UNCHANGED <<opened, atIdp, answers, relays, outcomes>>

-----------------------------------------------------------------------------
(* idp_soap_envelope, parse_idp_ecp_request, create_ecp_response_envelope.  *)

\* No header goes to the identity provider: it sees the AuthnRequest alone.
Forward(c) ==
  /\ c \in held
  /\ atIdp' = atIdp \union {[id |-> c.id, acsUrl |-> c.acsUrl]}
  /\ UNCHANGED <<opened, held, answers, relays, outcomes>>

Body(q) == [irt |-> q.id, destination |-> q.acsUrl]
FaultAnswer == [fault |-> TRUE]

\* The answer names the URL its response is for, unless another implementation
\* leaves the header out; the identity provider may also answer with a fault.
Answer(q) ==
  /\ q \in atIdp /\ Cardinality(answers) < MaxAnswers
  /\ \E a \in {[acsUrl |-> u, body |-> Body(q)] : u \in {q.acsUrl, Absent}} \union {FaultAnswer} :
       answers' = answers \union {a}
  /\ UNCHANGED <<opened, held, atIdp, relays, outcomes>>

-----------------------------------------------------------------------------
(* process_idp_response, ecp_fault_envelope.                                *)

Usable(c, a) == a # FaultAnswer /\ a.acsUrl # Absent /\ a.acsUrl = c.consumerUrl

\* Nothing tells the client which conversation an answer belongs to but where
\* the application got it from: it may come while another one is in hand.
Relay(c, a) ==
  /\ c \in held /\ a \in answers
  /\ relays' = relays \union
       {IF Usable(c, a)
        THEN [to |-> a.acsUrl, refTo |-> c.messageId, relayState |-> c.relayState, body |-> a.body]
        ELSE [to |-> c.consumerUrl, refTo |-> Absent, relayState |-> Absent, body |-> FaultAnswer]}
  /\ UNCHANGED <<opened, held, atIdp, answers, outcomes>>

-----------------------------------------------------------------------------
(* parse_ecp_response_at_sp, verify_ref_to_message_id.                      *)

RefersToAny(c, p) == TRUE

\* A conversation without a messageID has nothing to compare.
RefersTo(c, p) == c.messageId = Absent \/ p.refTo = c.messageId

\* After it the response goes through the usual pipeline, which wants its
\* InResponseTo and its destination to be the conversation's own.
Receive(c, p) ==
  /\ c \in opened /\ p \in relays /\ p.to = c.consumerUrl /\ Len(outcomes) < MaxReceived
  /\ LET verdict == IF p.body = FaultAnswer THEN "fault"
                    ELSE IF ~RefersTo(c, p) THEN "other conversation"
                    ELSE IF p.body.irt = c.id /\ p.body.destination = p.to THEN "in" ELSE "invalid"
     IN outcomes' = Append(outcomes, [conversation |-> c, verdict |-> verdict, relay |-> p])
  /\ UNCHANGED <<opened, held, atIdp, answers, relays>>

EcpNext ==
  \/ \E c \in Conversations : Open(c) \/ Hold(c) \/ Forward(c)
  \/ \E q \in atIdp : Answer(q)
  \/ \E c \in Conversations : \E a \in answers : Relay(c, a)
  \/ \E c \in Conversations : \E p \in relays : Receive(c, p)

EcpSpec == EcpInit /\ [][EcpNext]_ecpVars

-----------------------------------------------------------------------------

\* However the answers of several conversations cross in the client, a service
\* provider that gives its conversations a messageID logs in with the response
\* to the request of that conversation and goes on from the RelayState it gave
\* it; a conversation whose two URLs differ never gets that far.
ConversationsStayApart ==
  \A i \in DOMAIN outcomes :
    LET c == outcomes[i].conversation
        p == outcomes[i].relay
    IN outcomes[i].verdict = "in" =>
         /\ p.body.irt = c.id /\ c.acsUrl = c.consumerUrl
         /\ c.messageId # Absent => p.relayState = c.relayState
=============================================================================
