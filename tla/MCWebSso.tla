------------------------------ MODULE MCWebSso ------------------------------
(***************************************************************************)
(* The profiles of signing in, for TLC: web-browser SSO between two sites   *)
(* with a usual setting or one thing changed in it, the Swedish profile,    *)
(* ECP, discovery, and the documents and bindings they all use.  They share no *)
(* state: the initial state picks one and the others rest.                  *)
(***************************************************************************)
EXTENDS SignIn, TLC

CONSTANTS u1, u2, Fault, Garbled

Acs(at, binding, index, default) ==
  [url |-> Url(at), binding |-> binding, index |-> index, isDefault |-> default]

\* The library's SP names its ACS URL and nothing else.
Options ==
  [issuer |-> Sp, confirmation |-> FALSE, acsUrl |-> Url("acs"), acsIndex |-> Absent,
   binding |-> Absent, context |-> Absent, via |-> "redirect", signer |-> "k1",
   xmlSigner |-> Absent]

Usual ==
  [options |-> Options,
   ssoEndpoints |-> <<[binding |-> "redirect", location |-> Url("sso")]>>,
   acs |-> <<Acs("acs", "post", 1, FALSE), Acs("acs", "artifact", 0, FALSE),
             Acs("acs2", "post", 2, FALSE)>>,
   requestsSigned |-> TRUE, spKeys |-> <<"k1", "k2">>, acsUrl |-> Url("acs"),
   lead |-> 0, signAssertions |-> TRUE, signResponses |-> FALSE, idpKey |-> "i1",
   trustedKeys |-> {"i1", "i2"}, encrypts |-> FALSE, security |-> DefaultConfig,
   call |-> Absent, responses |-> 1, varied |-> FALSE]

OptionSites ==
  {[Usual EXCEPT !.options = o] : o \in
     {[Options EXCEPT !.issuer = Absent], [Options EXCEPT !.issuer = Stranger],
      [Options EXCEPT !.confirmation = TRUE], [Options EXCEPT !.context = {}],
      [Options EXCEPT !.signer = "k2"], [Options EXCEPT !.signer = Absent],
      [Options EXCEPT !.via = "post"],
      [Options EXCEPT !.xmlSigner = "k2"], [Options EXCEPT !.xmlSigner = "k3"]}
     \union {[Options EXCEPT !.acsUrl = u, !.acsIndex = i, !.binding = b] :
               u \in {Absent, Url("acs"), [Url("acs") EXCEPT !.slash = TRUE], Url("elsewhere")},
               i \in {Absent, 0, 2, 7}, b \in {Absent, "post", "artifact"}}}

PlainSites ==
  {[Usual EXCEPT !.signAssertions = a, !.signResponses = r] : a, r \in BOOLEAN}
    \union {[Usual EXCEPT !.idpKey = k] : k \in {"i2", "i3"}}
    \union {[Usual EXCEPT !.trustedKeys = {}], [Usual EXCEPT !.spKeys = << >>],
            [Usual EXCEPT !.acsUrl = Url("acs2")],
            [Usual EXCEPT !.encrypts = TRUE, !.signAssertions = FALSE]}
    \union {[Usual EXCEPT !.acs = <<Acs("acs2", "post", 1, FALSE), Acs("acs", "post", 3, TRUE)>>,
                          !.options.acsUrl = u] : u \in {Absent, Url("acs")}}
    \union {[Usual EXCEPT !.lead = l] : l \in 1..2}
    \union {[Usual EXCEPT !.requestsSigned = FALSE, !.options.signer = Absent],
            [Usual EXCEPT !.ssoEndpoints = <<[binding |-> "soap", location |-> Url("soap")],
                                             [binding |-> "post", location |-> Url("sso")]>>]}

SecuritySites ==
  {[Usual EXCEPT !.security = cs[1], !.signResponses = cs[2], !.signAssertions = cs[3],
                 !.varied = TRUE] :
     cs \in {<<PermissiveConfig, FALSE, FALSE>>, <<PermissiveConfig, TRUE, FALSE>>,
             <<[PermissiveConfig EXCEPT !.verifyRecipient = TRUE, !.verifyDestination = TRUE],
               FALSE, TRUE>>,
             <<StrictConfig, TRUE, TRUE>>,
             <<[StrictConfig EXCEPT !.encryptedAssertions = FALSE], TRUE, TRUE>>,
             <<[StrictConfig EXCEPT !.encryptedAssertions = FALSE], FALSE, TRUE>>,
             <<[DefaultConfig EXCEPT !.signedAssertions = FALSE, !.signedResponses = TRUE],
               TRUE, FALSE>>,
             <<[DefaultConfig EXCEPT !.unsolicited = TRUE], FALSE, TRUE>>,
             <<[DefaultConfig EXCEPT !.uniquePersistent = TRUE], FALSE, TRUE>>}}

Call == [client |-> Absent, relay |-> Absent, depth |-> 0, sigXml |-> Absent, cache |-> TRUE]

CallSites ==
  {[Usual EXCEPT !.call = k, !.security = c, !.responses = IF k = Call THEN 2 ELSE 1] :
     k \in {Call, [Call EXCEPT !.client = "client"], [Call EXCEPT !.depth = 1],
            [Call EXCEPT !.cache = FALSE]}
             \union {[Call EXCEPT !.relay = [traits |-> t]] : t \in {{}, {"long"}, {"scheme"}}}
             \union {[Call EXCEPT !.sigXml = x] : x \in {"plain", "object", "garbled"}},
     c \in {[DefaultConfig EXCEPT !.clientAddress = TRUE, !.uniquePersistent = TRUE]}}

Symmetry == Permutations(Users)

AllSites ==
  {[Usual EXCEPT !.varied = TRUE, !.call = c] : c \in {Absent, Call}}
    \union OptionSites \union PlainSites \union SecuritySites \union CallSites

-----------------------------------------------------------------------------
(* The Swedish profile, with settings of its own.                           *)

EidOptions == [destination |-> "sso", acsUrl |-> Url("acs"), acsIndex |-> Absent, force |-> FALSE]
EidUsual ==
  [role |-> "sp", requested |-> <<"loa3", "loa4">>, issuable |-> <<"loa3", "loa2">>, skew |-> 1,
   unsolicited |-> FALSE, wantSigned |-> FALSE, options |-> EidOptions, varied |-> TRUE,
   responses |-> 1]

EidDeployments ==
  {EidUsual, [EidUsual EXCEPT !.unsolicited = TRUE], [EidUsual EXCEPT !.wantSigned = TRUE],
   [EidUsual EXCEPT !.skew = 2], [EidUsual EXCEPT !.requested = << >>],
   [EidUsual EXCEPT !.issuable = <<"loa2", "loa3">>, !.varied = FALSE, !.responses = 2,
                    !.unsolicited = TRUE]}
    \union {[EidUsual EXCEPT !.role = "signature service", !.options = o, !.varied = FALSE] :
              o \in {[EidOptions EXCEPT !.destination = Absent], [EidOptions EXCEPT !.acsIndex = 1],
                     [EidOptions EXCEPT !.acsUrl = Absent, !.acsIndex = 1]}}

-----------------------------------------------------------------------------
(* Conversations of one ECP client: two of one SP, one whose URLs differ, one *)
(* without a messageID, and one the SP cannot send.                           *)

Conversation(id, consumerUrl, messageId, relayState) ==
  [id |-> id, issuer |-> Sp, acsUrl |-> "acs", consumerUrl |-> consumerUrl,
   messageId |-> messageId, relayState |-> relayState]
ClientConversations ==
  {Conversation("q1", "acs", "m1", "page1"), Conversation("q2", "acs", "m2", "page2"),
   Conversation("q3", "other", "m3", Absent), Conversation("q4", "acs", Absent, "page4"),
   Conversation("q5", Absent, "m5", Absent)}

-----------------------------------------------------------------------------
(* Discovery: an SP with two places to answer to, one with a query.         *)

Parameter(name, value) == [name |-> name, value |-> value]
Place(base, query) == [base |-> base, query |-> query]
DiscoveryResponses ==
  <<[location |-> Place("ds", <<Parameter("x", 1)>>), index |-> 2, isDefault |-> FALSE],
    [location |-> Place("home", << >>), index |-> 1, isDefault |-> FALSE]>>

Ask(returnUrl, param, passive) ==
  [entity |-> Sp, returnUrl |-> returnUrl, param |-> param, passive |-> passive]
AskedOfDiscovery ==
  {Ask(Absent, Absent, TRUE), Ask(Place("ds", << >>), "idp", TRUE),
   Ask(Place("ds", <<Parameter("x", 1), Parameter("y", 2)>>), "idp", TRUE),
   Ask(Place("ds", <<Parameter("x", 1), Parameter("entityID", 2)>>), Absent, FALSE),
   Ask(Absent, "a&b", TRUE), [Ask(Absent, Absent, TRUE) EXCEPT !.entity = Absent]}

-----------------------------------------------------------------------------

VARIABLES
  profile,
  kind, sent, spelling, document, fate, markup, reader, got, again,
  letter, http, handling, arrival

Docs == INSTANCE DocumentExchange WITH None <- Absent
Wire == INSTANCE Bindings WITH None <- Absent

docVars == <<kind, sent, spelling, document, fate, markup, reader, got, again>>
wireVars == <<letter, http, handling, arrival>>
ssoVars == <<signInVars, docVars, wireVars, profile>>

DocsRest ==
  /\ kind = Absent /\ sent = Absent /\ spelling = Absent /\ document = Absent /\ fate = Absent
  /\ markup = Absent /\ reader = Absent /\ got = Absent /\ again = Absent
SsoInit ==
  /\ profile \in {"web browser", "eid", "ecp", "discovery", "documents", "bindings"}
  /\ SignInInit
  /\ profile # "web browser" => site = Usual
  /\ profile # "eid" => deployment = EidUsual
  /\ IF profile = "documents" THEN Docs!DocInit ELSE DocsRest
  /\ IF profile = "bindings" THEN Wire!WireInit
     ELSE letter = Absent /\ http = Absent /\ handling = Absent /\ arrival = Absent
SsoNext ==
  /\ UNCHANGED profile
  /\ \/ profile = "web browser" /\ WebStep /\ UNCHANGED <<docVars, wireVars>>
     \/ profile = "eid" /\ EidStep /\ UNCHANGED <<docVars, wireVars>>
     \/ profile = "ecp" /\ ClientStep /\ UNCHANGED <<docVars, wireVars>>
     \/ profile = "discovery" /\ FinderStep /\ UNCHANGED <<docVars, wireVars>>
     \/ profile = "documents" /\ Docs!DocNext /\ UNCHANGED <<signInVars, wireVars>>
     \/ profile = "bindings" /\ Wire!WireNext /\ UNCHANGED <<signInVars, docVars>>
SsoSpec == SsoInit /\ [][SsoNext]_ssoVars

-----------------------------------------------------------------------------

\* Messages arrive as they were sent, over every binding and as XML: what nobody
\* changed is read as it was written, and of what was changed a reader takes what
\* it says, in the only way it can be read, or refuses it.
ArrivesAsSent == Wire!ArrivesAsSent /\ Docs!ReadAsItStands

\* Descriptors keep their meaning wherever their document declares its prefixes.
MeaningSurvives == Docs!MeaningSurvives
=============================================================================
