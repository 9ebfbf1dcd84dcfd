-------------------------- MODULE DocumentExchange --------------------------
(***************************************************************************)
(* One document on its way: a value is written, the document may be changed  *)
(* under way, it is parsed (crates/gamlastan/src/xml/deserialize.rs), and what *)
(* was read is written and read again, as one who passes it on does.            *)
(*                                                                              *)
(* Metadata comes in two spellings: this library's, where every element          *)
(* declares its prefixes, and the one of federations, where the root does.        *)
(***************************************************************************)
EXTENDS MetadataXml

VARIABLES kind, sent, spelling, document, fate, markup, reader, got, again
docVars == <<kind, sent, spelling, document, fate, markup, reader, got, again>>

Metadata == {"EntityDescriptor", "EntitiesDescriptor"}
Responses == {"Response", "LogoutResponse", "ArtifactResponse", "ManageNameIDResponse", "NameIDMappingResponse"}
Messages == FORBIDDEN_RESPONSE_CHILDREN \cup Responses
Kinds == Messages \cup Metadata \cup {"Assertion"}

TypeOf(k) ==
  CASE k = "AuthnRequest" -> AuthnRequestType [] k = "Response" -> ResponseType
    [] k = "LogoutRequest" -> LogoutRequestType [] k = "LogoutResponse" -> StatusResponseType
    [] k = "ArtifactResolve" -> ArtifactResolveType [] k = "ArtifactResponse" -> ArtifactResponseType
    [] k = "ManageNameIDRequest" -> ManageNameIdRequestType
    [] k = "ManageNameIDResponse" -> StatusResponseType
    [] k = "NameIDMappingRequest" -> NameIdMappingRequestType
    [] k = "NameIDMappingResponse" -> NameIdMappingResponseType
    [] k = "AssertionIDRequest" -> AssertionIdRequestType [] k = "AuthnQuery" -> AuthnQueryType
    [] k = "AttributeQuery" -> AttributeQueryType [] k = "AuthzDecisionQuery" -> AuthzDecisionQueryType
    [] k = "Assertion" -> AssertionType
    [] k = "EntityDescriptor" -> EntityType [] k = "EntitiesDescriptor" -> EntitiesType

Written(k, v) ==
  CASE k = "AuthnRequest" -> WriteAuthnRequest(v) [] k = "Response" -> WriteResponse(v)
    [] k = "LogoutRequest" -> WriteLogoutRequest(v) [] k = "LogoutResponse" -> WriteLogoutResponse(v)
    [] k = "ArtifactResolve" -> WriteArtifactResolve(v)
    [] k = "ArtifactResponse" -> WriteArtifactResponse(v)
    [] k = "ManageNameIDRequest" -> WriteManageNameIdRequest(v)
    [] k = "ManageNameIDResponse" -> WriteManageNameIdResponse(v)
    [] k = "NameIDMappingRequest" -> WriteNameIdMappingRequest(v)
    [] k = "NameIDMappingResponse" -> WriteNameIdMappingResponse(v)
    [] k = "AssertionIDRequest" -> WriteAssertionIdRequest(v) [] k = "AuthnQuery" -> WriteAuthnQuery(v)
    [] k = "AttributeQuery" -> WriteAttributeQuery(v)
    [] k = "AuthzDecisionQuery" -> WriteAuthzDecisionQuery(v)
    [] k = "Assertion" -> WriteAssertion(v)
    [] k = "EntityDescriptor" -> WriteEntity(v) [] k = "EntitiesDescriptor" -> WriteEntities(v)

from_xml(k, e) ==
  CASE k = "AuthnRequest" -> ReadAuthnRequest(e) [] k = "Response" -> ReadResponse(e)
    [] k = "LogoutRequest" -> ReadLogoutRequest(e) [] k = "LogoutResponse" -> ReadLogoutResponse(e)
    [] k = "ArtifactResolve" -> ReadArtifactResolve(e)
    [] k = "ArtifactResponse" -> ReadArtifactResponse(e)
    [] k = "ManageNameIDRequest" -> ReadManageNameIdRequest(e)
    [] k = "ManageNameIDResponse" -> ReadManageNameIdResponse(e)
    [] k = "NameIDMappingRequest" -> ReadNameIdMappingRequest(e)
    [] k = "NameIDMappingResponse" -> ReadNameIdMappingResponse(e)
    [] k = "AssertionIDRequest" -> ReadAssertionIdRequest(e) [] k = "AuthnQuery" -> ReadAuthnQuery(e)
    [] k = "AttributeQuery" -> ReadAttributeQuery(e)
    [] k = "AuthzDecisionQuery" -> ReadAuthzDecisionQuery(e)
    [] k = "Assertion" -> ReadAssertion(e)
    [] k = "EntityDescriptor" -> ReadEntity(e) [] k = "EntitiesDescriptor" -> ReadEntities(e)

-----------------------------------------------------------------------------
(* Changes.                                                                  *)

\* An attribute of the root is missing or garbled; a child is missing, or there
\* is one more: one of the document's own or an empty one, or a request.
ChangesOf(e) ==
  LET others == Range(e.kids) \cup {Empty(kid.tag) : kid \in Range(e.kids)}
                  \cup {Empty(Samlp(request)) : request \in FORBIDDEN_RESPONSE_CHILDREN}
  IN {[e EXCEPT !.at = Restrict(@, DOMAIN @ \ {n})] : n \in DOMAIN e.at}
     \cup {[e EXCEPT !.at[n] = Garbled] : n \in DOMAIN e.at}
     \cup {[e EXCEPT !.kids = RemoveAt(@, i)] : i \in DOMAIN e.kids}
     \cup UNION {{[e EXCEPT !.kids = Append(@, kid)], [e EXCEPT !.kids = <<kid>> \o @]} : kid \in others}

Marks == {"comment", "instruction", "cdata", "doctype"}
Places == {"between elements", "inside text"}

-----------------------------------------------------------------------------
(* Parsing.  A reader takes the first piece of a text that markup cuts.       *)

Seen(e, marks) ==
  LET Cut(kid) == IF kid.text = "" THEN kid ELSE [kid EXCEPT !.text = Garbled]
  IN IF marks = None \/ marks[2] = "between elements" THEN e
     ELSE [e EXCEPT !.kids = Each(Cut, @)]
reject_forbidden_nodes(marks, forbidden) == marks # None /\ marks[1] \in forbidden
reject_split_metadata_text(marks) == marks # None /\ marks[2] = "inside text"

parse_secure(e, marks) ==
  IF ~Resolves(e, {}) \/ reject_forbidden_nodes(marks, Marks) THEN Fault ELSE Seen(e, marks)
parse_secure_metadata(e, marks) ==
  IF \/ ~Resolves(e, {})
     \/ reject_forbidden_nodes(marks, {"cdata", "doctype"})
     \/ reject_split_metadata_text(marks)
  THEN Fault ELSE Seen(e, marks)

\* Each reader checks the name of its element first.
verify_element(k, e) ==
  e.tag = (IF k = "Assertion" THEN Saml(k) ELSE IF k \in Metadata THEN Md(k) ELSE Samlp(k))
Received(k, e, marks) ==
  LET parsed == IF k \in Metadata THEN parse_secure_metadata(e, marks) ELSE parse_secure(e, marks)
  IN IF parsed = Fault \/ ~verify_element(k, parsed) THEN Fault ELSE from_xml(k, parsed)

-----------------------------------------------------------------------------

DocInit ==
  /\ kind \in Kinds
  /\ \/ fate = "untouched" /\ sent \in TypeOf(kind).all /\ spelling \in {"own", "federation"}
     \/ fate = "not yet" /\ sent \in {TypeOf(kind).bare, TypeOf(kind).full} /\ spelling = "own"
  /\ document = None /\ markup = None
  /\ reader = kind /\ got = None /\ again = None

Write ==
  /\ document = None
  /\ document' = Spelled(Written(kind, sent), spelling)
  /\ UNCHANGED <<kind, sent, spelling, fate, markup, reader, got, again>>

Change ==
  /\ document # None /\ fate = "not yet"
  /\ document' \in ChangesOf(document)
  /\ fate' = "changed"
  /\ UNCHANGED <<kind, sent, spelling, markup, reader, got, again>>

MarkUp ==
  /\ document # None /\ fate = "not yet"
  /\ markup' \in Marks \X Places
  /\ fate' = "marked up"
  /\ UNCHANGED <<kind, sent, spelling, document, reader, got, again>>

\* A document of one kind is offered to the reader of another.
Mistake ==
  /\ document # None /\ fate = "not yet"
  /\ reader' \in Kinds \ {kind}
  /\ fate' = "mistaken"
  /\ UNCHANGED <<kind, sent, spelling, document, markup, got, again>>

Read ==
  /\ document # None /\ fate # "not yet" /\ got = None
  /\ got' = Received(reader, document, markup)
  /\ UNCHANGED <<kind, sent, spelling, document, fate, markup, reader, again>>

PassOn ==
  /\ got \notin {None, Fault} /\ again = None
  /\ again' = Received(kind, Written(kind, got), None)
  /\ UNCHANGED <<kind, sent, spelling, document, fate, markup, reader, got>>

DocNext == Write \/ Change \/ MarkUp \/ Mistake \/ Read \/ PassOn

-----------------------------------------------------------------------------
(* Properties.                                                               *)

\* What the written form of a value leaves out.
WholeBytes(v) == IF v = Typed("base64Binary", Binary) THEN Typed("base64Binary", "") ELSE v
CarriedStatement(s) ==
  [attributes |-> Each(LAMBDA a : [a EXCEPT !.values = Each(WholeBytes, @)], s.attributes)]
RECURSIVE Carried(_)
Carried(v) ==
  [f \in DOMAIN v |->
     CASE f = "issue_instant" -> Seconds(v[f]) [] f = "version" -> WriteVersion(v[f])
       [] f = "has_signature" -> FALSE
       [] f = "attribute_statements" -> Each(CarriedStatement, v[f])
       [] f = "affiliation" -> ReadIf(Carried, v[f])
       [] OTHER -> v[f]]

\* The children of which a reader acts on every one, or refuses more than one.
\* One that is empty may be read as what it means by default.
Heeded ==
  {Saml("Subject"), Samlp("NameIDPolicy"), Saml("Conditions"), Samlp("RequestedAuthnContext"),
   Samlp("Scoping"), Saml("Assertion"), Saml("EncryptedAssertion")}
SaysTheSame(before, after) ==
  /\ after.at = before.at
  /\ \A kid \in Range(after.kids) : {kid, Empty(kid.tag)} \cap Range(before.kids) # {}
  /\ kind \in {"AuthnRequest", "Response"} =>
       \A tag \in Heeded : Len(Kids(after, tag)) = Len(Kids(before, tag))

\* Serializers and deserializers of messages and metadata, with parse_secure: a
\* document nobody changed is read as what was written, in either spelling, and
\* passed on it is read the same, or refused where kept content borrows a prefix.
\* Of a changed one, a reader says what it says or refuses it: nothing is made up,
\* no condition of a request and no assertion is overlooked, no text is cut, and
\* no document is taken for one of another kind.
ReadAsItStands ==
  got # None =>
    /\ fate = "mistaken" => got = Fault
    /\ fate = "untouched" =>
         IF spelling = "own" THEN got = Carried(sent)
         ELSE /\ got # Fault
              /\ Undeclared(Written(kind, got)) = Undeclared(Written(kind, Carried(sent)))
    /\ fate = "marked up" => got = Fault \/ (kind \in Metadata /\ got = Carried(sent))
    /\ fate = "changed" /\ got # Fault => SaysTheSame(document, Written(kind, got))
    /\ again # None => again = got \/ (spelling = "federation" /\ again = Fault)

-----------------------------------------------------------------------------
(* What is worked out from metadata.                                         *)

RolesOf(d) == d.idp_sso \o d.sp_sso \o d.authn_authority \o d.attr_authority \o d.pdp
Entities(v) == IF kind = "EntityDescriptor" THEN <<v>> ELSE entity_descriptors(v)

RECURSIVE Uses(_, _)
Uses(e, prefix) ==
  e.tag[1] = prefix \/ prefix \in e.binds \/ \E i \in DOMAIN e.kids : Uses(e.kids[i], prefix)

\* The same certificates; of key information that parses no more, none that come
\* after another vocabulary took the prefix, and none without a prefix.
SameCertificates(before, after) ==
  \A i \in DOMAIN before.key_descriptors :
    LET was == x509_certificates_der(before.key_descriptors[i])
        is == x509_certificates_der(after.key_descriptors[i])
        info == before.key_descriptors[i].key_info_xml
    IN \/ is = was
       \/ spelling = "federation" /\ IsPrefix(is, was) /\ (Uses(info, "ds=other") \/ Uses(info, ""))
NoLookalike(role) ==
  Lookalike \notin Range(signing_certificates_der(role)) \cup Range(encryption_certificates_der(role))

\* What is told of an entity from its own extensions and those of its roles.
ToldBy(d) ==
  [categories |-> entity_attribute_values(d, "category"),
   idp |-> role_ui_info(d, d.idp_sso), sp |-> role_ui_info(d, d.sp_sso),
   algorithms |-> supported_algorithms(d)]
Forgotten(x) ==
  spelling = "federation" /\ x.extensions # None /\ Uses(WrapExtensions(x.extensions), "shibmd")
SameExtensions(before, after) ==
  md_extensions(after) = IF Forgotten(before) THEN NoExtensions ELSE md_extensions(before)
Spids(d) ==
  LET with == SelectSeq(d.contact_persons, LAMBDA c : c.extensions # None)
  IN [i \in DOMAIN with |-> from_extensions(with[i].extensions)]
ConsumingEndpoints(d) ==
  Each(LAMBDA r : resolve_default_indexed_endpoint(r.assertion_consumer_services), d.sp_sso)
UsableSp(d) ==
  LET Described(r) == Undeclared(WriteSp({}, r)) IN Maybe(Described, saml2_sp_sso_descriptor(d))

\* md_extensions.rs, key_descriptor.rs, spid.rs: what a descriptor means does not
\* depend on where its document declares its prefixes.  The certificates are the
\* same, and never another vocabulary's; so are the names, categories, algorithms,
\* public-service codes, validity and endpoints.  Extensions with a prefix the
\* library does not know tell nothing at all once that is declared elsewhere.
MeaningSurvives ==
  (kind \in Metadata /\ fate = "untouched" /\ got \notin {None, Fault}) =>
    LET before == Entities(sent)
        after == Entities(got)
    IN /\ Len(after) = Len(before)
       /\ \A i \in DOMAIN before :
            LET b == before[i]
                a == after[i]
            IN /\ \A j \in DOMAIN RolesOf(b) :
                    SameCertificates(RolesOf(b)[j], RolesOf(a)[j]) /\ NoLookalike(RolesOf(a)[j])
               /\ SameExtensions(b, a)
               /\ \A j \in DOMAIN RolesOf(b) : SameExtensions(RolesOf(b)[j], RolesOf(a)[j])
               /\ ToldBy(a) = ToldBy(b) \/ \E x \in Range(<<b>> \o RolesOf(b)) : Forgotten(x)
               /\ Spids(a) = Spids(b)
               /\ <<validate(a), ConsumingEndpoints(a), UsableSp(a)>>
                    = <<validate(b), ConsumingEndpoints(b), UsableSp(b)>>
=============================================================================
