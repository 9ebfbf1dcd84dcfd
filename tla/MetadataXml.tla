---------------------------- MODULE MetadataXml ----------------------------
(***************************************************************************)
(* Metadata as XML (crates/gamlastan/src/metadata/{serialize,deserialize}.rs  *)
(* and types/): the descriptors of entities and their roles, written and read  *)
(* like messages are (SamlXml), and what is worked out from a descriptor:      *)
(* its keys, its endpoints, its extensions, its validity.                       *)
(*                                                                              *)
(* Key information and extensions are kept as the bytes of their element, and    *)
(* are parsed when they are asked for, without the elements that were around      *)
(* them: Resolves decides whether the prefixes they use are still known.           *)
(***************************************************************************)
EXTENDS SamlXml

Md(local) == <<"md", local>>
Mdui(local) == <<"mdui", local>>
Alg(local) == <<"alg", local>>
Spid(local) == <<"spid", local>>

-----------------------------------------------------------------------------
(* Endpoints and texts in a language.                                        *)

EndpointType == Rec([binding |-> Str, location |-> Str, response_location |-> Opt(Str)])
EndpointAttributes(p) ==
  [Binding |-> p.binding, Location |-> p.location, ResponseLocation |-> p.response_location]
WriteEndpoint(name, p) == Element(Md(name), EndpointAttributes(p), <<>>)
WriteEndpoints(name, ps) == [i \in DOMAIN ps |-> WriteEndpoint(name, ps[i])]
ReadEndpoint(e) ==
  Whole([binding |-> Needed(e, "Binding"), location |-> Needed(e, "Location"),
         response_location |-> Given(e, "ResponseLocation")])
ReadEndpoints(e, name) == ReadEach(ReadEndpoint, Kids(e, Md(name)))

IndexedEndpointType == Rec([endpoint |-> EndpointType, index |-> Count, is_default |-> Opt(Bool)])
WriteIndexedEndpoint(name, p) ==
  Element(Md(name),
          EndpointAttributes(p.endpoint) @@ [index |-> p.index, isDefault |-> Spelt(p.is_default)], <<>>)
WriteIndexedEndpoints(name, ps) == [i \in DOMAIN ps |-> WriteIndexedEndpoint(name, ps[i])]
ReadIndexedEndpoint(e) ==
  Whole([endpoint |-> ReadEndpoint(e), index |-> Parsed(Needed(e, "index"), U16),
         is_default |-> Flag(Given(e, "isDefault"))])
ReadIndexedEndpoints(e, name) == ReadEach(ReadIndexedEndpoint, Kids(e, Md(name)))

LocalizedType == Rec([lang |-> OneOf(<<"en", "sv">>), value |-> Str])
WriteLocalized(name, t) == Leaf(Md(name), [lang |-> t.lang], t.value)
WriteLocalizedAll(name, ts) == [i \in DOMAIN ts |-> WriteLocalized(name, ts[i])]
ReadLocalized(e) ==
  [lang |-> IF Given(e, "lang") = None THEN "en" ELSE Given(e, "lang"), value |-> e.text]
ReadLocalizedAll(e, name) == Each(ReadLocalized, Kids(e, Md(name)))

-----------------------------------------------------------------------------
(* Extensions are a sequence of elements, of which one may be the wrapper.   *)

WrapExtensions(x) ==
  IF Len(x) = 1 /\ x[1].tag = Md("Extensions") THEN x[1] ELSE Element(Md("Extensions"), Bare, x)
ReadExtensions(e) == <<e>>

Registration(authority) ==
  Root(<<"mdrpi", "RegistrationInfo">>, {"mdrpi"}, [registrationAuthority |-> authority], <<>>)
Category(value) ==
  Root(<<"mdattr", "EntityAttributes">>, {"mdattr", "saml"}, Bare,
       <<Element(Saml("Attribute"), [Name |-> "category"],
                 TextKids(Saml("AttributeValue"), <<"", value>>))>>)
Display(name) ==
  Root(Mdui("UIInfo"), {"mdui"}, Bare,
       <<Leaf(Mdui("DisplayName"), [lang |-> "en"], name),
         Leaf(Mdui("Logo"), [width |-> 16, height |-> Garbled], "logo")>>)
Algorithm(kind, uri) == Root(Alg(kind), {"alg"}, [Algorithm |-> uri], <<>>)
Scope == Root(<<"shibmd", "Scope">>, {"shibmd"}, Bare, <<>>)

\* The wrapper is written by the library or came from elsewhere.
ExtensionsType ==
  LET plain == <<Registration("fed"), Category("rs"), Display("v"), Algorithm("DigestMethod", "sha1"),
                 Algorithm("SigningMethod", "rsa")>>
      wrapped == <<Element(Md("Extensions"), Bare, plain \o <<Algorithm("DigestMethod", "rsa")>>)>>
  IN OneOf(<<wrapped, <<WrapExtensions(<<Display("v"), Scope>>)>>, <<WrapExtensions(<<>>)>>, wrapped>>)

-----------------------------------------------------------------------------
(* Keys.                                                                     *)

EncryptionMethodType ==
  Rec([algorithm |-> Str, key_size |-> Opt(Count), oaep_params |-> Opt(Str)])
WriteEncryptionMethod(m) ==
  Element(Md("EncryptionMethod"), [Algorithm |-> m.algorithm],
          TextKid(Xenc("KeySize"), m.key_size) \o TextKid(Xenc("OAEPparams"), m.oaep_params))
MdOrXenc(e, local) == IF Kids(e, Md(local)) # <<>> THEN Text(e, Md(local)) ELSE Text(e, Xenc(local))
ReadEncryptionMethod(e) ==
  Whole([algorithm |-> Needed(e, "Algorithm"), key_size |-> Parsed(MdOrXenc(e, "KeySize"), U32),
         oaep_params |-> MdOrXenc(e, "OAEPparams")])

\* Key information with two certificates, one in no namespace; with a
\* certificate outside X509Data and one that is empty; and with another
\* vocabulary that takes the prefix for itself.
KeyInfo(kids) == Root(Ds("KeyInfo"), {"ds"}, Bare, kids)
Certificates(texts) == Element(Ds("X509Data"), Bare, TextKids(Ds("X509Certificate"), texts))
Lookalike == "lookalike"
KeyInfoType ==
  OneOf(<<KeyInfo(<<Certificates(<<"c1">>), Certificates(<<"c2">>)>>),
          KeyInfo(<<Element(<<"", "X509Data">>, Bare, TextKids(<<"", "X509Certificate">>, <<"c3">>))>>),
          KeyInfo(<<Leaf(Ds("X509Certificate"), Bare, Lookalike), Certificates(<<"", "c2">>)>>),
          KeyInfo(<<Root(<<"ds", "Wrapper">>, {"ds=other"}, Bare, <<Certificates(<<Lookalike>>)>>),
                    Certificates(<<"c2">>)>>),
          KeyInfo(<<Certificates(<<"c2">>)>>)>>)

KeyUses == <<"signing", "encryption">>
KeyDescriptorType ==
  Rec([use_ |-> Opt(OneOf(KeyUses)), key_info_xml |-> Opt(KeyInfoType),
       encryption_methods |-> Many(Ends(EncryptionMethodType))])
WriteKeyDescriptor(k) ==
  Element(Md("KeyDescriptor"), [use |-> k.use_],
          Maybe(Verbatim, k.key_info_xml) \o Each(WriteEncryptionMethod, k.encryption_methods))
ReadKeyDescriptor(e) ==
  Whole([use_ |-> Parsed(Given(e, "use"), Range(KeyUses)), key_info_xml |-> Kid(e, Ds("KeyInfo")),
         encryption_methods |->
           ReadEach(ReadEncryptionMethod,
                    Kids(e, Md("EncryptionMethod")) \o Kids(e, Xenc("EncryptionMethod")))])
ReadKeyDescriptors(e) == ReadEach(ReadKeyDescriptor, Kids(e, Md("KeyDescriptor")))

can_sign(k) == k.use_ \in {None, "signing"}
can_encrypt(k) == k.use_ \in {None, "encryption"}

\* The certificates of key information in document order, and with a mark where
\* the prefix is taken for another vocabulary.  prefixes are those that mean XML
\* signatures, within says whether X509Data is around.
Taken == "prefix taken"
RECURSIVE Outline(_, _, _)
Outline(e, prefixes, within) ==
  LET takes == "ds=other" \in e.binds
      here == IF takes THEN prefixes \ {"ds"} ELSE prefixes
      data == within \/ (e.tag[2] = "X509Data" /\ e.tag[1] \in here)
      certificate == e.tag[2] = "X509Certificate" /\ e.tag[1] \in here /\ within /\ e.text # ""
  IN (IF takes THEN <<Taken>> ELSE <<>>) \o (IF certificate THEN <<e.text>> ELSE <<>>)
       \o FlattenSeq([i \in DOMAIN e.kids |-> Outline(e.kids[i], here, data)])

\* Read as a document of its own where that can be done.
x509_certificates_der_from_key_info(info) ==
  SelectSeq(Outline(info, {"ds", ""}, FALSE), LAMBDA c : c # Taken)
\* Elsewhere the prefix of the root is trusted, until something takes it.
NoFragment(info) == <<>>
x509_certificates_der_from_fragment(info) ==
  LET outline == Outline(info, {info.tag[1]}, FALSE)
      upto == IF Contains(outline, Taken) THEN SelectInSeq(outline, LAMBDA c : c = Taken) - 1
              ELSE Len(outline)
  IN SubSeq(outline, 1, upto)
x509_certificates_der(k) ==
  IF k.key_info_xml = None THEN <<>>
  ELSE IF Resolves(k.key_info_xml, {}) THEN x509_certificates_der_from_key_info(k.key_info_xml)
  ELSE x509_certificates_der_from_fragment(k.key_info_xml)

CertificatesOf(ks) == FlattenSeq(Each(x509_certificates_der, ks))
signing_certificates_der(role) == CertificatesOf(SelectSeq(role.key_descriptors, can_sign))
encryption_certificates_der(role) == CertificatesOf(SelectSeq(role.key_descriptors, can_encrypt))

-----------------------------------------------------------------------------
(* Organizations, contacts, further locations.                              *)

OrganizationType ==
  Rec([extensions |-> Opt(Ends(ExtensionsType)), organization_names |-> Many(Ends(LocalizedType)),
       organization_display_names |-> Many(Ends(LocalizedType)),
       organization_urls |-> Many(Ends(LocalizedType))])
WriteOrganization(o) ==
  Element(Md("Organization"), Bare,
          Maybe(WrapExtensions, o.extensions)
            \o WriteLocalizedAll("OrganizationName", o.organization_names)
            \o WriteLocalizedAll("OrganizationDisplayName", o.organization_display_names)
            \o WriteLocalizedAll("OrganizationURL", o.organization_urls))
OwnExtensions(e) == ReadIf(ReadExtensions, Kid(e, Md("Extensions")))
ReadOrganization(e) ==
  [extensions |-> OwnExtensions(e),
   organization_names |-> ReadLocalizedAll(e, "OrganizationName"),
   organization_display_names |-> ReadLocalizedAll(e, "OrganizationDisplayName"),
   organization_urls |-> ReadLocalizedAll(e, "OrganizationURL")]

ContactTypes == <<"technical", "support", "administrative", "billing", "other">>

\* What the Italian federation tells of a service, as the extensions of a contact.
SpTypes == {"Public", "Private", "PublicServicesFullAggregator"}
SpidType ==
  LET Code == OneOf(<<"v">>) IN
  Rec([sp_type |-> OneOf(SetToSeq(SpTypes)), vat_number |-> Opt(Code), fiscal_code |-> Opt(Code),
       ipa_code |-> Opt(Code), municipality |-> Opt(Code), province |-> Opt(Code),
       country |-> Opt(Code)])
SpidNames ==
  <<<<"vat_number", "VATNumber">>, <<"fiscal_code", "FiscalCode">>, <<"ipa_code", "IPACode">>,
    <<"municipality", "Municipality">>, <<"province", "Province">>, <<"country", "Country">>>>
SpidElement(local, text) == [Root(Spid(local), {"spid"}, Bare, <<>>) EXCEPT !.text = text]
to_extensions(s) ==
  LET given == SelectSeq(SpidNames, LAMBDA n : s[n[1]] # None) IN
  <<Element(Md("Extensions"), Bare,
            [i \in DOMAIN given |-> SpidElement(given[i][2], s[given[i][1]])]
              \o <<SpidElement(s.sp_type, "")>>)>>

RECURSIVE Descendants(_)
Descendants(e) == FlattenSeq([i \in DOMAIN e.kids |-> <<e.kids[i]>> \o Descendants(e.kids[i])])

\* The last element of a name counts; there must be a type once there is anything.
from_extensions(x) ==
  LET whole == WrapExtensions(x)
      spid == SelectSeq(Descendants(whole), LAMBDA e : e.tag[1] = "spid")
      Named(locals) == SelectSeq(spid, LAMBDA e : e.tag[2] \in locals)
      Value(local) ==
        LET found == Named({local}) IN
        IF found = <<>> \/ Last(found).text = "" THEN None ELSE Last(found).text
  IN CASE spid = <<>> -> None
       [] spid # <<>> /\ ~Resolves(whole, {"md", "spid"}) -> Fault
       [] OTHER ->
            IF Named(SpTypes) = <<>> THEN Fault
            ELSE [sp_type |-> Last(Named(SpTypes)).tag[2]] @@
                 [f \in {n[1] : n \in Range(SpidNames)} |->
                    Value((CHOOSE n \in Range(SpidNames) : n[1] = f)[2])]

ContactType ==
  LET spid == OneOf(<<to_extensions(SpidType.bare), to_extensions(SpidType.full)>>) IN
  Rec([contact_type |-> OneOf(ContactTypes), extensions |-> Opt(spid), company |-> Opt(Str),
       given_name |-> Opt(Str), sur_name |-> Opt(Str), email_addresses |-> Many(Str),
       telephone_numbers |-> Many(Str)])
WriteContact(c) ==
  Element(Md("ContactPerson"), [contactType |-> c.contact_type],
          Maybe(WrapExtensions, c.extensions) \o TextKid(Md("Company"), c.company)
            \o TextKid(Md("GivenName"), c.given_name) \o TextKid(Md("SurName"), c.sur_name)
            \o TextKids(Md("EmailAddress"), c.email_addresses)
            \o TextKids(Md("TelephoneNumber"), c.telephone_numbers))
ReadContact(e) ==
  Whole([contact_type |-> Parsed(Needed(e, "contactType"), Range(ContactTypes)),
         extensions |-> OwnExtensions(e), company |-> Text(e, Md("Company")),
         given_name |-> Text(e, Md("GivenName")), sur_name |-> Text(e, Md("SurName")),
         email_addresses |-> Texts(e, Md("EmailAddress")),
         telephone_numbers |-> Texts(e, Md("TelephoneNumber"))])
OwnOrganization(e) == ReadIf(ReadOrganization, Kid(e, Md("Organization")))
OwnContacts(e) == ReadEach(ReadContact, Kids(e, Md("ContactPerson")))

LocationType == Rec([namespace |-> Str, location |-> Str])
WriteLocation(l) ==
  Leaf(Md("AdditionalMetadataLocation"), [namespace |-> l.namespace], l.location)
ReadLocation(e) == Whole([namespace |-> Needed(e, "namespace"), location |-> e.text])

-----------------------------------------------------------------------------
(* Roles.                                                                    *)

Saml2 == "saml2"
RoleFields ==
  [id |-> Opt(Str), valid_until |-> Opt(Whence), cache_duration |-> Opt(Str),
   protocol_support_enumeration |-> OneOf(<<<<>>, <<"v">>, <<"v", Saml2>>>>), error_url |-> Opt(Str),
   extensions |-> Opt(ExtensionsType), key_descriptors |-> Many(KeyDescriptorType),
   organization |-> Opt(Ends(OrganizationType)), contact_persons |-> Many(Ends(ContactType))]
SsoFields ==
  RoleFields @@
  [artifact_resolution_services |-> Many(Ends(IndexedEndpointType)),
   single_logout_services |-> Many(Ends(EndpointType)),
   manage_name_id_services |-> Many(Ends(EndpointType)), name_id_formats |-> Many(Str)]

\* The list of protocols stands for its members between spaces.
RoleAttributes(r) ==
  [protocolSupportEnumeration |-> r.protocol_support_enumeration, ID |-> r.id,
   validUntil |-> Seconds(r.valid_until), cacheDuration |-> r.cache_duration, errorURL |-> r.error_url]
RoleKids(r) ==
  Maybe(WrapExtensions, r.extensions) \o Each(WriteKeyDescriptor, r.key_descriptors)
    \o Maybe(WriteOrganization, r.organization) \o Each(WriteContact, r.contact_persons)
SsoKids(r) ==
  RoleKids(r) \o WriteIndexedEndpoints("ArtifactResolutionService", r.artifact_resolution_services)
    \o WriteEndpoints("SingleLogoutService", r.single_logout_services)
    \o WriteEndpoints("ManageNameIDService", r.manage_name_id_services)
    \o TextKids(Md("NameIDFormat"), r.name_id_formats)

\* A descriptor declares its prefixes, unless it is inside a nested group.
WriteRole(local, binds, r, at, kids) == Root(Md(local), binds, RoleAttributes(r) @@ at, kids)
Common == {"md", "ds", "xenc"}
WithSaml == Common \cup {"saml"}

ReadRoleBase(e) ==
  [id |-> Given(e, "ID"), valid_until |-> Instant(Given(e, "validUntil")),
   cache_duration |-> Given(e, "cacheDuration"), error_url |-> Given(e, "errorURL"),
   protocol_support_enumeration |-> Needed(e, "protocolSupportEnumeration"),
   extensions |-> OwnExtensions(e), key_descriptors |-> ReadKeyDescriptors(e),
   organization |-> OwnOrganization(e), contact_persons |-> OwnContacts(e)]
ReadSsoBase(e) ==
  ReadRoleBase(e) @@
  [artifact_resolution_services |-> ReadIndexedEndpoints(e, "ArtifactResolutionService"),
   single_logout_services |-> ReadEndpoints(e, "SingleLogoutService"),
   manage_name_id_services |-> ReadEndpoints(e, "ManageNameIDService"),
   name_id_formats |-> Texts(e, Md("NameIDFormat"))]

IdpType ==
  Rec(SsoFields @@
      [want_authn_requests_signed |-> Opt(Bool), single_sign_on_services |-> Many(EndpointType),
       name_id_mapping_services |-> Many(Ends(EndpointType)),
       assertion_id_request_services |-> Many(Ends(EndpointType)),
       attribute_profiles |-> Many(Str), attributes |-> Many(Ends(AttributeType))])
WriteIdp(binds, r) ==
  WriteRole("IDPSSODescriptor", binds, r,
    [WantAuthnRequestsSigned |-> Spelt(r.want_authn_requests_signed)],
    SsoKids(r) \o WriteEndpoints("SingleSignOnService", r.single_sign_on_services)
      \o WriteEndpoints("NameIDMappingService", r.name_id_mapping_services)
      \o WriteEndpoints("AssertionIDRequestService", r.assertion_id_request_services)
      \o TextKids(Md("AttributeProfile"), r.attribute_profiles) \o Each(WriteAttribute, r.attributes))
ReadIdp(e) ==
  Whole(ReadSsoBase(e) @@
        [want_authn_requests_signed |-> Flag(Given(e, "WantAuthnRequestsSigned")),
         single_sign_on_services |-> ReadEndpoints(e, "SingleSignOnService"),
         name_id_mapping_services |-> ReadEndpoints(e, "NameIDMappingService"),
         assertion_id_request_services |-> ReadEndpoints(e, "AssertionIDRequestService"),
         attribute_profiles |-> Texts(e, Md("AttributeProfile")),
         attributes |-> ReadEach(ReadAttribute, Kids(e, Saml("Attribute")))])

RequestedAttributeType == Rec([attribute |-> AttributeType, is_required |-> Opt(Bool)])
WriteRequestedAttribute(r) ==
  Element(Md("RequestedAttribute"),
          AttributeNames(r.attribute) @@ [isRequired |-> Spelt(r.is_required)],
          Each(WriteAttributeValue, r.attribute.values))
ReadRequestedAttribute(e) ==
  Whole([attribute |-> ReadAttribute(e), is_required |-> Flag(Given(e, "isRequired"))])

ConsumingServiceType ==
  Rec([index |-> Count, is_default |-> Opt(Bool), service_names |-> Many(Ends(LocalizedType)),
       service_descriptions |-> Many(Ends(LocalizedType)),
       requested_attributes |-> Many(Ends(RequestedAttributeType))])
WriteConsumingService(s) ==
  Element(Md("AttributeConsumingService"), [index |-> s.index, isDefault |-> Spelt(s.is_default)],
          WriteLocalizedAll("ServiceName", s.service_names)
            \o WriteLocalizedAll("ServiceDescription", s.service_descriptions)
            \o Each(WriteRequestedAttribute, s.requested_attributes))
ReadConsumingService(e) ==
  Whole([index |-> Parsed(Needed(e, "index"), U16), is_default |-> Flag(Given(e, "isDefault")),
         service_names |-> ReadLocalizedAll(e, "ServiceName"),
         service_descriptions |-> ReadLocalizedAll(e, "ServiceDescription"),
         requested_attributes |-> ReadEach(ReadRequestedAttribute, Kids(e, Md("RequestedAttribute")))])

SpType ==
  Rec(SsoFields @@
      [authn_requests_signed |-> Opt(Bool), want_assertions_signed |-> Opt(Bool),
       assertion_consumer_services |-> Many(IndexedEndpointType),
       attribute_consuming_services |-> Many(ConsumingServiceType)])
WriteSp(binds, r) ==
  WriteRole("SPSSODescriptor", binds, r,
    [AuthnRequestsSigned |-> Spelt(r.authn_requests_signed),
     WantAssertionsSigned |-> Spelt(r.want_assertions_signed)],
    SsoKids(r) \o WriteIndexedEndpoints("AssertionConsumerService", r.assertion_consumer_services)
      \o Each(WriteConsumingService, r.attribute_consuming_services))
ReadSp(e) ==
  Whole(ReadSsoBase(e) @@
        [authn_requests_signed |-> Flag(Given(e, "AuthnRequestsSigned")),
         want_assertions_signed |-> Flag(Given(e, "WantAssertionsSigned")),
         assertion_consumer_services |-> ReadIndexedEndpoints(e, "AssertionConsumerService"),
         attribute_consuming_services |->
           ReadEach(ReadConsumingService, Kids(e, Md("AttributeConsumingService")))])

\* The authorities: some service of their own, and the assertions they keep.
AuthorityFields ==
  RoleFields @@
  [assertion_id_request_services |-> Many(Ends(EndpointType)), name_id_formats |-> Many(Str)]
AuthorityKids(name, services, r) ==
  RoleKids(r) \o WriteEndpoints(name, services)
    \o WriteEndpoints("AssertionIDRequestService", r.assertion_id_request_services)
    \o TextKids(Md("NameIDFormat"), r.name_id_formats)
ReadAuthority(e) ==
  ReadRoleBase(e) @@
  [assertion_id_request_services |-> ReadEndpoints(e, "AssertionIDRequestService"),
   name_id_formats |-> Texts(e, Md("NameIDFormat"))]

AuthnAuthorityType == Rec(AuthorityFields @@ [authn_query_services |-> Many(EndpointType)])
WriteAuthnAuthority(binds, r) ==
  WriteRole("AuthnAuthorityDescriptor", binds, r, Bare,
            AuthorityKids("AuthnQueryService", r.authn_query_services, r))
ReadAuthnAuthority(e) ==
  Whole(ReadAuthority(e) @@ [authn_query_services |-> ReadEndpoints(e, "AuthnQueryService")])

PdpType == Rec(AuthorityFields @@ [authz_services |-> Many(EndpointType)])
WritePdp(binds, r) ==
  WriteRole("PDPDescriptor", binds, r, Bare, AuthorityKids("AuthzService", r.authz_services, r))
ReadPdp(e) == Whole(ReadAuthority(e) @@ [authz_services |-> ReadEndpoints(e, "AuthzService")])

AttributeAuthorityType ==
  Rec(AuthorityFields @@
      [attribute_services |-> Many(EndpointType), attribute_profiles |-> Many(Str),
       attributes |-> Many(Ends(AttributeType))])
WriteAttributeAuthority(binds, r) ==
  WriteRole("AttributeAuthorityDescriptor", binds, r, Bare,
            AuthorityKids("AttributeService", r.attribute_services, r)
              \o TextKids(Md("AttributeProfile"), r.attribute_profiles)
              \o Each(WriteAttribute, r.attributes))
ReadAttributeAuthority(e) ==
  Whole(ReadAuthority(e) @@
        [attribute_services |-> ReadEndpoints(e, "AttributeService"),
         attribute_profiles |-> Texts(e, Md("AttributeProfile")),
         attributes |-> ReadEach(ReadAttribute, Kids(e, Saml("Attribute")))])

-----------------------------------------------------------------------------
(* Affiliations, entities and groups of entities.                           *)

AffiliationType ==
  Rec([affiliation_owner_id |-> Str, id |-> Opt(Str), valid_until |-> Opt(Whence),
       cache_duration |-> Opt(Str), has_signature |-> Signedness,
       extensions |-> Opt(Ends(ExtensionsType)), affiliate_members |-> Many(Str),
       key_descriptors |-> Many(Ends(KeyDescriptorType))])
WriteAffiliation(binds, a) ==
  Root(Md("AffiliationDescriptor"), binds,
       [affiliationOwnerID |-> a.affiliation_owner_id, ID |-> a.id,
        validUntil |-> Seconds(a.valid_until), cacheDuration |-> a.cache_duration],
       Maybe(WrapExtensions, a.extensions) \o TextKids(Md("AffiliateMember"), a.affiliate_members)
         \o Each(WriteKeyDescriptor, a.key_descriptors))
ReadAffiliation(e) ==
  Whole([affiliation_owner_id |-> Needed(e, "affiliationOwnerID"), id |-> Given(e, "ID"),
         valid_until |-> Instant(Given(e, "validUntil")), cache_duration |-> Given(e, "cacheDuration"),
         has_signature |-> Kids(e, Ds("Signature")) # <<>>, extensions |-> OwnExtensions(e),
         affiliate_members |-> Texts(e, Md("AffiliateMember")),
         key_descriptors |-> ReadKeyDescriptors(e)])

\* An entity has roles, or it is an affiliation.
EntityFields ==
  [entity_id |-> Str, id |-> Opt(Str), valid_until |-> Opt(Whence), cache_duration |-> Opt(Str),
   has_signature |-> Signedness, extensions |-> Opt(Ends(ExtensionsType)),
   organization |-> Opt(Ends(OrganizationType)), contact_persons |-> Many(Ends(ContactType)),
   additional_metadata_locations |-> Many(LocationType)]
EntityType ==
  LET none == OneOf(<<<<>>>>) IN
  Either(Rec(EntityFields @@
             [affiliation |-> AffiliationType, idp_sso |-> none, sp_sso |-> none,
              authn_authority |-> none, attr_authority |-> none, pdp |-> none]),
         Rec(EntityFields @@
             [affiliation |-> OneOf(<<None>>), idp_sso |-> Many(IdpType), sp_sso |-> Many(SpType),
              authn_authority |-> Many(AuthnAuthorityType),
              attr_authority |-> Many(AttributeAuthorityType), pdp |-> Many(PdpType)]))

WithBinds(Write(_, _), binds, rs) == [i \in DOMAIN rs |-> Write(binds, rs[i])]
WriteEntityWith(withSaml, common, d) ==
  Root(Md("EntityDescriptor"), withSaml,
       [entityID |-> d.entity_id, ID |-> d.id, validUntil |-> Seconds(d.valid_until),
        cacheDuration |-> d.cache_duration],
       Maybe(WrapExtensions, d.extensions)
         \o (IF d.affiliation # None THEN <<WriteAffiliation(common, d.affiliation)>>
             ELSE WithBinds(WriteIdp, withSaml, d.idp_sso) \o WithBinds(WriteSp, withSaml, d.sp_sso)
                    \o WithBinds(WriteAuthnAuthority, common, d.authn_authority)
                    \o WithBinds(WriteAttributeAuthority, withSaml, d.attr_authority)
                    \o WithBinds(WritePdp, common, d.pdp))
         \o Maybe(WriteOrganization, d.organization) \o Each(WriteContact, d.contact_persons)
         \o Each(WriteLocation, d.additional_metadata_locations))
WriteEntity(d) == WriteEntityWith(WithSaml, Common, d)
write_entity_descriptor_nested(d) == WriteEntityWith({}, {}, d)
ReadEntity(e) ==
  LET affiliation == Kid(e, Md("AffiliationDescriptor"))
      Roles(Read(_), name) ==
        IF affiliation # None THEN <<>> ELSE ReadEach(Read, Kids(e, Md(name)))
  IN Whole([entity_id |-> Needed(e, "entityID"), id |-> Given(e, "ID"),
            valid_until |-> Instant(Given(e, "validUntil")), cache_duration |-> Given(e, "cacheDuration"),
            has_signature |-> Kids(e, Ds("Signature")) # <<>>, extensions |-> OwnExtensions(e),
            affiliation |-> ReadIf(ReadAffiliation, affiliation),
            idp_sso |-> Roles(ReadIdp, "IDPSSODescriptor"), sp_sso |-> Roles(ReadSp, "SPSSODescriptor"),
            authn_authority |-> Roles(ReadAuthnAuthority, "AuthnAuthorityDescriptor"),
            attr_authority |-> Roles(ReadAttributeAuthority, "AttributeAuthorityDescriptor"),
            pdp |-> Roles(ReadPdp, "PDPDescriptor"),
            organization |-> OwnOrganization(e), contact_persons |-> OwnContacts(e),
            additional_metadata_locations |->
              ReadEach(ReadLocation, Kids(e, Md("AdditionalMetadataLocation")))])

\* A group holds entities and groups in their order.
GroupFields ==
  [id |-> Opt(Str), valid_until |-> Opt(Whence), cache_duration |-> Opt(Str), name |-> Opt(Str),
   has_signature |-> Signedness, extensions |-> Opt(Ends(ExtensionsType))]
IsGroup(child) == "children" \in DOMAIN child
MemberType == Either(OneOf(<<EntityType.full>>), OneOf(<<EntityType.bare>>))
InnerGroupType == Ends(Rec(GroupFields @@ [children |-> Many(MemberType)]))
OuterGroupType ==
  Rec(GroupFields @@ [children |-> Many(Either(MemberType, InnerGroupType))])
EntitiesType == Rec(GroupFields @@ [children |-> Many(Either(MemberType, Ends(OuterGroupType)))])

WriteGroup(binds, g, kids) ==
  Root(Md("EntitiesDescriptor"), binds,
       [ID |-> g.id, validUntil |-> Seconds(g.valid_until), cacheDuration |-> g.cache_duration,
        Name |-> g.name],
       Maybe(WrapExtensions, g.extensions) \o kids)
RECURSIVE write_entities_descriptor_nested(_), ReadEntities(_), entity_descriptors(_)
write_entities_descriptor_nested(g) ==
  LET Member(c) ==
        IF IsGroup(c) THEN write_entities_descriptor_nested(c) ELSE write_entity_descriptor_nested(c)
  IN WriteGroup({}, g, Each(Member, g.children))
WriteEntities(g) ==
  LET Member(c) == IF IsGroup(c) THEN write_entities_descriptor_nested(c) ELSE WriteEntity(c)
  IN WriteGroup(WithSaml, g, Each(Member, g.children))
ReadEntities(e) ==
  LET Member(k) == IF k.tag = Md("EntityDescriptor") THEN ReadEntity(k) ELSE ReadEntities(k)
      members == SelectSeq(e.kids, LAMBDA k : k.tag \in {Md("EntityDescriptor"), Md("EntitiesDescriptor")})
  IN Whole([id |-> Given(e, "ID"), valid_until |-> Instant(Given(e, "validUntil")),
            cache_duration |-> Given(e, "cacheDuration"), name |-> Given(e, "Name"),
            has_signature |-> Kids(e, Ds("Signature")) # <<>>, extensions |-> OwnExtensions(e),
            children |-> ReadEach(Member, members)])
entity_descriptors(g) ==
  FlattenSeq([i \in DOMAIN g.children |->
                IF IsGroup(g.children[i]) THEN entity_descriptors(g.children[i])
                ELSE <<g.children[i]>>])

-----------------------------------------------------------------------------
(* What extensions say, once they parse; nothing is known of those that do not. *)

\* Elements in document order, and whether attributes of the entity are around.
RECURSIVE Walk(_, _)
Walk(e, within) ==
  LET Under(k) ==
        IF k.tag = Mdui("UIInfo") THEN <<>>
        ELSE Walk(k, within \/ k.tag = <<"mdattr", "EntityAttributes">>)
  IN FlattenSeq([i \in DOMAIN e.kids |->
                   <<[element |-> e.kids[i], within |-> within]>> \o Under(e.kids[i])])

\* Lists of an element's texts by name, and its logos.
UiNames == {"DisplayName", "Description", "InformationURL", "PrivacyStatementURL", "Keywords"}
UiText(e) == [lang |-> Given(e, "lang"), value |-> e.text]
UiLogo(e) ==
  LET Size(v) == IF v # None /\ v \in Nat THEN v ELSE None
  IN UiText(e) @@ [width |-> Size(Given(e, "width")), height |-> Size(Given(e, "height"))]
parse_ui_info(e) ==
  [n \in UiNames |-> Each(UiText, Kids(e, Mdui(n)))] @@ [logos |-> Each(UiLogo, Kids(e, Mdui("Logo")))]
is_empty(ui) == \A n \in DOMAIN ui : ui[n] = <<>>

NoExtensions ==
  [registration_authority |-> None, entity_attributes |-> <<>>, ui_info |-> None,
   signing_methods |-> <<>>, digest_methods |-> <<>>]
Declared == {"md", "mdrpi", "mdattr", "saml", "mdui", "alg"}
attribute_values(e) == SelectSeq(Texts(e, Saml("AttributeValue")), LAMBDA t : t # "")
MdExtensions(x) ==
  LET whole == WrapExtensions(x)
      seen == Walk(Element(Md("root"), Bare, <<whole>>), FALSE)
      Of(tag) == SelectSeq(seen, LAMBDA s : s.element.tag = tag)
      With(tag, attribute) == SelectSeq(Of(tag), LAMBDA s : attribute \in DOMAIN s.element.at)
      Values(tag, attribute) ==
        [i \in DOMAIN With(tag, attribute) |-> With(tag, attribute)[i].element.at[attribute]]
      First(vs) == IF vs = <<>> THEN None ELSE Head(vs)
      attributes == SelectSeq(With(Saml("Attribute"), "Name"), LAMBDA s : s.within)
      infos == Of(Mdui("UIInfo"))
  IN IF ~Resolves(whole, Declared) THEN NoExtensions
     ELSE [registration_authority |->
             First(Values(<<"mdrpi", "RegistrationInfo">>, "registrationAuthority")),
           entity_attributes |->
             [i \in DOMAIN attributes |->
                <<attributes[i].element.at["Name"], attribute_values(attributes[i].element)>>],
           ui_info |-> IF infos = <<>> THEN None ELSE parse_ui_info(Head(infos).element),
           signing_methods |-> Values(Alg("SigningMethod"), "Algorithm"),
           digest_methods |-> Values(Alg("DigestMethod"), "Algorithm")]

md_extensions(d) == IF d.extensions = None THEN NoExtensions ELSE MdExtensions(d.extensions)
entity_attribute_values(d, name) ==
  LET found == SelectSeq(md_extensions(d).entity_attributes, LAMBDA a : a[1] = name)
  IN FlattenSeq([i \in DOMAIN found |-> found[i][2]])

\* A role's description of itself comes before the entity's.
role_ui_info(d, roles) ==
  LET Of(x) == md_extensions(x).ui_info
      some == SelectSeq(roles \o <<d>>, LAMBDA x : Of(x) # None /\ ~is_empty(Of(x)))
  IN IF some = <<>> THEN None ELSE Of(Head(some))
supported_algorithms(d) ==
  LET Of(x) == md_extensions(x).signing_methods \o md_extensions(x).digest_methods
      all == FlattenSeq(Each(Of, <<d>> \o d.idp_sso \o d.sp_sso))
      first == {i \in DOMAIN all : \A j \in 1..(i - 1) : all[j] # all[i]}
  IN [i \in 1..Cardinality(first) |-> all[CHOOSE k \in first : Cardinality({j \in first : j <= k}) = i]]

-----------------------------------------------------------------------------
(* Validity and the choice of endpoints.                                     *)

Answering(ps) == \E i \in DOMAIN ps : ps[i].response_location # None
EndpointsOf(ps) == [i \in DOMAIN ps |-> ps[i].endpoint]
validate_role(r) ==
  /\ ~Answering(EndpointsOf(r.artifact_resolution_services))
  /\ r.protocol_support_enumeration # <<>>
validate_idp(r) ==
  /\ r.single_sign_on_services # <<>>
  /\ ~Answering(r.single_sign_on_services) /\ ~Answering(r.name_id_mapping_services)
  /\ validate_role(r)
validate_sp(r) == r.assertion_consumer_services # <<>> /\ validate_role(r)
validate(d) ==
  /\ d.entity_id # ""
  /\ \A i \in DOMAIN d.idp_sso : validate_idp(d.idp_sso[i])
  /\ \A i \in DOMAIN d.sp_sso : validate_sp(d.sp_sso[i])

resolve_default_indexed_endpoint(ps) ==
  LET Those(default) == SelectSeq(ps, LAMBDA p : p.is_default = default)
  IN CASE ps = <<>> -> None
       [] Those(TRUE) # <<>> -> Head(Those(TRUE))
       [] Those(TRUE) = <<>> /\ Those(None) # <<>> -> Head(Those(None))
       [] OTHER ->
            Head(SelectSeq(ps, LAMBDA p : \A i \in DOMAIN ps : p.index <= ps[i].index))

supports_protocol(r, protocol) == Contains(r.protocol_support_enumeration, protocol)
saml2_sp_sso_descriptor(d) ==
  LET able == SelectSeq(d.sp_sso, LAMBDA r : supports_protocol(r, Saml2))
  IN IF able = <<>> THEN None ELSE Head(able)
=============================================================================
