------------------------------ MODULE SamlXml ------------------------------
(***************************************************************************)
(* Assertions and protocol messages as XML: what SamlSerialize writes       *)
(* (crates/gamlastan/src/xml/{assertion,protocol}/serialize.rs), what        *)
(* SamlDeserialize reads (.../deserialize.rs), and the values the structs of  *)
(* core/ can hold.                                                            *)
(*                                                                            *)
(* An element is a tag, the namespace prefixes it declares, its attributes,    *)
(* its element children and its text; the prefix of a tag stands for the       *)
(* namespace as well.  Values are abstract, numbers stand for their decimal      *)
(* text and instants count half seconds.  None is an absent value, Fault what a    *)
(* reader answers for a document it refuses.                                        *)
(***************************************************************************)
EXTENDS Integers, SequencesExt

CONSTANTS None, Fault, Garbled

Saml(local) == <<"saml", local>>
Samlp(local) == <<"samlp", local>>
Ds(local) == <<"ds", local>>
Xenc(local) == <<"xenc", local>>

-----------------------------------------------------------------------------
(* Elements.                                                                 *)

\* An attribute whose value is None is not written.
Present(at) == Restrict(at, {n \in DOMAIN at : at[n] # None})
Bare == Present([x |-> None])

Root(tag, binds, at, kids) ==
  [tag |-> tag, binds |-> binds, at |-> Present(at), kids |-> kids, text |-> ""]
Element(tag, at, kids) == Root(tag, {}, at, kids)
Leaf(tag, at, text) == [Element(tag, at, <<>>) EXCEPT !.text = text]

\* Concatenation has the whole sequence evaluated at once.
Each(Write(_), vs) == <<>> \o [i \in DOMAIN vs |-> Write(vs[i])]
Maybe(Write(_), v) == IF v = None THEN <<>> ELSE <<Write(v)>>
Verbatim(element) == element
TextKids(tag, texts) == <<>> \o [i \in DOMAIN texts |-> Leaf(tag, Bare, texts[i])]
TextKid(tag, text) == IF text = None THEN <<>> ELSE TextKids(tag, <<text>>)

Given(e, n) == IF n \in DOMAIN e.at THEN e.at[n] ELSE None
Needed(e, n) == IF n \in DOMAIN e.at THEN e.at[n] ELSE Fault
Kids(e, tag) == SelectSeq(e.kids, LAMBDA k : k.tag = tag)
Kid(e, tag) == IF Kids(e, tag) = <<>> THEN None ELSE Head(Kids(e, tag))
NeededKid(e, tag) == IF Kids(e, tag) = <<>> THEN Fault ELSE Head(Kids(e, tag))
UniqueKid(e, tag) == IF Len(Kids(e, tag)) > 1 THEN Fault ELSE Kid(e, tag)
Texts(e, tag) == <<>> \o [i \in DOMAIN Kids(e, tag) |-> Kids(e, tag)[i].text]
Text(e, tag) == IF Kids(e, tag) = <<>> THEN None ELSE Head(Kids(e, tag)).text

\* A record with a field that could not be read is itself unreadable.
Whole(record) == IF \E f \in DOMAIN record : record[f] = Fault THEN Fault ELSE record
ReadIf(Read(_), kid) == IF kid \in {None, Fault} THEN kid ELSE Read(kid)
ReadEach(Read(_), kids) ==
  LET read == Each(Read, kids) IN IF \E i \in DOMAIN read : read[i] = Fault THEN Fault ELSE read

\* Attributes that are more than text: one that does not parse is refused.
Parsed(v, legal) == IF v = None \/ v \in legal THEN v ELSE Fault
U16 == 0..65535
U32 == Nat
Spelt(b) == IF b = None THEN None ELSE IF b THEN "true" ELSE "false"
Flag(v) ==
  IF v = None THEN None
  ELSE IF v \in {"true", "1"} THEN TRUE ELSE IF v \in {"false", "0"} THEN FALSE ELSE Fault

\* Instants are written in whole seconds.
Seconds(t) == IF t = None THEN None ELSE t - (t % 2)
Instant(v) == Parsed(v, Nat)

\* The parser knows the prefixes an element or one around it declares; a name
\* without a prefix is in no namespace.
RECURSIVE Resolves(_, _)
Resolves(e, scope) ==
  LET known == scope \cup e.binds IN
  e.tag[1] \in known \cup {""} /\ \A i \in DOMAIN e.kids : Resolves(e.kids[i], known)

\* A document that declares prefixes where they are used, or all of them at its root.
RECURSIVE Undeclared(_), PrefixesIn(_)
Undeclared(e) == [e EXCEPT !.binds = @ \cap {"ds=other"}, !.kids = Each(Undeclared, @)]
PrefixesIn(e) == e.binds \cup UNION {PrefixesIn(e.kids[i]) : i \in DOMAIN e.kids}
Spelled(e, s) ==
  IF s = "own" THEN e ELSE [Undeclared(e) EXCEPT !.binds = PrefixesIn(e) \ {"ds=other"}]

Empty(tag) == Element(tag, Bare, <<>>)

-----------------------------------------------------------------------------
(* The values a struct can hold: the barest, the fullest, and those that      *)
(* differ from one of the two in one field.                                   *)

OneOf(vs) == [bare |-> Head(vs), full |-> vs[Len(vs)], all |-> Range(vs)]
Opt(T) == [T EXCEPT !.bare = None, !.all = @ \cup {None}]
Many(T) ==
  [bare |-> <<>>, full |-> <<T.full, T.bare>>,
   all |-> {<<>>, <<T.full, T.bare>>} \cup {<<v>> : v \in T.all}]
Either(S, T) == [bare |-> S.bare, full |-> T.full, all |-> S.all \cup T.all]
Ends(T) == [T EXCEPT !.all = {T.bare, T.full}]
Rec(F) ==
  LET bare == [f \in DOMAIN F |-> F[f].bare]
      full == [f \in DOMAIN F |-> F[f].full]
  IN [bare |-> bare, full |-> full,
      all |-> {bare, full} \cup
              UNION {{[bare EXCEPT ![f] = v] : v \in F[f].all} : f \in DOMAIN F} \cup
              UNION {{[full EXCEPT ![f] = v] : v \in F[f].all} : f \in DOMAIN F}]

Str == OneOf(<<"", "v">>)
Bool == OneOf(<<FALSE, TRUE>>)
Whence == OneOf(<<20, 30>>)
Count == OneOf(<<0, 1>>)

\* Content kept as the bytes of its element, the prefixes it declares included.
Sealed(tag) == Element(tag, Bare, <<Root(Xenc("EncryptedData"), {"xenc"}, Bare, <<>>)>>)
Kept(tag) == OneOf(<<Sealed(tag)>>)

-----------------------------------------------------------------------------
(* Who: issuers, names and subjects.                                         *)

IssuerType ==
  Rec([value |-> Str, format |-> Opt(Str), name_qualifier |-> Opt(Str), sp_name_qualifier |-> Opt(Str)])

WriteIssuer(i) ==
  Leaf(Saml("Issuer"),
       [Format |-> i.format, NameQualifier |-> i.name_qualifier,
        SPNameQualifier |-> i.sp_name_qualifier],
       i.value)
ReadIssuer(e) ==
  [value |-> e.text, format |-> Given(e, "Format"), name_qualifier |-> Given(e, "NameQualifier"),
   sp_name_qualifier |-> Given(e, "SPNameQualifier")]

NameIdType ==
  Rec([value |-> Str, format |-> Opt(Str), name_qualifier |-> Opt(Str),
       sp_name_qualifier |-> Opt(Str), sp_provided_id |-> Opt(Str)])

WriteNameId(n) ==
  Leaf(Saml("NameID"),
       [Format |-> n.format, NameQualifier |-> n.name_qualifier,
        SPNameQualifier |-> n.sp_name_qualifier, SPProvidedID |-> n.sp_provided_id],
       n.value)
ReadNameId(e) ==
  [value |-> e.text, format |-> Given(e, "Format"), name_qualifier |-> Given(e, "NameQualifier"),
   sp_name_qualifier |-> Given(e, "SPNameQualifier"), sp_provided_id |-> Given(e, "SPProvidedID")]

\* An encrypted identifier is kept, and written, as its element.
EncryptedIdType == Rec([raw |-> Kept(Saml("EncryptedID"))])
SomeIdType == Either(NameIdType, EncryptedIdType)
WriteSomeId(n) == IF "raw" \in DOMAIN n THEN n.raw ELSE WriteNameId(n)
ReadSomeId(e) == IF e.tag = Saml("EncryptedID") THEN [raw |-> e] ELSE ReadNameId(e)

\* The NameID is preferred where an element has both.
IdKid(e) ==
  IF Kid(e, Saml("NameID")) # None THEN Kid(e, Saml("NameID")) ELSE Kid(e, Saml("EncryptedID"))
NeededIdKid(e) == IF IdKid(e) = None THEN Fault ELSE IdKid(e)

NameIdPolicyType ==
  Rec([format |-> Opt(Str), sp_name_qualifier |-> Opt(Str), allow_create |-> Bool])

\* AllowCreate is written only when it is true, and absent means false.
WriteNameIdPolicy(p) ==
  Element(Samlp("NameIDPolicy"),
          [Format |-> p.format, SPNameQualifier |-> p.sp_name_qualifier,
           AllowCreate |-> IF p.allow_create THEN "true" ELSE None],
          <<>>)
ReadNameIdPolicy(e) ==
  Whole([format |-> Given(e, "Format"), sp_name_qualifier |-> Given(e, "SPNameQualifier"),
         allow_create |->
           IF Given(e, "AllowCreate") = None THEN FALSE ELSE Flag(Given(e, "AllowCreate"))])

\* Holder-of-key certificates come as their text without white space, never empty.
ConfirmationDataType ==
  Rec([not_before |-> Opt(Whence), not_on_or_after |-> Opt(Whence), recipient |-> Opt(Str),
       in_response_to |-> Opt(Str), address |-> Opt(Str),
       key_info_x509_certs |-> Many(OneOf(<<"c1", "c2">>))])

WriteConfirmationData(d) ==
  Element(Saml("SubjectConfirmationData"),
          [NotBefore |-> Seconds(d.not_before), NotOnOrAfter |-> Seconds(d.not_on_or_after),
           Recipient |-> d.recipient, InResponseTo |-> d.in_response_to, Address |-> d.address],
          IF d.key_info_x509_certs = <<>> THEN <<>>
          ELSE <<Root(Ds("KeyInfo"), {"ds"}, Bare,
                      <<Element(Ds("X509Data"), Bare,
                                TextKids(Ds("X509Certificate"), d.key_info_x509_certs))>>)>>)

\* The certificates of all X509Data of all KeyInfo, in order.
KidsOfAll(es, tag) ==
  FlattenSeq([i \in DOMAIN es |-> Kids(es[i], tag)])
ReadConfirmationData(e) ==
  LET data == KidsOfAll(Kids(e, Ds("KeyInfo")), Ds("X509Data"))
      certs == KidsOfAll(data, Ds("X509Certificate"))
  IN Whole([not_before |-> Instant(Given(e, "NotBefore")),
            not_on_or_after |-> Instant(Given(e, "NotOnOrAfter")),
            recipient |-> Given(e, "Recipient"), in_response_to |-> Given(e, "InResponseTo"),
            address |-> Given(e, "Address"),
            key_info_x509_certs |-> SelectSeq([i \in DOMAIN certs |-> certs[i].text], LAMBDA c : c # "")])

ConfirmationType ==
  Rec([method |-> Str, name_id |-> Opt(Ends(SomeIdType)),
       subject_confirmation_data |-> Opt(ConfirmationDataType)])
WriteConfirmation(c) ==
  Element(Saml("SubjectConfirmation"), [Method |-> c.method],
          Maybe(WriteSomeId, c.name_id) \o Maybe(WriteConfirmationData, c.subject_confirmation_data))
ReadConfirmation(e) ==
  Whole([method |-> Needed(e, "Method"), name_id |-> ReadIf(ReadSomeId, IdKid(e)),
         subject_confirmation_data |->
           ReadIf(ReadConfirmationData, Kid(e, Saml("SubjectConfirmationData")))])

SubjectType == Rec([name_id |-> Opt(SomeIdType), subject_confirmations |-> Many(ConfirmationType)])
WriteSubject(s) ==
  Element(Saml("Subject"), Bare,
          Maybe(WriteSomeId, s.name_id) \o Each(WriteConfirmation, s.subject_confirmations))
ReadSubject(e) ==
  Whole([name_id |-> ReadIf(ReadSomeId, IdKid(e)),
         subject_confirmations |-> ReadEach(ReadConfirmation, Kids(e, Saml("SubjectConfirmation")))])

-----------------------------------------------------------------------------
(* Conditions.                                                               *)

AudiencesType == Many(Str)
AudienceRestrictionType == Rec([audiences |-> AudiencesType])
WriteAudienceRestriction(a) ==
  Element(Saml("AudienceRestriction"), Bare, TextKids(Saml("Audience"), a.audiences))
ReadAudienceRestriction(e) == [audiences |-> Texts(e, Saml("Audience"))]

ProxyRestrictionType == Rec([count |-> Opt(Count), audiences |-> AudiencesType])
WriteProxyRestriction(p) ==
  Element(Saml("ProxyRestriction"), [Count |-> p.count], TextKids(Saml("Audience"), p.audiences))
ReadProxyRestriction(e) ==
  Whole([count |-> Parsed(Given(e, "Count"), U32), audiences |-> Texts(e, Saml("Audience"))])

ConditionsType ==
  Rec([not_before |-> Opt(Whence), not_on_or_after |-> Opt(Whence), one_time_use |-> Bool,
       audience_restrictions |-> Many(AudienceRestrictionType),
       proxy_restriction |-> Opt(ProxyRestrictionType)])
WriteConditions(c) ==
  Element(Saml("Conditions"),
          [NotBefore |-> Seconds(c.not_before), NotOnOrAfter |-> Seconds(c.not_on_or_after)],
          Each(WriteAudienceRestriction, c.audience_restrictions)
            \o (IF c.one_time_use THEN <<Element(Saml("OneTimeUse"), Bare, <<>>)>> ELSE <<>>)
            \o Maybe(WriteProxyRestriction, c.proxy_restriction))
ReadConditions(e) ==
  Whole([not_before |-> Instant(Given(e, "NotBefore")),
         not_on_or_after |-> Instant(Given(e, "NotOnOrAfter")),
         one_time_use |-> Kids(e, Saml("OneTimeUse")) # <<>>,
         audience_restrictions |->
           ReadEach(ReadAudienceRestriction, Kids(e, Saml("AudienceRestriction"))),
         proxy_restriction |-> ReadIf(ReadProxyRestriction, Kid(e, Saml("ProxyRestriction")))])

-----------------------------------------------------------------------------
(* Statements.                                                               *)

LocalityType == Rec([address |-> Opt(Str), dns_name |-> Opt(Str)])
WriteLocality(l) ==
  Element(Saml("SubjectLocality"), [Address |-> l.address, DNSName |-> l.dns_name], <<>>)
ReadLocality(e) == [address |-> Given(e, "Address"), dns_name |-> Given(e, "DNSName")]

ContextType ==
  Rec([authn_context_class_ref |-> Opt(Str), authn_context_decl_ref |-> Opt(Str),
       authenticating_authorities |-> Many(Str)])
WriteContext(c) ==
  Element(Saml("AuthnContext"), Bare,
          TextKid(Saml("AuthnContextClassRef"), c.authn_context_class_ref)
            \o TextKid(Saml("AuthnContextDeclRef"), c.authn_context_decl_ref)
            \o TextKids(Saml("AuthenticatingAuthority"), c.authenticating_authorities))
ReadContext(e) ==
  [authn_context_class_ref |-> Text(e, Saml("AuthnContextClassRef")),
   authn_context_decl_ref |-> Text(e, Saml("AuthnContextDeclRef")),
   authenticating_authorities |-> Texts(e, Saml("AuthenticatingAuthority"))]

AuthnStatementType ==
  Rec([authn_instant |-> Whence, session_index |-> Opt(Str), session_not_on_or_after |-> Opt(Whence),
       subject_locality |-> Opt(LocalityType), authn_context |-> ContextType])
WriteAuthnStatement(s) ==
  Element(Saml("AuthnStatement"),
          [AuthnInstant |-> Seconds(s.authn_instant), SessionIndex |-> s.session_index,
           SessionNotOnOrAfter |-> Seconds(s.session_not_on_or_after)],
          Maybe(WriteLocality, s.subject_locality) \o <<WriteContext(s.authn_context)>>)
ReadAuthnStatement(e) ==
  Whole([authn_instant |-> Instant(Needed(e, "AuthnInstant")),
         session_index |-> Given(e, "SessionIndex"),
         session_not_on_or_after |-> Instant(Given(e, "SessionNotOnOrAfter")),
         subject_locality |-> ReadIf(ReadLocality, Kid(e, Saml("SubjectLocality"))),
         authn_context |-> ReadIf(ReadContext, NeededKid(e, Saml("AuthnContext")))])

ActionType == Rec([namespace |-> Str, value |-> Str])
WriteAction(a) == Leaf(Saml("Action"), [Namespace |-> a.namespace], a.value)
ReadAction(e) == Whole([namespace |-> Needed(e, "Namespace"), value |-> e.text])

EvidenceType == Rec([assertion_id_refs |-> Many(Str), assertion_uri_refs |-> Many(Str)])
WriteEvidence(v) ==
  Element(Saml("Evidence"), Bare,
          TextKids(Saml("AssertionIDRef"), v.assertion_id_refs)
            \o TextKids(Saml("AssertionURIRef"), v.assertion_uri_refs))
ReadEvidence(e) ==
  [assertion_id_refs |-> Texts(e, Saml("AssertionIDRef")),
   assertion_uri_refs |-> Texts(e, Saml("AssertionURIRef"))]

Decisions == <<"Permit", "Deny", "Indeterminate">>
AuthzStatementType ==
  Rec([resource |-> Str, decision |-> OneOf(Decisions), actions |-> Many(ActionType),
       evidence |-> Opt(EvidenceType)])
WriteAuthzStatement(s) ==
  Element(Saml("AuthzDecisionStatement"), [Resource |-> s.resource, Decision |-> s.decision],
          Each(WriteAction, s.actions) \o Maybe(WriteEvidence, s.evidence))
ReadAuthzStatement(e) ==
  Whole([resource |-> Needed(e, "Resource"), decision |-> Parsed(Needed(e, "Decision"), Range(Decisions)),
         actions |-> ReadEach(ReadAction, Kids(e, Saml("Action"))),
         evidence |-> ReadIf(ReadEvidence, Kid(e, Saml("Evidence")))])

-----------------------------------------------------------------------------
(* Attributes.  A value names its type; the typed ones are told by xsi:type.  *)

Typed(type, value) == <<type, value>>
ForeignValue == Element(Saml("AttributeValue"), Bare, <<Leaf(Saml("Action"), Bare, "v")>>)
Bytes == "bytes"      \* bytes that are UTF-8 text
Binary == "binary"    \* bytes that are not
AttributeValueType ==
  OneOf(<<Typed("string", "v"), Typed("string", ""), Typed("integer", 7), Typed("boolean", FALSE),
          Typed("dateTime", "v"), Typed("base64Binary", Bytes), Typed("base64Binary", Binary),
          Typed("xml", ForeignValue), Typed("null", None), Typed("name_id", NameIdType.full)>>)

WriteAttributeValue(v) ==
  LET Holding(text) == Leaf(Saml("AttributeValue"), [type |-> v[1]], text) IN
  CASE v[1] = "name_id" -> Element(Saml("AttributeValue"), Bare, <<WriteNameId(v[2])>>)
    [] v[1] = "xml" -> v[2]
    [] v[1] = "null" -> Element(Saml("AttributeValue"), [nil |-> "true"], <<>>)
    [] v[1] = "boolean" -> Holding(Spelt(v[2]))
    [] v = Typed("base64Binary", Binary) -> Holding("")
    [] OTHER -> Holding(v[2])

WholeValue(type, value) == IF value = Fault THEN Fault ELSE Typed(type, value)
ReadAttributeValue(e) ==
  CASE Given(e, "nil") \in {"true", "1"} -> Typed("null", None)
    [] Given(e, "type") = "integer" -> WholeValue("integer", Parsed(e.text, Int))
    [] Given(e, "type") = "boolean" -> WholeValue("boolean", Flag(e.text))
    [] Given(e, "type") \in {"dateTime", "base64Binary"} -> Typed(Given(e, "type"), e.text)
    [] OTHER ->
       IF e.kids = <<>> THEN Typed("string", e.text)
       ELSE IF Len(e.kids) = 1 /\ e.kids[1].tag = Saml("NameID")
            THEN Typed("name_id", ReadNameId(e.kids[1]))
            ELSE Typed("xml", e)

AttributeType ==
  Rec([name |-> Str, name_format |-> Opt(Str), friendly_name |-> Opt(Str),
       values |-> Many(AttributeValueType)])
AttributeNames(a) == [Name |-> a.name, NameFormat |-> a.name_format, FriendlyName |-> a.friendly_name]
WriteAttribute(a) ==
  Element(Saml("Attribute"), AttributeNames(a), Each(WriteAttributeValue, a.values))
ReadAttribute(e) ==
  Whole([name |-> Needed(e, "Name"), name_format |-> Given(e, "NameFormat"),
         friendly_name |-> Given(e, "FriendlyName"),
         values |-> ReadEach(ReadAttributeValue, Kids(e, Saml("AttributeValue")))])

AttributeStatementType == Rec([attributes |-> Many(AttributeType)])
WriteAttributeStatement(s) ==
  Element(Saml("AttributeStatement"), Bare, Each(WriteAttribute, s.attributes))
ReadAttributeStatement(e) ==
  Whole([attributes |-> ReadEach(ReadAttribute, Kids(e, Saml("Attribute")))])

-----------------------------------------------------------------------------
(* Assertions, which may carry others as advice.                             *)

\* Values that are not written as they are stand between those that are.
Instants == OneOf(<<20, 31, 30>>)
Signedness == OneOf(<<FALSE, TRUE, FALSE>>)
Versions == OneOf(<<"2.0", "3.0", "1.1">>)
WriteVersion(v) == IF v \in {"2.0", "1.1", "1.0"} THEN v ELSE "2.0"
ReadVersion(v) == Parsed(v, {"1.0", "1.1", "2.0", "3.0"})

EncryptedAssertionType == Rec([raw |-> Kept(Saml("EncryptedAssertion"))])
WriteEncrypted(x) == x.raw
ReadEncrypted(e) == [raw |-> e]

AssertionFields ==
  [id |-> OneOf(<<"v">>), issue_instant |-> Instants, version |-> Versions, issuer |-> IssuerType,
   has_signature |-> Signedness, subject |-> Opt(SubjectType), conditions |-> Opt(ConditionsType),
   authn_statements |-> Many(AuthnStatementType),
   authz_decision_statements |-> Many(AuthzStatementType),
   attribute_statements |-> Many(AttributeStatementType)]
AdvisedType ==
  LET plain == [f \in DOMAIN AssertionFields |-> AssertionFields[f].bare]
  IN OneOf(<<plain @@ [advice |-> None]>>)
\* A reference without text is dropped from an Advice.
AdviceType ==
  Rec([assertion_id_refs |-> Many(OneOf(<<"v", "w">>)), assertion_uri_refs |-> Many(OneOf(<<"v", "w">>)),
       assertions |-> Many(AdvisedType), encrypted_assertions |-> Many(EncryptedAssertionType)])
AssertionType == Rec(AssertionFields @@ [advice |-> Opt(AdviceType)])

RECURSIVE WriteAssertion(_), ReadAssertion(_)
WriteAdvice(a) ==
  Element(Saml("Advice"), Bare,
          TextKids(Saml("AssertionIDRef"), a.assertion_id_refs)
            \o TextKids(Saml("AssertionURIRef"), a.assertion_uri_refs)
            \o Each(WriteAssertion, a.assertions)
            \o Each(WriteEncrypted, a.encrypted_assertions))
ReadAdvice(e) ==
  LET Some(texts) == SelectSeq(texts, LAMBDA t : t # "") IN
  Whole([assertion_id_refs |-> Some(Texts(e, Saml("AssertionIDRef"))),
         assertion_uri_refs |-> Some(Texts(e, Saml("AssertionURIRef"))),
         assertions |-> ReadEach(ReadAssertion, Kids(e, Saml("Assertion"))),
         encrypted_assertions |-> ReadEach(ReadEncrypted, Kids(e, Saml("EncryptedAssertion")))])

WriteAssertion(a) ==
  Root(Saml("Assertion"), {"saml"},
       [ID |-> a.id, Version |-> WriteVersion(a.version), IssueInstant |-> Seconds(a.issue_instant)],
       <<WriteIssuer(a.issuer)>> \o Maybe(WriteSubject, a.subject)
         \o Maybe(WriteConditions, a.conditions) \o Maybe(WriteAdvice, a.advice)
         \o Each(WriteAuthnStatement, a.authn_statements)
         \o Each(WriteAuthzStatement, a.authz_decision_statements)
         \o Each(WriteAttributeStatement, a.attribute_statements))
ReadAssertion(e) ==
  Whole([id |-> Needed(e, "ID"), version |-> ReadVersion(Needed(e, "Version")),
         issue_instant |-> Instant(Needed(e, "IssueInstant")),
         issuer |-> ReadIf(ReadIssuer, NeededKid(e, Saml("Issuer"))),
         has_signature |-> Kids(e, Ds("Signature")) # <<>>,
         subject |-> ReadIf(ReadSubject, Kid(e, Saml("Subject"))),
         conditions |-> ReadIf(ReadConditions, Kid(e, Saml("Conditions"))),
         advice |-> ReadIf(ReadAdvice, Kid(e, Saml("Advice"))),
         authn_statements |-> ReadEach(ReadAuthnStatement, Kids(e, Saml("AuthnStatement"))),
         authz_decision_statements |->
           ReadEach(ReadAuthzStatement, Kids(e, Saml("AuthzDecisionStatement"))),
         attribute_statements |->
           ReadEach(ReadAttributeStatement, Kids(e, Saml("AttributeStatement")))])

-----------------------------------------------------------------------------
(* Status.                                                                   *)

SubCodeType == Rec([value |-> Str, sub_status |-> OneOf(<<None>>)])
CodeType == Rec([value |-> Str, sub_status |-> Opt(SubCodeType)])
StatusType ==
  Rec([status_code |-> CodeType, status_message |-> Opt(Str),
       status_detail |-> Opt(Kept(Samlp("StatusDetail")))])

RECURSIVE WriteCode(_), ReadCode(_)
WriteCode(c) == Element(Samlp("StatusCode"), [Value |-> c.value], Maybe(WriteCode, c.sub_status))
ReadCode(e) ==
  Whole([value |-> Needed(e, "Value"), sub_status |-> ReadIf(ReadCode, Kid(e, Samlp("StatusCode")))])

WriteStatus(s) ==
  Element(Samlp("Status"), Bare,
          <<WriteCode(s.status_code)>> \o TextKid(Samlp("StatusMessage"), s.status_message)
            \o Maybe(Verbatim, s.status_detail))
ReadStatus(e) ==
  Whole([status_code |-> ReadIf(ReadCode, NeededKid(e, Samlp("StatusCode"))),
         status_message |-> Text(e, Samlp("StatusMessage")),
         status_detail |-> Kid(e, Samlp("StatusDetail"))])

-----------------------------------------------------------------------------
(* What all requests, and all responses, have in common.                     *)

RequestFields ==
  [id |-> OneOf(<<"v">>), version |-> Versions, issue_instant |-> Instants,
   destination |-> Opt(Str), consent |-> Opt(Str), issuer |-> Opt(Ends(IssuerType)),
   has_signature |-> Signedness]
ResponseFields == RequestFields @@ [in_response_to |-> Opt(Str), status |-> StatusType]

\* The signature is added to the written message by whoever signs it.
WriteRequest(local, m, at, kids) ==
  Root(Samlp(local), {"samlp", "saml"},
       [ID |-> m.id, Version |-> WriteVersion(m.version), IssueInstant |-> Seconds(m.issue_instant),
        Destination |-> m.destination, Consent |-> m.consent] @@ at,
       Maybe(WriteIssuer, m.issuer) \o kids)
WriteReply(local, m, kids) ==
  WriteRequest(local, m, [InResponseTo |-> m.in_response_to], <<WriteStatus(m.status)>> \o kids)

parse_request_base(e) ==
  [id |-> Needed(e, "ID"), version |-> ReadVersion(Needed(e, "Version")),
   issue_instant |-> Instant(Needed(e, "IssueInstant")), destination |-> Given(e, "Destination"),
   consent |-> Given(e, "Consent"), issuer |-> ReadIf(ReadIssuer, Kid(e, Saml("Issuer"))),
   has_signature |-> Kids(e, Ds("Signature")) # <<>>]
parse_response_base(e) ==
  parse_request_base(e) @@
  [in_response_to |-> Given(e, "InResponseTo"),
   status |-> ReadIf(ReadStatus, NeededKid(e, Samlp("Status")))]

-----------------------------------------------------------------------------
(* Authentication requests and responses.                                    *)

Comparisons == <<"exact", "minimum", "maximum", "better">>
RequestedContextType ==
  Rec([authn_context_class_refs |-> Many(Str), authn_context_decl_refs |-> Many(Str),
       comparison |-> OneOf(Comparisons)])
WriteRequestedContext(r) ==
  Element(Samlp("RequestedAuthnContext"), [Comparison |-> r.comparison],
          TextKids(Saml("AuthnContextClassRef"), r.authn_context_class_refs)
            \o TextKids(Saml("AuthnContextDeclRef"), r.authn_context_decl_refs))
ReadRequestedContext(e) ==
  Whole([authn_context_class_refs |-> Texts(e, Saml("AuthnContextClassRef")),
         authn_context_decl_refs |-> Texts(e, Saml("AuthnContextDeclRef")),
         comparison |->
           IF Given(e, "Comparison") = None THEN "exact"
           ELSE Parsed(Given(e, "Comparison"), Range(Comparisons))])

\* An empty list of identity providers is not written, one with an entry that
\* names nobody is refused.
ScopingType == Rec([proxy_count |-> Opt(Count), idp_list |-> Many(Str), requester_ids |-> Many(Str)])
WriteEntry(idp) == Element(Samlp("IDPEntry"), [ProviderID |-> idp], <<>>)
ReadEntry(e) == Needed(e, "ProviderID")
WriteScoping(s) ==
  Element(Samlp("Scoping"), [ProxyCount |-> s.proxy_count],
          (IF s.idp_list = <<>> THEN <<>>
           ELSE <<Element(Samlp("IDPList"), Bare, Each(WriteEntry, s.idp_list))>>)
            \o TextKids(Samlp("RequesterID"), s.requester_ids))
ReadIdpList(e) == ReadEach(ReadEntry, Kids(e, Samlp("IDPEntry")))
ReadScoping(e) ==
  LET list == ReadIf(ReadIdpList, UniqueKid(e, Samlp("IDPList")))
  IN Whole([proxy_count |-> Parsed(Given(e, "ProxyCount"), U32),
            idp_list |-> IF list = None THEN <<>> ELSE list,
            requester_ids |-> Texts(e, Samlp("RequesterID"))])

AuthnRequestType ==
  Rec(RequestFields @@
      [subject |-> Opt(Ends(SubjectType)), name_id_policy |-> Opt(NameIdPolicyType),
       conditions |-> Opt(Ends(ConditionsType)), requested_authn_context |-> Opt(RequestedContextType),
       scoping |-> Opt(ScopingType), force_authn |-> Opt(Bool), is_passive |-> Opt(Bool),
       assertion_consumer_service_index |-> Opt(Count), assertion_consumer_service_url |-> Opt(Str),
       protocol_binding |-> Opt(Str), attribute_consuming_service_index |-> Opt(Count),
       provider_name |-> Opt(Str), extensions |-> Opt(Kept(Samlp("Extensions")))])
WriteAuthnRequest(m) ==
  WriteRequest("AuthnRequest", m,
    [ForceAuthn |-> Spelt(m.force_authn), IsPassive |-> Spelt(m.is_passive),
     AssertionConsumerServiceIndex |-> m.assertion_consumer_service_index,
     AssertionConsumerServiceURL |-> m.assertion_consumer_service_url,
     ProtocolBinding |-> m.protocol_binding,
     AttributeConsumingServiceIndex |-> m.attribute_consuming_service_index,
     ProviderName |-> m.provider_name],
    Maybe(Verbatim, m.extensions) \o Maybe(WriteSubject, m.subject)
      \o Maybe(WriteNameIdPolicy, m.name_id_policy) \o Maybe(WriteConditions, m.conditions)
      \o Maybe(WriteRequestedContext, m.requested_authn_context) \o Maybe(WriteScoping, m.scoping))

\* Each of what constrains the answer may occur once.
ReadAuthnRequest(e) ==
  Whole(parse_request_base(e) @@
        [subject |-> ReadIf(ReadSubject, UniqueKid(e, Saml("Subject"))),
         name_id_policy |-> ReadIf(ReadNameIdPolicy, UniqueKid(e, Samlp("NameIDPolicy"))),
         conditions |-> ReadIf(ReadConditions, UniqueKid(e, Saml("Conditions"))),
         requested_authn_context |->
           ReadIf(ReadRequestedContext, UniqueKid(e, Samlp("RequestedAuthnContext"))),
         scoping |-> ReadIf(ReadScoping, UniqueKid(e, Samlp("Scoping"))),
         force_authn |-> Flag(Given(e, "ForceAuthn")), is_passive |-> Flag(Given(e, "IsPassive")),
         assertion_consumer_service_index |-> Parsed(Given(e, "AssertionConsumerServiceIndex"), U16),
         assertion_consumer_service_url |-> Given(e, "AssertionConsumerServiceURL"),
         protocol_binding |-> Given(e, "ProtocolBinding"),
         attribute_consuming_service_index |-> Parsed(Given(e, "AttributeConsumingServiceIndex"), U16),
         provider_name |-> Given(e, "ProviderName"), extensions |-> Kid(e, Samlp("Extensions"))])

ResponseType ==
  Rec(ResponseFields @@
      [assertions |-> Many(Ends(AssertionType)), encrypted_assertions |-> Many(EncryptedAssertionType)])
WriteResponse(m) ==
  WriteReply("Response", m,
    Each(WriteAssertion, m.assertions) \o Each(WriteEncrypted, m.encrypted_assertions))

\* A response that holds a request is refused.
FORBIDDEN_RESPONSE_CHILDREN ==
  {"AuthnRequest", "LogoutRequest", "ArtifactResolve", "AttributeQuery", "AuthnQuery",
   "AuthzDecisionQuery", "AssertionIDRequest", "ManageNameIDRequest", "NameIDMappingRequest"}
ReadResponse(e) ==
  IF \E request \in FORBIDDEN_RESPONSE_CHILDREN : Kids(e, Samlp(request)) # <<>> THEN Fault
  ELSE Whole(parse_response_base(e) @@
             [assertions |-> ReadEach(ReadAssertion, Kids(e, Saml("Assertion"))),
              encrypted_assertions |->
                ReadEach(ReadEncrypted, Kids(e, Saml("EncryptedAssertion")))])

-----------------------------------------------------------------------------
(* Logout, artifacts.                                                        *)

LogoutRequestType ==
  Rec(RequestFields @@
      [not_on_or_after |-> Opt(Whence), reason |-> Opt(Str), name_id |-> SomeIdType,
       session_indexes |-> Many(Str)])
WriteLogoutRequest(m) ==
  WriteRequest("LogoutRequest", m,
    [NotOnOrAfter |-> Seconds(m.not_on_or_after), Reason |-> m.reason],
    <<WriteSomeId(m.name_id)>> \o TextKids(Samlp("SessionIndex"), m.session_indexes))
ReadLogoutRequest(e) ==
  Whole(parse_request_base(e) @@
        [not_on_or_after |-> Instant(Given(e, "NotOnOrAfter")), reason |-> Given(e, "Reason"),
         name_id |-> ReadIf(ReadSomeId, NeededIdKid(e)),
         session_indexes |-> Texts(e, Samlp("SessionIndex"))])

\* The responses that say nothing but how the request went.
StatusResponseType == Rec(ResponseFields)
WriteLogoutResponse(m) == WriteReply("LogoutResponse", m, <<>>)
ReadLogoutResponse(e) == Whole(parse_response_base(e))
WriteManageNameIdResponse(m) == WriteReply("ManageNameIDResponse", m, <<>>)
ReadManageNameIdResponse(e) == Whole(parse_response_base(e))

ArtifactResolveType == Rec(RequestFields @@ [artifact |-> Str])
WriteArtifactResolve(m) ==
  WriteRequest("ArtifactResolve", m, Bare, TextKids(Samlp("Artifact"), <<m.artifact>>))
ReadArtifactResolve(e) ==
  LET kid == NeededKid(e, Samlp("Artifact"))
  IN Whole(parse_request_base(e) @@ [artifact |-> IF kid = Fault THEN Fault ELSE kid.text])

\* The message is the first child that belongs to no response.
ArtifactResponseType == Rec(ResponseFields @@ [message |-> Opt(Kept(Samlp("Response")))])
WriteArtifactResponse(m) == WriteReply("ArtifactResponse", m, Maybe(Verbatim, m.message))
ReadArtifactResponse(e) ==
  LET own == {Saml("Issuer"), Ds("Signature"), Samlp("Status"), Samlp("Extensions")}
      others == SelectSeq(e.kids, LAMBDA k : k.tag \notin own)
  IN Whole(parse_response_base(e) @@ [message |-> IF others = <<>> THEN None ELSE Head(others)])

-----------------------------------------------------------------------------
(* Management and mapping of name identifiers.                               *)

NewIdType ==
  OneOf(<<Typed("Terminate", None), Typed("NewId", ""), Typed("NewId", "v"),
          Typed("NewEncryptedId", Sealed(Samlp("NewEncryptedID")))>>)
WriteNewId(new) ==
  CASE new[1] = "NewId" -> Leaf(Samlp("NewID"), Bare, new[2])
    [] new[1] = "NewEncryptedId" -> new[2]
    [] new[1] = "Terminate" -> Element(Samlp("Terminate"), Bare, <<>>)
ReadNewId(e) ==
  CASE Kids(e, Samlp("NewID")) # <<>> -> Typed("NewId", Text(e, Samlp("NewID")))
    [] Kids(e, Samlp("NewID")) = <<>> /\ Kids(e, Samlp("NewEncryptedID")) # <<>> ->
         Typed("NewEncryptedId", Kid(e, Samlp("NewEncryptedID")))
    [] OTHER -> IF Kids(e, Samlp("Terminate")) = <<>> THEN Fault ELSE Typed("Terminate", None)

ManageNameIdRequestType ==
  Rec(RequestFields @@ [name_id |-> SomeIdType, new_id_or_terminate |-> NewIdType])
WriteManageNameIdRequest(m) ==
  WriteRequest("ManageNameIDRequest", m, Bare,
               <<WriteSomeId(m.name_id), WriteNewId(m.new_id_or_terminate)>>)
ReadManageNameIdRequest(e) ==
  Whole(parse_request_base(e) @@
        [name_id |-> ReadIf(ReadSomeId, NeededIdKid(e)), new_id_or_terminate |-> ReadNewId(e)])

NameIdMappingRequestType ==
  Rec(RequestFields @@ [name_id |-> SomeIdType, name_id_policy |-> NameIdPolicyType])
WriteNameIdMappingRequest(m) ==
  WriteRequest("NameIDMappingRequest", m, Bare,
               <<WriteSomeId(m.name_id), WriteNameIdPolicy(m.name_id_policy)>>)
ReadNameIdMappingRequest(e) ==
  Whole(parse_request_base(e) @@
        [name_id |-> ReadIf(ReadSomeId, NeededIdKid(e)),
         name_id_policy |-> ReadIf(ReadNameIdPolicy, NeededKid(e, Samlp("NameIDPolicy")))])

NameIdMappingResponseType == Rec(ResponseFields @@ [name_id |-> Opt(SomeIdType)])
WriteNameIdMappingResponse(m) ==
  WriteReply("NameIDMappingResponse", m, Maybe(WriteSomeId, m.name_id))
ReadNameIdMappingResponse(e) ==
  Whole(parse_response_base(e) @@ [name_id |-> ReadIf(ReadSomeId, IdKid(e))])

-----------------------------------------------------------------------------
(* Queries.                                                                  *)

AssertionIdRequestType == Rec(RequestFields @@ [assertion_id_refs |-> Many(Str)])
WriteAssertionIdRequest(m) ==
  WriteRequest("AssertionIDRequest", m, Bare, TextKids(Saml("AssertionIDRef"), m.assertion_id_refs))
ReadAssertionIdRequest(e) ==
  Whole(parse_request_base(e) @@ [assertion_id_refs |-> Texts(e, Saml("AssertionIDRef"))])

QueryFields == RequestFields @@ [subject |-> Ends(SubjectType)]
parse_query_base(e) ==
  parse_request_base(e) @@ [subject |-> ReadIf(ReadSubject, NeededKid(e, Saml("Subject")))]

AuthnQueryType ==
  Rec(QueryFields @@ [session_index |-> Opt(Str), requested_authn_context |-> Opt(RequestedContextType)])
WriteAuthnQuery(m) ==
  WriteRequest("AuthnQuery", m, [SessionIndex |-> m.session_index],
               <<WriteSubject(m.subject)>> \o Maybe(WriteRequestedContext, m.requested_authn_context))
ReadAuthnQuery(e) ==
  Whole(parse_query_base(e) @@
        [session_index |-> Given(e, "SessionIndex"),
         requested_authn_context |->
           ReadIf(ReadRequestedContext, Kid(e, Samlp("RequestedAuthnContext")))])

AttributeQueryType == Rec(QueryFields @@ [attributes |-> Many(Ends(AttributeType))])
WriteAttributeQuery(m) ==
  WriteRequest("AttributeQuery", m, Bare,
               <<WriteSubject(m.subject)>> \o Each(WriteAttribute, m.attributes))
ReadAttributeQuery(e) ==
  Whole(parse_query_base(e) @@ [attributes |-> ReadEach(ReadAttribute, Kids(e, Saml("Attribute")))])

AuthzDecisionQueryType ==
  Rec(QueryFields @@
      [resource |-> Str, actions |-> Many(ActionType), evidence |-> Opt(EvidenceType)])
WriteAuthzDecisionQuery(m) ==
  WriteRequest("AuthzDecisionQuery", m, [Resource |-> m.resource],
               <<WriteSubject(m.subject)>> \o Each(WriteAction, m.actions)
                 \o Maybe(WriteEvidence, m.evidence))
ReadAuthzDecisionQuery(e) ==
  Whole(parse_query_base(e) @@
        [resource |-> Needed(e, "Resource"), actions |-> ReadEach(ReadAction, Kids(e, Saml("Action"))),
         evidence |-> ReadIf(ReadEvidence, Kid(e, Saml("Evidence")))])
=============================================================================
