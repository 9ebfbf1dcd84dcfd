------------------------------ MODULE Bindings ------------------------------
(***************************************************************************)
(* One message over one binding (crates/gamlastan/src/bindings/): it is       *)
(* encoded, the HTTP request that carries it may be changed on its way, and     *)
(* the extractor of crates/gamlastan-actix recognises the binding and decodes    *)
(* it.  ECP envelopes go both ways (bindings/paos.rs, profiles/sso/ecp.rs).       *)
(*                                                                                *)
(* A word is what a text stands for, with the characters in it that conversions    *)
(* change.  A raw word is a word as it stands in a query or a form, bare or with    *)
(* percent escapes, of which there are two spellings.                                *)
(***************************************************************************)
EXTENDS SamlXml

VARIABLES letter, http, handling, arrival
wireVars == <<letter, http, handling, arrival>>

-----------------------------------------------------------------------------
(* encoding.rs, deflate.rs, relay_state.rs.                                  *)

Word(of, signs) == [of |-> of, signs |-> signs]
Raw(word, style) == [word |-> word, style |-> style]

url_encode(w) == Raw(w, IF w.signs = {} THEN "bare" ELSE "escaped")
url_decode(r) ==
  CASE r.style # "bare" -> r.word
    [] r.style = "bare" /\ "%" \in r.word.signs -> Fault
    [] OTHER -> IF "+" \in r.word.signs
                THEN [r.word EXCEPT !.signs = (@ \ {"+"}) \cup {" "}] ELSE r.word
Undecoded(r) == IF r.style = "bare" THEN r.word ELSE [r.word EXCEPT !.signs = @ \cup {"%"}]

\* White space is dropped before decoding, what was a "+" with it.
base64_encode(data) == Word(data, {"+"})
base64_decode(w) == IF w.signs \cap {"%", " "} # {} THEN Fault ELSE w.of

\* A huge message is longer than MAX_DECOMPRESSED_SIZE.
Message(size) == <<"message", size>>
deflate_compress(data) == <<"deflated">> \o data
deflate_decompress(data) ==
  IF Head(data) = "deflated" /\ Last(data) # "huge" THEN Tail(data) ELSE Fault

\* The words an application may want echoed, by what is special about them.
States == {Word(<<"state">>, signs) : signs \in {{}, {"+"}, {"%"}, {"&"}, {"long"}, {"control"},
                                              {"scheme"}, {"tag", "&"}}}
validate_relay_state(w) == w.signs \cap {"long", "control", "scheme", "tag"} = {}

\* A new state that is not valid is left out, a received one is echoed.
RelayStateOf(l) == IF l.echoed \/ (l.state # None /\ validate_relay_state(l.state)) THEN l.state ELSE None

-----------------------------------------------------------------------------
(* Parameters.                                                               *)

P(name, raw) == [name |-> name, style |-> "bare", value |-> raw]
Named(ps, name) == SelectSeq(ps, LAMBDA p : p.name = name /\ p.style # "broken")
Pair(ps, name) == IF Named(ps, name) = <<>> THEN <<>> ELSE <<Head(Named(ps, name))>>
Param(ps, name) == IF Named(ps, name) = <<>> THEN None ELSE Head(Named(ps, name)).value
SamlName(is_request) == IF is_request THEN "SAMLRequest" ELSE "SAMLResponse"

\* Checked on the names as decoded, before any value is: one that does not
\* decode refuses them all.
KindsApart(ps, names) == Named(ps, "SAMLRequest") = <<>> \/ Named(ps, "SAMLResponse") = <<>>
validate_unique(ps, names) ==
  /\ \A i \in DOMAIN ps : ps[i].style # "broken"
  /\ Named(ps, "SAMLRequest") = <<>> \/ Named(ps, "SAMLResponse") = <<>>
  /\ \A name \in names : Len(Named(ps, name)) <= 1

-----------------------------------------------------------------------------
(* redirect.rs.                                                              *)

RedirectNames == {"SAMLRequest", "SAMLResponse", "RelayState", "SigAlg", "Signature"}
SigAlg == Word(<<"rsa-sha256">>, {":"})
SignatureOver(alg, pairs) == <<"signature", alg, pairs>>
RelayPair(w) == P("RelayState", url_encode(w))

\* What is signed stands behind the query the endpoint has of its own.
redirect_encode(l) ==
  LET message == <<P(SamlName(l.is_request), url_encode(base64_encode(deflate_compress(l.message))))>>
      plain == message \o Maybe(RelayPair, RelayStateOf(l))
      covered == plain \o <<P("SigAlg", url_encode(SigAlg))>>
      signature == base64_encode(SignatureOver(SigAlg, covered))
  IN l.endpointQuery \o
     (IF l.signed THEN covered \o <<P("Signature", url_encode(signature))>> ELSE plain)

\* The pairs as they were received, in the order that is signed.
build_redirect_signature_input(q, name) ==
  Pair(q, name) \o Pair(q, "RelayState") \o Pair(q, "SigAlg")

redirect_decode(q) ==
  LET name == SamlName(Param(q, "SAMLRequest") # None)
      OrAsItStands(raw) == IF url_decode(raw) = Fault THEN raw.word ELSE url_decode(raw)
      Decoded(raw) == ReadIf(base64_decode, url_decode(raw))
      decoded ==
        [saml_xml |-> ReadIf(deflate_decompress, ReadIf(Decoded, Param(q, name))),
         is_request |-> name = "SAMLRequest",
         relay_state |-> ReadIf(OrAsItStands, Param(q, "RelayState")),
         sig_alg |-> ReadIf(OrAsItStands, Param(q, "SigAlg")),
         signature |-> ReadIf(Decoded, Param(q, "Signature")),
         signature_input |->
           IF Param(q, "SigAlg") = None THEN None ELSE build_redirect_signature_input(q, name)]
  IN IF \/ ~validate_unique(q, RedirectNames) \/ Param(q, name) = None
        \/ decoded.signature # None /\ decoded.sig_alg = None
     THEN Fault ELSE Whole(decoded)

redirect_verify_signature(d) ==
  IF None \in {d.signature, d.sig_alg, d.signature_input} THEN None
  ELSE d.signature = SignatureOver(d.sig_alg, d.signature_input)

-----------------------------------------------------------------------------
(* post.rs, and the browser that submits the form.                           *)

PostNames == {"SAMLRequest", "SAMLResponse", "RelayState"}
html_escape(w) ==
  IF "&" \in w.signs THEN [w EXCEPT !.signs = (@ \ {"&"}) \cup {"&amp;"}] ELSE w
post_encode(l) ==
  LET State(w) == [name |-> "RelayState", value |-> html_escape(w)] IN
  <<[name |-> SamlName(l.is_request), value |-> html_escape(base64_encode(l.message))]>>
    \o Maybe(State, RelayStateOf(l))

\* An attribute value ends at the first quote that is not escaped.
Unescaped(w) ==
  CASE "&" \in w.signs -> Word(<<"cut short">>, {})
    [] "&amp;" \in w.signs -> [w EXCEPT !.signs = (@ \ {"&amp;"}) \cup {"&"}]
    [] OTHER -> w
Submitted(fields) ==
  <<>> \o [i \in DOMAIN fields |-> P(fields[i].name, url_encode(Unescaped(fields[i].value)))]

\* The message is decoded when it has a percent sign, so a bare "+" stays.
post_decode(form) ==
  LET name == SamlName(Param(form, "SAMLRequest") # None)
      Decoded(raw) == IF "%" \in Undecoded(raw).signs THEN url_decode(raw) ELSE raw.word
  IN IF ~validate_unique(form, PostNames) THEN Fault
     ELSE Whole([saml_xml |-> ReadIf(base64_decode, ReadIf(Decoded, Param(form, name))),
                 is_request |-> name = "SAMLRequest",
                 relay_state |-> ReadIf(url_decode, Param(form, "RelayState"))])

-----------------------------------------------------------------------------
(* artifact.rs, uri.rs.                                                      *)

ARTIFACT_TYPE_CODE == 4
Artifact(code, index, entity) ==
  <<"artifact", [code |-> code, endpoint_index |-> index, source_id |-> entity]>>
artifact_encode(artifact) == base64_encode(artifact)
artifact_decode(w) ==
  LET data == base64_decode(w)
  IN IF data = Fault THEN Fault
     ELSE IF data[1] = "artifact" /\ data[2].code = ARTIFACT_TYPE_CODE THEN data[2] ELSE Fault

\* Neither is decoded.
artifact_decode_request(h) ==
  LET named == Pair(h.query, "SAMLart") \o Pair(h.form, "SAMLart")
  IN IF named = <<>> THEN Fault ELSE Undecoded(Head(named).value)
artifact_relay_state(h) ==
  LET named == Pair(h.query, "RelayState") \o Pair(h.form, "RelayState")
  IN IF named = <<>> THEN None ELSE Undecoded(Head(named).value)

uri_build_request_url(query, id) == query \o <<P("ID", Raw(id, "bare"))>>
uri_decode_assertion_id(h) ==
  LET id == Param(h.query, "ID")
  IN IF h.method # "GET" \/ id = None THEN Fault ELSE IF id.word.of = <<>> THEN Fault ELSE Undecoded(id)

-----------------------------------------------------------------------------
(* soap.rs.                                                                  *)

Soap(local) == <<"soap", local>>
soap_envelope_wrap(content, blocks) ==
  Root(Soap("Envelope"), {"soap"}, Bare,
       (IF blocks = <<>> THEN <<>> ELSE <<Element(Soap("Header"), Bare, blocks)>>)
         \o <<Element(Soap("Body"), Bare, <<content>>)>>)

\* One body with one element, which goes on as its own bytes.
Content(e) ==
  LET bodies == Kids(e, Soap("Body"))
      content == IF Len(bodies) = 1 THEN Head(bodies).kids ELSE <<>>
  IN IF ~Resolves(e, {}) \/ e.tag # Soap("Envelope") \/ Len(content) # 1 THEN Fault
     ELSE IF Head(content).tag = Soap("Fault") THEN Fault ELSE Head(content)
soap_envelope_unwrap(e) ==
  IF Len(Kids(e, Soap("Header"))) > 1 \/ Kids(e, Soap("Fault")) # <<>> THEN Fault ELSE Content(e)
soap_decode(h) == IF h.body = None THEN Fault ELSE soap_envelope_unwrap(h.body)

-----------------------------------------------------------------------------
(* paos.rs and the envelopes of profiles/sso/ecp.rs.  The service name, which *)
(* nobody reads, is left out.                                                *)

Paos(local) == <<"paos", local>>
EcpTag(local) == <<"ecp", local>>

Some == OneOf(<<"v">>)
PaosRequestType == Rec([response_consumer_url |-> Str, message_id |-> Opt(Str)])
paos_request_header_xml(r) ==
  Root(Paos("Request"), {"paos"},
        [responseConsumerURL |-> r.response_consumer_url, messageID |-> r.message_id], <<>>)
PaosResponseType == Rec([ref_to_message_id |-> Opt(Str)])
paos_response_header_xml(r) ==
  Root(Paos("Response"), {"paos"}, [refToMessageID |-> r.ref_to_message_id], <<>>)

EcpRequestType ==
  Rec([issuer |-> Opt(Some), provider_name |-> Opt(Str), is_passive |-> Bool, idp_list |-> Many(Str)])
ecp_request_header_xml(r) ==
  LET Issuer(name) == [Root(Saml("Issuer"), {"saml"}, Bare, <<>>) EXCEPT !.text = name]
      IdpList(idps) == Root(Samlp("IDPList"), {"samlp"}, Bare, Each(WriteEntry, idps))
  IN Root(EcpTag("Request"), {"ecp"},
           [IsPassive |-> Spelt(r.is_passive), ProviderName |-> r.provider_name],
           Maybe(Issuer, r.issuer)
             \o (IF r.idp_list = <<>> THEN <<>> ELSE <<IdpList(r.idp_list)>>))
ecp_response_header_xml(url) ==
  Root(EcpTag("Response"), {"ecp"}, [AssertionConsumerServiceURL |-> url], <<>>)
ecp_relay_state_header_xml(state) ==
  [Root(EcpTag("RelayState"), {"ecp"}, Bare, <<>>) EXCEPT !.text = state]

\* Phase 1 is an SP's request to the client, phase 2 what the client brings back,
\* and in between the identity provider names the URL its answer is for.
NoBlocks ==
  [paos_request |-> None, ecp_request |-> None, paos_response |-> None, acs_url |-> None, relay_state |-> None]
Phase1 ==
  Rec([paos_request |-> PaosRequestType, ecp_request |-> EcpRequestType, relay_state |-> Opt(Some)])
Phase2 == Rec([paos_response |-> PaosResponseType, relay_state |-> Opt(Some)])
IdpAnswer == Rec([acs_url |-> Str])
EcpBlocks == {v @@ NoBlocks : v \in Phase1.all \cup Phase2.all \cup IdpAnswer.all}
BlocksOf(v) ==
  Maybe(paos_request_header_xml, v.paos_request) \o Maybe(ecp_request_header_xml, v.ecp_request)
    \o Maybe(paos_response_header_xml, v.paos_response) \o Maybe(ecp_response_header_xml, v.acs_url)
    \o Maybe(ecp_relay_state_header_xml, v.relay_state)

\* Of several blocks of a kind the last counts, and each request names its URL.
parse_header_blocks(e) ==
  LET Blocks(tag) == KidsOfAll(Kids(e, Soap("Header")), tag)
      LastOf(Read(_), tag) == IF Blocks(tag) = <<>> THEN None ELSE Read(Last(Blocks(tag)))
      PaosRequest(b) ==
        Whole([response_consumer_url |-> Needed(b, "responseConsumerURL"), message_id |-> Given(b, "messageID")])
      PaosResponse(b) == [ref_to_message_id |-> Given(b, "refToMessageID")]
      Listed(list) == Each(LAMBDA k : Given(k, "ProviderID"), Kids(list, Samlp("IDPEntry")))
      Own(b) == ReadIf(Listed, Kid(b, Samlp("IDPList")))
      EcpRequest(b) ==
        [issuer |-> Text(b, Saml("Issuer")), provider_name |-> Given(b, "ProviderName"),
         is_passive |-> Given(b, "IsPassive") \in {"true", "1"},
         idp_list |-> SelectSeq(IF Own(b) = None THEN <<>> ELSE Own(b), LAMBDA idp : idp # None)]
  IN IF Fault \in Range(Each(PaosRequest, Blocks(Paos("Request")))) THEN Fault
     ELSE [paos_request |-> LastOf(PaosRequest, Paos("Request")),
           paos_response |-> LastOf(PaosResponse, Paos("Response")),
           ecp_request |-> LastOf(EcpRequest, EcpTag("Request")),
           acs_url |-> LastOf(LAMBDA b : Given(b, "AssertionConsumerServiceURL"), EcpTag("Response")),
           relay_state |-> LastOf(LAMBDA b : b.text, EcpTag("RelayState"))]

parse_envelope(e) ==
  IF Content(e) = Fault THEN Fault
  ELSE Whole([blocks |-> parse_header_blocks(e), body_xml |-> Content(e)])

-----------------------------------------------------------------------------
(* request_adapter.rs and extractors.rs of gamlastan-actix.  A request is its *)
(* method, the kind of its content, whether it carries the headers of an ECP   *)
(* client, and its query, form and XML body.                                   *)

Http(method, content, query, form, body) ==
  [method |-> method, content |-> content, paos |-> FALSE, query |-> query, form |-> form, body |-> body]

Extracted(binding, xml, is_request, relay_state, verified) ==
  [binding |-> binding, saml_xml |-> xml, is_request |-> is_request, relay_state |-> relay_state,
   verified |-> verified]

\* "Caller determines from parsed XML": these count as requests.
extract_soap(h, binding) ==
  IF soap_decode(h) = Fault THEN Fault ELSE Extracted(binding, soap_decode(h), TRUE, None, None)
extract_artifact(h) ==
  Extracted("artifact", artifact_decode_request(h), TRUE, artifact_relay_state(h), None)
HasMessage(ps) == Named(ps, "SAMLRequest") \o Named(ps, "SAMLResponse") # <<>>

extract_from_get(h) ==
  LET decoded == redirect_decode(h.query) IN
  CASE Named(h.query, "SAMLart") # <<>> -> extract_artifact([h EXCEPT !.form = <<>>])
    [] Named(h.query, "SAMLart") = <<>> /\ HasMessage(h.query) /\ decoded # Fault ->
         Extracted("redirect", decoded.saml_xml, decoded.is_request, decoded.relay_state,
                   redirect_verify_signature(decoded))
    [] OTHER -> Fault

\* A form is read only where the content is said to be one.
extract_from_post(h) ==
  LET form == IF h.content = "form" THEN h.form ELSE <<>>
      decoded == post_decode(form)
  IN CASE h.content = "xml" -> extract_soap(h, "soap")
       [] Named(form, "SAMLart") # <<>> -> extract_artifact([h EXCEPT !.query = <<>>])
       [] h.content # "xml" /\ Named(form, "SAMLart") = <<>> /\ HasMessage(form) /\ decoded # Fault ->
            Extracted("post", decoded.saml_xml, decoded.is_request, decoded.relay_state, None)
       [] OTHER -> Fault

extract_saml_message(h) ==
  CASE h.paos -> extract_soap(h, "paos")
    [] ~h.paos /\ h.method = "GET" -> extract_from_get(h)
    [] ~h.paos /\ h.method = "POST" -> extract_from_post(h)
    [] OTHER -> Fault

-----------------------------------------------------------------------------
(* What is sent.                                                             *)

Other == P("other", Raw(Word(<<"other">>, {}), "bare"))
BrowserLetters ==
  [binding : {"redirect", "post"}, is_request : BOOLEAN, message : {Message("usual")},
   state : States \cup {None}, echoed : BOOLEAN, signed : BOOLEAN, endpointQuery : {<<>>}]
    \cup
  [binding : {"redirect", "post"}, is_request : BOOLEAN, message : {Message("usual"), Message("huge")},
   state : {None}, echoed : {FALSE}, signed : BOOLEAN,
   endpointQuery : {<<>>, <<Other>>, <<RelayPair(Word(<<"own">>, {}))>>}]

Body == Root(Samlp("Response"), {"samlp"}, Bare, <<>>)
EnvelopeLetters ==
  [binding : {"soap"}, blocks : {NoBlocks}, spelling : {"own", "federation"}]
    \cup [binding : {"paos"}, blocks : EcpBlocks, spelling : {"own", "federation"}]

\* Artifacts and assertion IDs come from another implementation, as text or escaped.
ArtifactLetters ==
  [binding : {"artifact"}, artifact : {Artifact(code, 1, "idp") : code \in {1, ARTIFACT_TYPE_CODE}},
   style : {"bare", "escaped"}, form : BOOLEAN]
UriLetters == [binding : {"uri"}, id : {Word(<<"id">>, {}), Word(<<>>, {})}]

Carrier(l) ==
  CASE l.binding = "redirect" -> Http("GET", "none", redirect_encode(l), <<>>, None)
    [] l.binding = "post" -> Http("POST", "form", <<>>, Submitted(post_encode(l)), None)
    [] l.binding \in {"soap", "paos"} ->
         [Http("POST", "xml", <<>>, <<>>, Spelled(soap_envelope_wrap(Body, BlocksOf(l.blocks)), l.spelling))
            EXCEPT !.paos = (l.binding = "paos")]
    [] l.binding = "artifact" ->
         LET pair == <<P("SAMLart", Raw(artifact_encode(l.artifact), l.style))>>
         IN IF l.form THEN Http("POST", "form", <<>>, pair, None) ELSE Http("GET", "none", pair, <<>>, None)
    [] l.binding = "uri" -> Http("GET", "none", uri_build_request_url(<<>>, l.id), <<>>, None)

-----------------------------------------------------------------------------
(* Changes under way: a parameter is lost, repeated, moved, spelled in another *)
(* way or given another value, or there is one more; an envelope has elements   *)
(* too many or too few; the request is of another kind.                         *)

Values ==
  {Raw(Word(<<"other state">>, {}), "bare"), url_encode(base64_encode(Message("other"))),
   url_encode(base64_encode(deflate_compress(Message("other"))))}
ParamChanges(ps) ==
  {RemoveAt(ps, i) : i \in DOMAIN ps} \cup {Append(ps, ps[i]) : i \in DOMAIN ps} \cup {Reverse(ps)}
    \cup {[ps EXCEPT ![i].style = style] : i \in DOMAIN ps, style \in {"escaped", "broken"}}
    \cup {[ps EXCEPT ![i].value.style = style] : i \in DOMAIN ps, style \in {"bare", "escaped", "Escaped"}}
    \cup {[ps EXCEPT ![i].value = v] : i \in DOMAIN ps, v \in Values}
    \cup {<<P(name, v)>> \o ps : name \in RedirectNames \cup {"SAMLart", "other"}, v \in Values}
    \cup {Append(ps, P(name, v)) : name \in RedirectNames \cup {"SAMLart", "other"}, v \in Values}

OtherBody == [Body EXCEPT !.at = [ID |-> "other"]]
EnvelopeChanges(e) ==
  LET body == SelectInSeq(e.kids, LAMBDA k : k.tag = Soap("Body"))
      more == Range(e.kids) \cup {Empty(Soap(local)) : local \in {"Header", "Body", "Fault"}}
                \cup {Element(Soap("Body"), Bare, <<OtherBody>>)}
  IN {[e EXCEPT !.kids = RemoveAt(@, i)] : i \in DOMAIN e.kids}
     \cup {[e EXCEPT !.kids = <<k>> \o @] : k \in more} \cup {[e EXCEPT !.kids = Append(@, k)] : k \in more}
     \cup {[e EXCEPT !.kids[body].kids = kids] :
             kids \in {<<>>, <<OtherBody, Body>>, <<Body, OtherBody>>, <<Empty(Soap("Fault"))>>}}
     \cup {[e EXCEPT !.tag = <<"", "Envelope">>]}

ChangesOf(h) ==
  {[h EXCEPT !.query = ps] : ps \in ParamChanges(h.query)}
    \cup {[h EXCEPT !.form = ps] : ps \in ParamChanges(h.form)}
    \cup (IF h.body = None THEN {} ELSE {[h EXCEPT !.body = e] : e \in EnvelopeChanges(h.body)})
    \cup {[h EXCEPT !.method = m] : m \in {"GET", "POST", "PUT"}}
    \cup {[h EXCEPT !.content = c] : c \in {"form", "xml", "none"}} \cup {[h EXCEPT !.paos = ~@]}

-----------------------------------------------------------------------------

WireInit ==
  /\ \/ letter \in BrowserLetters
     \/ letter \in EnvelopeLetters
     \/ letter \in ArtifactLetters \cup UriLetters
  /\ http = None /\ handling = "untouched" /\ arrival = None

Send ==
  /\ http = None
  /\ http' = Carrier(letter)
  /\ UNCHANGED <<letter, handling, arrival>>

Disturb ==
  /\ http # None /\ handling = "untouched" /\ arrival = None
  /\ http' \in ChangesOf(http)
  /\ handling' = "changed"
  /\ UNCHANGED <<letter, arrival>>

\* What the extractor, the ECP functions and the URI binding each make of it; a
\* message that does not parse on its own is refused by whoever takes it.
Take ==
  /\ http # None /\ arrival = None
  /\ LET m == extract_saml_message(http)
         e == IF http.body = None THEN Fault ELSE parse_envelope(http.body)
         Readable(x) == Resolves(x, {})
     IN arrival' = [message |-> IF m # Fault /\ http.body # None /\ ~Readable(m.saml_xml) THEN Fault ELSE m,
                    envelope |-> IF e # Fault /\ ~Readable(e.body_xml) THEN Fault ELSE e,
                    artifact |-> ReadIf(artifact_decode, artifact_decode_request(http)),
                    assertion_id |-> uri_decode_assertion_id(http)]
  /\ UNCHANGED <<letter, http, handling>>

WireNext == Send \/ Disturb \/ Take

-----------------------------------------------------------------------------
(* Properties.                                                               *)

\* What an untouched message over a browser says; an endpoint with a query of its
\* own that uses a name of the binding is out of the question, and so is a message
\* that is longer than the receiver inflates.
Deliverable(l) ==
  /\ l.binding = "redirect" => Last(l.message) # "huge" /\ \A p \in Range(l.endpointQuery) : p.name \notin RedirectNames
SaidBy(l) ==
  Extracted(l.binding, l.message, l.is_request, RelayStateOf(l),
            IF l.binding = "redirect" /\ l.signed THEN TRUE ELSE None)

\* No other reader of the same request can take something else from it.
OneReading(m) ==
  LET ps == IF m.binding = "redirect" THEN http.query ELSE http.form
      Inflated(data) == IF m.binding = "redirect" THEN deflate_decompress(data) ELSE data
      Reading(raw) == ReadIf(Inflated, ReadIf(base64_decode, url_decode(raw)))
  IN \A p \in Range(ps) :
       /\ p.style # "broken" /\ p.name # SamlName(~m.is_request)
       /\ p.name = SamlName(m.is_request) => Reading(p.value) \in {m.saml_xml, Fault}
       /\ p.name = "RelayState" => url_decode(p.value) \in {m.relay_state, Fault}
OneContent(xml) ==
  \A body \in Range(Kids(http.body, Soap("Body"))) : \A kid \in Range(body.kids) : kid = xml

\* The binding encoders and decoders, with the extractor: a message nobody changed
\* arrives as it was sent, with its kind, its valid or echoed RelayState and its
\* signature, and an ECP envelope with its blocks.  Of a changed one, a detached
\* signature that still verifies vouches for the message and the RelayState; and
\* whatever is taken, it is all that the request can be read as.  Two kinds of
\* untouched messages need not arrive: an artifact whose escapes the extractor
\* leaves in place, and a SOAP or PAOS envelope in a federation's spelling.
ArrivesAsSent ==
  arrival # None =>
    LET m == arrival.message
        e == arrival.envelope
    IN CASE letter.binding \in {"redirect", "post"} ->
              /\ handling = "untouched" /\ Deliverable(letter) => m = SaidBy(letter)
              /\ m # Fault /\ Deliverable(letter) =>
                   /\ m.binding = "redirect" /\ m.verified = TRUE => m = SaidBy(letter)
                   /\ m.binding \in {"redirect", "post"} => OneReading(m)
         [] letter.binding \in {"soap", "paos"} ->
              /\ handling = "untouched" /\ letter.spelling = "own" =>
                   /\ m = Extracted(letter.binding, Body, TRUE, None, None)
                   /\ e = [blocks |-> letter.blocks, body_xml |-> Body]
              /\ m # Fault => OneContent(m.saml_xml)
              /\ e # Fault => OneContent(e.body_xml)
         [] letter.binding = "artifact" ->
              /\ arrival.artifact \in {Fault, letter.artifact[2]}
              /\ handling = "untouched" /\ letter.style = "bare" =>
                   (arrival.artifact = Fault <=> letter.artifact[2].code # ARTIFACT_TYPE_CODE)
         [] letter.binding = "uri" ->
              handling = "untouched" => arrival.assertion_id = (IF letter.id.of = <<>> THEN Fault ELSE letter.id)
=============================================================================
