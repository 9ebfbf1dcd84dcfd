--------------------------- MODULE MCIdpServices ---------------------------
(***************************************************************************)
(* The services an identity provider runs beside its endpoints.  They share *)
(* no state, so one run explores them side by side: the initial state picks *)
(* the service and the others rest.                                         *)
(***************************************************************************)
EXTENDS TLC, AssertionStore, ArtifactResolution, Eptid, ExampleIdp, ReleasePolicy

CONSTANTS alice, bob, sp1, sp2, stranger, m1, m2
VARIABLE part

MessageHandles == {m1, m2}
HandleSymmetry == Permutations(MessageHandles)

Statement(session, class, until) == [session |-> session, class |-> class, until |-> until]
Stored(id, subject, from, until, statements) ==
  [id |-> id, subject |-> subject, from |-> from, until |-> until, statements |-> statements]

StoredAssertions ==
  {Stored("a1", alice, 0, 2, {Statement("x", "password", Absent)}),
   Stored("a1", bob, 0, 2, {Statement("x", "password", 1), Statement("x", "otp", Absent)}),
   Stored("a2", alice, 1, 2, {Statement("y", "otp", Absent)}),
   Stored("a2", Absent, Absent, Absent, {Statement("y", "otp", Absent)})}

AskedQueries ==
  {[kind |-> "authn", subject |-> alice, session |-> Absent, classes |-> {}],
   [kind |-> "authn", subject |-> bob, session |-> "x", classes |-> {"otp"}],
   [kind |-> "ids", refs |-> <<"a1", "a2">>], [kind |-> "ids", refs |-> <<"a1", "a1">>]}

Name(tokens) == [i \in DOMAIN tokens |-> <<tokens[i]>>]
Target(idp, sp, user) == [idp |-> Name(idp), sp |-> Name(sp), user |-> Name(user)]

EptidTokens == {<<token>> : token \in {"i", "s", "t", "u", "!", "__", "old", "new"}}

EptidSecrets == {Name(<<"old">>), Name(<<"new">>)}

\* The second and third join to the same key; the fourth is a tenant whose name
\* makes its values begin like the first one's.
EptidTargets ==
  {Target(<<"i">>, <<"s">>, <<"u">>),
   Target(<<"i">>, <<"s">>, <<"s", "__", "u">>),
   Target(<<"i">>, <<"s", "__", "s">>, <<"u">>),
   Target(<<"i", "!", "s">>, <<"t">>, <<"u">>)}

SpFile(entity, wantsSigned) ==
  [entity |-> entity, certificates |-> 1, wantsSigned |-> wantsSigned, postAcs |-> TRUE]
TwoSps == <<SpFile(sp1, FALSE), SpFile(sp2, TRUE)>>

PlainLogin ==
  [sp |-> sp1, signature |-> "none", namesSubject |-> FALSE, force |-> FALSE,
   passive |-> FALSE, context |-> NoContext]

ArrivingRequests ==
  {PlainLogin,
   [PlainLogin EXCEPT !.force = TRUE],
   [PlainLogin EXCEPT !.passive = TRUE],
   [PlainLogin EXCEPT !.sp = sp2],
   [PlainLogin EXCEPT !.sp = sp2, !.signature = "valid",
                      !.context = [comparison |-> "exact", refs |-> {Password}]],
   [PlainLogin EXCEPT !.context = [comparison |-> "better", refs |-> {ProtectedTransport}]]}

LocalNames == {"mail", "displayName", "subject-id", "pairwise-id", "norEduPersonNIN"}
Wire == [mail |-> "urn:mail", displayName |-> "urn:dn", norEduPersonNIN |-> "urn:nin"]
        @@ ("subject-id" :> "urn:sid") @@ ("pairwise-id" :> "urn:pid")

\* One map knows no way back from "urn:nin"; another serves a format without
\* being asked.
AttributeMaps ==
  <<Converter("uri", [w \in {Wire[n] : n \in LocalNames \ {"norEduPersonNIN"}} |->
                        CHOOSE n \in LocalNames : Wire[n] = w], Wire),
    Converter("basic", [mail |-> "mail", dn |-> "displayName"], [mail |-> "mail"])>>

HeldValue(name, values) == [name |-> name, values |-> values]
HeldSets ==
  LET mail == HeldValue("mail", {"v1", "v2", "blob"})
      both == {HeldValue("subject-id", {"v1"}), HeldValue("pairwise-id", {"v2"})}
  IN {{mail, HeldValue("displayName", {"v1"}), HeldValue("norEduPersonNIN", {"v1"})}, {mail} \union both}

AskFor(name, format, friendly, values) == Attribute(name, format, friendly, values)
RequestSets ==
  {{}, {AskFor("urn:mail", {"uri"}, {}, {"v1"}), AskFor("urn:nin", {"uri"}, {}, {})},
   {AskFor("urn:mail", {"uri"}, {}, {"v1"}), AskFor("mail", {}, {"displayName"}, {"v2", "blob"})},
   {AskFor("urn:other", {"uri"}, {"displayName"}, {}), AskFor("urn:pid", {"uri"}, {"mail"}, {})},
   {AskFor("urn:mail", {"uri"}, {"displayName"}, {"blob"}), AskFor("urn:sid", {"uri"}, {}, {})},
   {AskFor("displayName", {"uri"}, {}, {})}}

KnobsOf(restrictions, categories, deny, fail) ==
  [restrictions |-> restrictions, categories |-> categories, deny |-> deny, fail |-> fail]
Unset == KnobsOf({}, {}, {}, {})
PolicyOf(entries, authorities, friendlyMatch) ==
  [entries |-> entries, authorities |-> authorities, friendlyMatch |-> friendlyMatch]

Lenient == KnobsOf({}, {}, {}, {FALSE})
OnlyMail == ("mail" :> {{"v1"}}) @@ ("pairwise-id" :> {})
Strict == PolicyOf(("default" :> Unset), << >>, FALSE)
Indulgent == PolicyOf(("default" :> Lenient), << >>, FALSE)

Policies ==
  {Indulgent,
   PolicyOf(("default" :> Lenient), << >>, TRUE),
   PolicyOf(("default" :> KnobsOf({}, {}, {TRUE}, {FALSE})), << >>, FALSE),
   PolicyOf(("default" :> KnobsOf({OnlyMail}, {}, {TRUE}, {})), << >>, FALSE),
   PolicyOf(("default" :> Lenient) @@ ("swamid" :> KnobsOf({}, {Swamid}, {}, {})),
            (sp1 :> "swamid"), FALSE),
   PolicyOf((sp1 :> KnobsOf({}, {Swamid, EduGain, Refeds, InCommon, AtEgovPvp2}, {}, {FALSE})), (sp1 :> "default"), FALSE)}

Situation(held, required, optional, categories, req, chain, decisions) ==
  [held |-> held, required |-> required, optional |-> optional, categories |-> categories,
   subjectReq |-> req, sp |-> sp1, chain |-> chain, decisions |-> decisions]
RestingSituation == Situation({}, {}, {}, {}, "none", << >>, Strict)

ReleaseSituations ==
  {RestingSituation} \union {Situation(held, required, optional, categories, req, chain,
               IF req = "any" THEN Strict ELSE Indulgent) :
     held \in HeldSets, required \in RequestSets, optional \in {{}} \union RequestSets,
     categories \in {{}, {"coco-v1", "incommon-rs"}, {"personalized"}, {"personalized", "pseudonymous", "esi"}},
     req \in {"any", "none"},
     chain \in {<< >>} \union {<<p>> : p \in Policies} \union {<<p, q>> : p, q \in Policies}}

allVars == <<storeVars, artifactVars, eptidVars, idpVars, releaseVars>>

ServicesInit ==
  /\ part \in {"store", "artifact", "eptid", "idp", "release"}
  /\ StoreInit /\ ArtifactInit /\ EptidInit /\ IdpInit
  /\ ReleaseInit /\ (part # "release" => situation = RestingSituation)
  /\ part # "eptid" => secret = Name(<<"old">>)
ServicesNext ==
  /\ UNCHANGED part
  /\ \/ part = "store" /\ StoreNext /\ UNCHANGED <<artifactVars, eptidVars, idpVars, releaseVars>>
     \/ part = "artifact" /\ ArtifactNext /\ UNCHANGED <<storeVars, eptidVars, idpVars, releaseVars>>
     \/ part = "eptid" /\ EptidNext /\ UNCHANGED <<storeVars, artifactVars, idpVars, releaseVars>>
     \/ part = "idp" /\ IdpNext /\ UNCHANGED <<storeVars, artifactVars, eptidVars, releaseVars>>
     \/ part = "release" /\ ReleaseNext /\ UNCHANGED <<storeVars, artifactVars, eptidVars, idpVars>>
Spec == ServicesInit /\ [][ServicesNext]_<<part, allVars>>
=============================================================================
