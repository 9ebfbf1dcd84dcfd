--------------------------- MODULE EntityCategory ---------------------------
(***************************************************************************)
(* Release by entity category (crates/gamlastan/src/idp/entity_category.rs): *)
(* a federation's policy is a set of rules, each of which releases some      *)
(* local attributes to the service providers that publish all of its         *)
(* categories and none of those it conflicts with.  Names are case-folded.   *)
(***************************************************************************)

Rule(categories, attributes) ==
  [categories |-> categories, attributes |-> attributes, conflicts |-> {}, onlyRequired |-> FALSE]
OnlyRequired(rule) == [rule EXCEPT !.onlyRequired = TRUE]

-----------------------------------------------------------------------------
(* The shipped policies.                                                    *)

CocoV1Attributes ==
  {"eduPersonPrincipalName", "eduPersonScopedAffiliation", "eduPersonAffiliation", "mail",
   "displayName", "cn", "schacHomeOrganization"}

RefedsRsAttributes ==
  {"eduPersonPrincipalName", "eduPersonScopedAffiliation", "mail", "givenName", "sn", "displayName"}

SwamidNameOrgOther ==
  {"givenName", "displayName", "sn", "cn", "c", "o", "co", "norEduOrgAcronym",
   "schacHomeOrganization", "schacHomeOrganizationType", "eduPersonPrincipalName",
   "eduPersonScopedAffiliation", "mail", "eduPersonAssurance"}

GeantCoco ==
  {"pairwise-id", "subject-id", "eduPersonTargetedID", "eduPersonPrincipalName", "eduPersonOrcid",
   "norEduPersonNIN", "personalIdentityNumber", "schacDateOfBirth", "mail", "mailLocalAddress",
   "displayName", "cn", "givenName", "sn", "norEduPersonLegalName", "eduPersonAssurance",
   "eduPersonScopedAffiliation", "eduPersonAffiliation", "o", "norEduOrgAcronym", "c", "co",
   "schacHomeOrganization", "schacHomeOrganizationType"}

EsiAttributes == {"schacPersonalUniqueCode"}

AlwaysTargetedId == Rule({}, {"eduPersonTargetedID"})

EduGain == {AlwaysTargetedId, OnlyRequired(Rule({"coco-v1"}, CocoV1Attributes))}
Refeds == {AlwaysTargetedId, Rule({"refeds-rs"}, RefedsRsAttributes)}
InCommon == {AlwaysTargetedId, Rule({"incommon-rs"}, RefedsRsAttributes)}

\* The REFEDS access rules: each yields to the more restrictive ones.
RefedsAccess ==
  {[Rule({"personalized"},
         {"subject-id", "mail", "displayName", "givenName", "sn", "eduPersonScopedAffiliation",
          "eduPersonAssurance", "schacHomeOrganization"})
      EXCEPT !.conflicts = {"pseudonymous", "anonymous"}],
   [Rule({"pseudonymous"},
         {"pairwise-id", "eduPersonScopedAffiliation", "eduPersonAssurance", "schacHomeOrganization"})
      EXCEPT !.conflicts = {"anonymous"}],
   Rule({"anonymous"}, {"eduPersonScopedAffiliation", "schacHomeOrganization"})}

\* SWAMID: a research service, a code of conduct, and the rest.
SwamidService(service) == Rule({"research-and-education", service}, SwamidNameOrgOther)

SwamidConduct(coco) ==
  {OnlyRequired(Rule({coco}, GeantCoco)), OnlyRequired(Rule({"esi", coco}, GeantCoco \union EsiAttributes))}

Swamid ==
  {Rule({"sfs-1993-1153"}, {"norEduPersonNIN", "eduPersonAssurance"}),
   Rule({"refeds-rs"},
        {"eduPersonPrincipalName", "eduPersonUniqueID", "mail", "displayName", "givenName", "sn",
         "eduPersonAssurance", "eduPersonScopedAffiliation"}),
   Rule({"esi"}, EsiAttributes),
   SwamidService("eu-adequate-protection"), SwamidService("nren-service"), SwamidService("hei-service")}
  \union SwamidConduct("coco-v1") \union SwamidConduct("coco-v2") \union RefedsAccess

AtEgovPvp2 ==
  {Rule({"egovtoken"},
        {"PVP-VERSION", "PVP-PRINCIPAL-NAME", "PVP-GIVENNAME", "PVP-BIRTHDATE", "PVP-USERID",
         "PVP-GID", "PVP-BPK", "PVP-MAIL", "PVP-TEL", "PVP-PARTICIPANT-ID", "PVP-PARTICIPANT-OKZ",
         "PVP-OU-OKZ", "PVP-OU", "PVP-OU-GV-OU-ID", "PVP-FUNCTION", "PVP-ROLES"}),
   Rule({"egovtoken-charge"}, {"PVP-INVOICE-RECPT-ID", "PVP-COST-CENTER-ID", "PVP-CHARGE-CODE"})}

-----------------------------------------------------------------------------
(* Evaluation.                                                              *)

RuleMatches(rule, published) ==
  rule.categories \subseteq published /\ rule.conflicts \intersect published = {}

\* release_rule_attributes: a rule for everybody is exempt from onlyRequired.
RuleReleases(rule, required) ==
  IF rule.onlyRequired /\ rule.categories # {} THEN rule.attributes \intersect required
  ELSE rule.attributes

ReleasableAttributes(rules, published, required) ==
  UNION {RuleReleases(r, required) : r \in {s \in rules : RuleMatches(s, published)}}
=============================================================================
