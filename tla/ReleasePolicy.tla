--------------------------- MODULE ReleasePolicy ---------------------------
(***************************************************************************)
(* What an identity provider tells a service provider about a user          *)
(* (crates/gamlastan/src/idp/policy.rs, and the release seam of             *)
(* idp/orchestrator: release.rs and respond.rs).  The attributes travel     *)
(* from the application's local names to the wire, through a chain of       *)
(* release policies, to the local names of the service provider.            *)
(***************************************************************************)
EXTENDS EntityCategory, AttributeMap, FiniteSets

CONSTANTS
  Situations,      \* what is asked and configured: see Init
  Converters,      \* the attribute maps, those of the service provider too
  UriFormat,
  TextValues       \* the values that have a text; others match no pattern

VARIABLES situation, stage, verdict, attributes

releaseVars == <<situation, stage, verdict, attributes>>

\* A policy is [entries, authorities, friendlyMatch]: an entry's field is {} if
\* it is not set, and an authority maps a service provider to another entry.
DefaultEntry == "default"

\* get_ref: the entry of the registration authority counts only for a service
\* provider without one of its own.
Knob(policy, sp, field) ==
  LET of(name) == IF name \in DOMAIN policy.entries THEN policy.entries[name][field] ELSE {}
      authority == IF sp \in DOMAIN policy.authorities THEN of(policy.authorities[sp]) ELSE {}
      own == IF sp \in DOMAIN policy.entries THEN of(sp) ELSE authority
  IN IF own # {} THEN own ELSE of(DefaultEntry)

FailsOnMissing(policy, sp) == FALSE \notin Knob(policy, sp, "fail")
DeniesUnconfigured(policy, sp) == TRUE \in Knob(policy, sp, "deny")

LocalKey(a) ==
  LET local == LocalName(Converters, a) IN IF local # {} THEN CHOOSE n \in local : TRUE ELSE a.name

\* requested_match_key: a service provider's FriendlyName counts only if the
\* policy is told to let it.
MatchKeyFriendly(policy, r) == LocalName(Converters, r)

MatchKey(policy, r) ==
  LET trusted == LocalNameViaConverters(Converters, r)
  IN IF trusted = {} /\ policy.friendlyMatch THEN r.friendly ELSE trusted

\* matching_requested_attribute: the duplicates of an attribute become one.
Matching(policy, held, r) == {a \in held : LocalKey(a) \in MatchKey(policy, r) \/ a.name = r.name}
Merged(same) ==
  [(CHOOSE a \in same : TRUE) EXCEPT !.values = UNION {a.values : a \in same}]

Wanted(r) == r.values \intersect TextValues
Narrowed(a, r) ==
  [a EXCEPT !.values = IF Wanted(r) = {} THEN a.values ELSE a.values \intersect Wanted(r)]

\* filter_on_attributes, and when it fails.
FilterOnAttributes(policy, held, requests) ==
  LET given == {Narrowed(Merged(Matching(policy, held, r)), r) :
                  r \in {q \in requests : Matching(policy, held, q) # {}}}
  IN {Merged({b \in given : LocalKey(b) = LocalKey(a)}) : a \in given}

ValueUnfulfilled(policy, held, required) ==
  \E r \in required :
    LET same == Matching(policy, held, r)
    IN same # {} /\ Wanted(r) # {} /\ Narrowed(Merged(same), r).values = {}

\* validate_required_attributes
Fulfilled(policy, released, required) ==
  /\ \A r \in required : Matching(policy, released, r) # {}
  /\ ~ValueUnfulfilled(policy, released, required)

\* filter_attribute_value_assertions: a restriction is {} for any value.
FilterValues(held, restrictions) ==
  LET permitted(a) ==
        [a EXCEPT !.values = IF restrictions[LocalKey(a)] = {} THEN a.values
                             ELSE a.values \intersect TextValues
                                           \intersect UNION restrictions[LocalKey(a)]]
      named == {a \in held : LocalKey(a) \in DOMAIN restrictions}
  IN {permitted(a) : a \in {b \in named : restrictions[LocalKey(b)] = {} \/ permitted(b).values # {}}}

\* Asked for any subject identifier, the pairwise one is preferred.
PreferPairwise(held, subjectReq) ==
  LET of(key) == {a \in held : LocalKey(a) = key}
  IN IF subjectReq = "any" /\ of("pairwise-id") # {} THEN held \ of("subject-id") ELSE held

\* ReleasePolicy::filter in its steps: the category rules, or what is asked for, ...
Uncovered(policy, s) ==
  /\ Knob(policy, s.sp, "categories") = {} /\ Knob(policy, s.sp, "restrictions") = {}
  /\ s.required \union s.optional = {}

Chosen(policy, held, s) ==
  LET rules == Knob(policy, s.sp, "categories")
      requests == s.required \union s.optional
      requestedKeys == UNION {MatchKey(policy, r) \union {r.name} : r \in s.required}
      releasable == ReleasableAttributes(UNION rules, s.categories, requestedKeys)
  IN IF rules # {} THEN {a \in held : LocalKey(a) \in releasable}
     ELSE IF requests # {} THEN FilterOnAttributes(policy, held, requests)
     ELSE IF Uncovered(policy, s) /\ DeniesUnconfigured(policy, s.sp) THEN {} ELSE held

\* ... the restrictions, the choice of a subject identifier, and the check of what
\* is required.  A failure is {}, a success the set of the result.
Filter(policy, held, s) ==
  LET restrictions == Knob(policy, s.sp, "restrictions")
      chosen == Chosen(policy, held, s)
      restricted == IF restrictions = {} THEN chosen
                    ELSE UNION {FilterValues(chosen, f) : f \in restrictions}
      result == PreferPairwise(restricted, s.subjectReq)
      refused == Knob(policy, s.sp, "categories") = {} /\ ValueUnfulfilled(policy, held, s.required)
      missing == FailsOnMissing(policy, s.sp) /\ ~Fulfilled(policy, result, s.required)
  IN IF refused \/ missing THEN {} ELSE {result}

-----------------------------------------------------------------------------
(* What is assumed of the attribute maps and of what is asked and configured.*)

\* The names a held attribute travels under.
WireNames(n) == UNION {Lookup1(c.to, n) : c \in ConverterFor(Converters, UriFormat)}

\* The access categories, the strictest first.
AccessRank == [anonymous |-> 1, pseudonymous |-> 2, personalized |-> 3]

\* Every rule yields to the access categories stricter than its own.
YieldsToStricter(rule) ==
  rule.conflicts = {d \in DOMAIN AccessRank :
                      \E c \in rule.categories \intersect DOMAIN AccessRank : AccessRank[d] < AccessRank[c]}

\* A request means one attribute: its key and its name do not point at two.
MeansOne(policy, held, r) ==
  LET means(l) == l.name \in MatchKey(policy, r) \/ r.name \in WireNames(l.name)
  IN \A l, m \in held : means(l) /\ means(m) => l.name = m.name

ASSUME ConvertersAssumption ==
  \E i \in DOMAIN Converters :
    LET c == Converters[i] IN
    /\ ConverterFor(Converters, UriFormat) = {c}
    /\ \A n \in DOMAIN c.to : c.to[n] \in DOMAIN c.fro => c.fro[c.to[n]] = n

ASSUME SituationsAssumption ==
  \A s \in Situations :
    /\ \A l \in s.held : WireNames(l.name) # {}
    /\ Len(s.chain) \in Nat /\ DOMAIN s.chain = 1..Len(s.chain)
    /\ \A k \in DOMAIN s.chain :
         /\ \A rules \in Knob(s.chain[k], s.sp, "categories") : \A rule \in rules : YieldsToStricter(rule)
         /\ \A f, g \in Knob(s.chain[k], s.sp, "restrictions") : f = g
         /\ \A r \in s.required \union s.optional : MeansOne(s.chain[k], s.held, r)

-----------------------------------------------------------------------------
(* The journey.                                                             *)

ReleaseInit ==
  situation \in Situations /\ stage = 0 /\ verdict = "open" /\ attributes = situation.held

\* The application expresses its attributes on the wire.
Express ==
  /\ stage = 0 /\ stage' = 1
  /\ attributes' = FromLocal(Converters, FALSE, attributes, UriFormat)
  /\ UNCHANGED <<situation, verdict>>

Deny == verdict' = "denied" /\ attributes' = {} /\ UNCHANGED <<situation, stage>>

\* AttributeRelease::release of the next link of the chain; none is the
\* pass-through release.
Release ==
  /\ stage \in DOMAIN situation.chain /\ verdict = "open"
  /\ LET outcome == Filter(situation.chain[stage], attributes, situation)
     IN \/ outcome = {} /\ Deny
        \/ attributes' \in outcome /\ stage' = stage + 1 /\ UNCHANGED <<situation, verdict>>

\* create_authn_response checks once more, by its own policy, and the service
\* provider reads what it is sent.
Deliver ==
  /\ stage = Len(situation.chain) + 1 /\ verdict = "open"
  /\ LET p == situation.decisions
         missing == FailsOnMissing(p, situation.sp)
                    /\ ~Fulfilled(p, attributes, situation.required)
     IN \/ missing /\ Deny
        \/ /\ ~missing /\ verdict' = "delivered"
           /\ attributes' = ToLocal(Converters, FALSE, attributes)
           /\ UNCHANGED <<situation, stage>>

ReleaseNext == Express \/ Release \/ Deliver

ReleaseSpec == ReleaseInit /\ [][ReleaseNext]_releaseVars

-----------------------------------------------------------------------------
(* What a service provider is entitled to, value by value.                  *)

\* A request is for the attribute the maps know it by; its FriendlyName counts
\* only for a policy told so, and only where the maps know nothing.
AsksFor(policy, r, n) ==
  LET known == LocalNameViaConverters(Converters, r)
  IN n \in known \/ (known = {} /\ policy.friendlyMatch /\ n \in r.friendly)

\* By category: the strictest access category it publishes counts, a code of
\* conduct gives what is required, and the other rules what they list.
EntitledByCategory(rules, n, s, isRequired) ==
  LET access == s.categories \intersect DOMAIN AccessRank
  IN \E rule \in rules :
       /\ n \in rule.attributes /\ rule.categories \subseteq s.categories
       /\ (rule.onlyRequired /\ rule.categories # {}) => isRequired
       /\ \A c \in rule.categories \intersect access :
            \A d \in access : AccessRank[c] <= AccessRank[d]

\* By request: it is for the attribute, or has its wire name, and wants any
\* value or this one.
EntitledByRequest(policy, n, v, s) ==
  \E r \in s.required \union s.optional :
    /\ AsksFor(policy, r, n) \/ r.name \in WireNames(n)
    /\ Wanted(r) # {} => v \in Wanted(r)

Entitled(policy, n, v, s) ==
  LET rules == Knob(policy, s.sp, "categories")
      restrictions == Knob(policy, s.sp, "restrictions")
      isRequired == \E r \in s.required : AsksFor(policy, r, n) \/ r.name = n
  IN /\ rules # {} => \E set \in rules : EntitledByCategory(set, n, s, isRequired)
     /\ rules = {} => \/ EntitledByRequest(policy, n, v, s)
                      \/ /\ s.required \union s.optional = {}
                         /\ restrictions = {} => ~DeniesUnconfigured(policy, s.sp)
     /\ \A f \in restrictions :
          n \in DOMAIN f /\ (f[n] # {} => v \in TextValues /\ v \in UNION f[n])

\* What the service provider read, and what it is due of what is held.
Read(n, v) == \E a \in attributes : a.name = n /\ v \in a.values

Due(n, v) ==
  /\ \E l \in situation.held : l.name = n /\ v \in l.values
  /\ \A k \in DOMAIN situation.chain : Entitled(situation.chain[k], n, v, situation)

\* A service provider ends up with exactly the values the application holds that
\* every policy on the way entitles it to, under the names the application has
\* for them, and never with both subject identifiers when it asked for either;
\* the FriendlyNames of its requests change nothing unless a policy was told to
\* let them.  (A code of conduct also takes a wire name for a local one.)
ReleasedIsEntitled ==
  verdict = "delivered" =>
    LET s == situation
        names == {l.name : l \in s.held \union attributes}
        values == UNION {l.values : l \in s.held \union attributes}
        pairwise == \E l \in s.held : l.name = "pairwise-id"
    IN /\ \A n \in names, v \in values :
            /\ Read(n, v) => Due(n, v)
            /\ Due(n, v) => \/ Read(n, v)
                            \/ (n = "subject-id" /\ s.subjectReq = "any" /\ pairwise)
       /\ s.subjectReq = "any" /\ Len(s.chain) > 0 =>
            ~\E v, w \in values : Read("subject-id", v) /\ Read("pairwise-id", w)

\* The comment in filter on the names of what is required: "Extra wire-name keys
\* are harmless: they only match held attributes that genuinely carry that Name."
RequiredByWhatItIs ==
  verdict = "delivered" =>
    \A a \in attributes, k \in DOMAIN situation.chain :
      LET policy == situation.chain[k]
          rules == Knob(policy, situation.sp, "categories")
          isRequired == \E r \in situation.required :
                          AsksFor(policy, r, a.name) \/ r.name \in WireNames(a.name)
      IN rules # {} => \E set \in rules : EntitledByCategory(set, a.name, situation, isRequired)
=============================================================================
