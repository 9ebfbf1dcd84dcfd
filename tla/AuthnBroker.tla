----------------------------- MODULE AuthnBroker -----------------------------
(***************************************************************************)
(* Matching a RequestedAuthnContext with the registered authentication      *)
(* methods (crates/gamlastan/src/idp/authn_broker.rs).  A broker is the     *)
(* sequence of its registrations, each a class ref and a level, and the     *)
(* switch that lets "exact" match by level; a method is known by its place.  *)
(* The order of the result is a preference only, so it is a set.             *)
(***************************************************************************)
EXTENDS Naturals, Sequences

CONSTANTS
  Classes,      \* AuthnContext class refs
  Unspecified   \* the "unspecified" class ref

ASSUME BrokerAssumption == Unspecified \in Classes

Comparisons == {"exact", "minimum", "maximum", "better"}

\* What an AuthnRequest asks for: nothing, a declaration, or one of some classes.
NoContext == [comparison |-> "none", refs |-> {}]
Declaration == [comparison |-> "declaration", refs |-> {}]
Context ==
  {NoContext, Declaration} \union [comparison : Comparisons, refs : SUBSET Classes \ {{}}]

Satisfies(comparison, base, level) ==
  \/ comparison = "exact" /\ level = base
  \/ comparison = "minimum" /\ level >= base
  \/ comparison = "maximum" /\ level <= base
  \/ comparison = "better" /\ level > base

OfClass(broker, class) ==
  {k \in DOMAIN broker.methods : broker.methods[k].class = class}

\* The level other classes are compared with: the first registration's, moved on
\* by every later one that satisfies the comparison.
Seed(broker, class, comparison) ==
  LET same == OfClass(broker, class)
      level(k) == broker.methods[k].level
  IN IF comparison = "exact"
     THEN level(CHOOSE k \in same : \A j \in same : k <= j)
     ELSE CHOOSE l \in {level(k) : k \in same} :
            \A k \in same : level(k) # l => ~Satisfies(comparison, l, level(k))

PickByClass(broker, class, comparison) ==
  LET same == OfClass(broker, class)
  IN {k \in DOMAIN broker.methods :
        \/ k \in same /\ comparison # "better"
        \/ /\ k \notin same /\ same # {}
           /\ comparison = "exact" => broker.exactByLevel
           /\ Satisfies(comparison, Seed(broker, class, comparison), broker.methods[k].level)}

\* pick: the refs of a request are alternatives; without a request everything is
\* measured against "unspecified", or nothing is when that is not registered.
Pick(broker, context) ==
  IF context = NoContext
  THEN LET baseline == PickByClass(broker, Unspecified, "minimum")
       IN IF baseline = {} THEN DOMAIN broker.methods ELSE baseline
  ELSE UNION {PickByClass(broker, c, context.comparison) : c \in context.refs}

\* class_ref_satisfies: whether a response of this class answers the request.
ClassSatisfiesLiterally(broker, context, class) ==
  \/ context = NoContext
  \/ IF context.comparison = "exact" THEN class \in context.refs
     ELSE class \in {broker.methods[k].class : k \in Pick(broker, context)}
ClassSatisfies(broker, context, class) ==
  \/ context = NoContext
  \/ context.comparison = "exact" /\ class \in context.refs
  \/ class \in {broker.methods[k].class : k \in Pick(broker, context)}
=============================================================================
