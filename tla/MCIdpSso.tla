------------------------------ MODULE MCIdpSso ------------------------------
(* Small instances of the IdP's SSO for TLC.                                 *)
EXTENDS IdpSso, TLC

CONSTANTS pwd, mfa, h1

Method1(class, level) == [class |-> class, level |-> level]

\* No registration; one class each; a class registered twice, one of its methods
\* as strong as the other class's.
BrokerChoice ==
  {[methods |-> << >>, exactByLevel |-> FALSE],
   [methods |-> <<Method1(Unspecified, 0), Method1(mfa, 2), Method1(pwd, 1)>>,
    exactByLevel |-> FALSE],
   [methods |-> <<Method1(pwd, 2), Method1(mfa, 2), Method1(pwd, 1)>>, exactByLevel |-> TRUE]}

Alternatives(comparison, refs) == [comparison |-> comparison, refs |-> refs]

Contexts ==
  {NoContext, Declaration, Alternatives("exact", {pwd}), Alternatives("minimum", {mfa}),
   Alternatives("minimum", {pwd, mfa}), Alternatives("maximum", {pwd}),
   Alternatives("better", {pwd})}

Plain == [force |-> FALSE, passive |-> FALSE, context |-> NoContext,
          attributes |-> "met", name |-> "default"]

\* h1 is asked for everything; h2 leaves it a session and a name to find.
RequestChoice ==
  [h \in Handlers |->
     {[Plain EXCEPT !.name = "persistent"]} \union
     IF h # h1 THEN {}
     ELSE {[Plain EXCEPT !.force = q[1], !.passive = q[2], !.context = c] :
             q \in (BOOLEAN \X BOOLEAN) \ {<<TRUE, TRUE>>}, c \in Contexts}
          \union {[Plain EXCEPT !.name = "existing"], [Plain EXCEPT !.name = "refused"],
                  [Plain EXCEPT !.attributes = "missing", !.name = "persistent"],
                  [Plain EXCEPT !.attributes = "unknownService", !.name = "persistent"]}]

\* An inline method and two registrations; with no registration they are stale.
MethodChoice ==
  {[ref |-> 0, class |-> mfa]} \union {[ref |-> k, class |-> Unspecified] : k \in {1, 2}}

Symmetry == Permutations(Users)
=============================================================================
