------------------------------ MODULE Discovery ------------------------------
(***************************************************************************)
(* Identity provider discovery                                              *)
(* (crates/gamlastan/src/profiles/idp_discovery.rs): the common-domain       *)
(* cookie, which every identity provider reads, extends and writes back      *)
(* through the browser, and the discovery service, which answers a service  *)
(* provider at a place its metadata registers.                              *)
(*                                                                          *)
(* A URL is its base and its query, a sequence of parameters (<< >> when it *)
(* has none).  Names that break the grammar of parameters are Malformed.    *)
(***************************************************************************)
EXTENDS Integers, SequencesExt

CONSTANTS
  Absent,
  Idps,
  Malformed,
  DiscoveryRequests,   \* what service providers send to the discovery service
  Registered,          \* their DiscoveryResponse endpoints, a sequence
  MaxLogins,           \* bound: logins of the browser
  MaxRedirects         \* bound: answers of the discovery service

VARIABLES
  cookie,     \* the browser's cookie, a sequence of identity providers, or Absent
  visits,     \* logins under way: the identity provider and the cookie it was sent
  logins,     \* how many there were
  lastSet,    \* history: the identity provider whose cookie arrived last
  redirects   \* history: the answers, each with its request and the cookie sent along

discoveryVars == <<cookie, visits, logins, lastSet, redirects>>

DiscoveryInit ==
  cookie = Absent /\ visits = {} /\ logins = 0 /\ lastSet = Absent /\ redirects = << >>

-----------------------------------------------------------------------------
(* add_idp_to_cookie and most_recent_idp.                                   *)

Listed(value) == IF value = Absent THEN << >> ELSE value

AppendIfMissing(value, idp) ==
  IF Contains(Listed(value), idp) THEN Listed(value) ELSE Append(Listed(value), idp)

\* The elements of s other than e, in order.
Without(s, e) ==
  LET kept == {i \in DOMAIN s : s[i] # e}
      Place(i) == Cardinality({j \in kept : j <= i})
  IN [n \in 1..Cardinality(kept) |-> s[CHOOSE i \in kept : Place(i) = n]]

\* One that is there already moves to the end.
AddIdp(value, idp) == Append(Without(Listed(value), idp), idp)

MostRecent(value) == IF Listed(value) = << >> THEN Absent ELSE Last(value)

\* Two tabs may log in at once: each identity provider works on the cookie its
\* own request carried.
Visit(idp) ==
  /\ logins < MaxLogins /\ logins' = logins + 1
  /\ visits' = visits \union {[idp |-> idp, sent |-> cookie, number |-> logins]}
  /\ UNCHANGED <<cookie, lastSet, redirects>>

LoggedIn(v) ==
  /\ v \in visits /\ visits' = visits \ {v}
  /\ cookie' = AddIdp(v.sent, v.idp)
  /\ lastSet' = v.idp
  /\ UNCHANGED <<logins, redirects>>

-----------------------------------------------------------------------------
(* verify_return_url, default_discovery_response_endpoint, build_return_url  *)
(* and create_discovery_service_response.                                    *)

\* Everything but the query must match; a registered query is kept and may be
\* extended.
ReturnUrlOk(url) ==
  \E i \in DOMAIN Registered :
    /\ Registered[i].location.base = url.base
    /\ IsPrefix(Registered[i].location.query, url.query)

\* The first default, or the lowest index.
DefaultEndpoint ==
  LET candidates == {i \in DOMAIN Registered : Registered[i].isDefault}
      lowest == {i \in DOMAIN Registered :
                   \A j \in DOMAIN Registered : Registered[i].index <= Registered[j].index}
      First(is) == CHOOSE i \in is : \A j \in is : i <= j
  IN Registered[First(IF candidates # {} THEN candidates ELSE lowest)]

ReturnIdParam(q) == IF q.param = Absent THEN "entityID" ELSE q.param

\* What a request is answered with when the identity provider is chosen (Absent
\* leaves the parameter out), or Absent for an error.
AnswerUrl(q, chosen) ==
  LET url == IF q.returnUrl # Absent THEN q.returnUrl ELSE DefaultEndpoint.location
  IN IF \/ q.entity = Absent \/ ReturnIdParam(q) = Malformed
        \/ q.returnUrl # Absent /\ ~ReturnUrlOk(q.returnUrl)
        \/ q.returnUrl = Absent /\ Registered = << >>
     THEN Absent
     ELSE IF chosen = Absent THEN url
     ELSE [url EXCEPT !.query = Append(@, [name |-> ReturnIdParam(q), value |-> chosen])]

\* A passive request is answered from the cookie; otherwise the user chooses.
Redirect(q) ==
  /\ Len(redirects) < MaxRedirects
  /\ \E chosen \in IF q.passive THEN {MostRecent(cookie)} ELSE Idps :
       redirects' = Append(redirects,
         [request |-> q, url |-> AnswerUrl(q, chosen), chosen |-> chosen, last |-> lastSet])
  /\ UNCHANGED <<cookie, visits, logins, lastSet>>

DiscoveryNext ==
  \/ \E idp \in Idps : Visit(idp)
  \/ \E v \in visits : LoggedIn(v)
  \/ \E q \in DiscoveryRequests : Redirect(q)

DiscoverySpec == DiscoveryInit /\ [][DiscoveryNext]_discoveryVars

-----------------------------------------------------------------------------

\* What the service provider reads at the URL it is sent to: the first
\* parameter of the name it asked for.
Heard(r) ==
  LET named == {i \in DOMAIN r.url.query : r.url.query[i].name = ReturnIdParam(r.request)}
  IN IF named = {} THEN Absent
     ELSE r.url.query[CHOOSE i \in named : \A j \in named : i <= j].value

\* However logins in several tabs interleave, a service provider that asks
\* without the user being asked hears the identity provider whose login
\* completed last, at a place it registered, or hears of none; and it hears the
\* user's choice otherwise.  (Its own URL must not use the parameter's name.)
HeardIsLastUsed ==
  \A i \in DOMAIN redirects :
    LET r == redirects[i]
        own == IF r.request.returnUrl = Absent THEN DefaultEndpoint.location ELSE r.request.returnUrl
    IN r.url # Absent =>
         /\ \E k \in DOMAIN Registered :
              /\ Registered[k].location.base = r.url.base
              /\ IsPrefix(Registered[k].location.query, r.url.query)
         /\ (\A j \in DOMAIN own.query : own.query[j].name # ReturnIdParam(r.request)) =>
              Heard(r) = IF r.request.passive THEN r.last ELSE r.chosen
=============================================================================
