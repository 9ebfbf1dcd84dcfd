------------------------------- MODULE SpAcs -------------------------------
(***************************************************************************)
(* Web-browser SSO at the service provider                                  *)
(* (crates/gamlastan-actix/src/sp.rs: sp_login, sp_acs, with               *)
(* crates/gamlastan/src/profiles/sso/sp.rs and                              *)
(* crates/gamlastan/src/security/validation.rs).  Handlers run in parallel  *)
(* over one request tracker and one replay cache; time passes between the   *)
(* steps of a handler.  Responses come from the trusted IdP, but anybody may *)
(* deliver a copy of one, at any time, any number of times and with any      *)
(* browser's cookie.                                                         *)
(***************************************************************************)
EXTENDS ReplayCache, TLC

CONSTANTS
  RequestIds, Browsers, Unbound, Ttl, MaxEntries,  \* the request tracker
  Handlers,          \* ACS handlers in flight
  NoRequest,         \* a response without InResponseTo, or no match for it
  NoCookie,          \* a delivery without the state cookie
  AllowUnsolicited,  \* SecurityConfig.allow_unsolicited_responses
  Skew,              \* SecurityConfig.clock_skew_seconds
  MaxAge,            \* SecurityConfig.max_assertion_age_seconds
  MaxLead,           \* how far the IdP's clock may run ahead of the SP's
  Life,              \* NotOnOrAfter - IssueInstant, as the IdP sets it
  MaxPerResponse,    \* bound: assertions per response
  MaxResponses,      \* bound: responses the IdP sends
  PromptValidation   \* no time passes between the stamp and the replay check

ASSUME SpAcsAssumption ==
  /\ AllowUnsolicited \in BOOLEAN /\ PromptValidation \in BOOLEAN
  /\ Skew \in Nat /\ MaxAge \in Nat /\ Life \in Nat /\ MaxLead \in Nat
  /\ MaxPerResponse \in Nat /\ MaxResponses \in Nat
  /\ NoRequest \notin RequestIds /\ NoCookie \notin Browsers

VARIABLES
  ids, sent, spent,  \* the request tracker and its history
  issued,            \* issued[a]: when the IdP issued the assertion
  responses,         \* responses in circulation
  pc, job,           \* the handlers
  logins             \* history: the logins handed to the ACS callback

vars == <<clock, ids, sent, spent, entries, nextExpiry, uses, issued, responses,
          pc, job, logins>>

Assertions == Ids

\* One clock stands for the monotonic one and the wall clock.
Tracker == INSTANCE RequestTracker WITH now <- clock

trackerVars == <<ids, sent, spent>>
cacheVars == <<entries, nextExpiry, uses>>

Response == [irt : RequestIds \union {NoRequest}, assertions : SUBSET Assertions,
             success : BOOLEAN]

NoJob == [response |-> [irt |-> NoRequest, assertions |-> {}, success |-> FALSE],
          cookie |-> NoCookie, expected |-> NoRequest, stamp |-> 0,
          todo |-> {}, valid |-> TRUE]

TypeOK ==
  /\ Tracker!TrackerTypeOK /\ ReplayTypeOK
  /\ DOMAIN issued \subseteq Assertions
  /\ \A a \in DOMAIN issued : issued[a] \in 0..(MaxTime + MaxLead)
  /\ responses \subseteq Response
  /\ pc \in [Handlers -> {"idle", "correlate", "stamp", "validate"}]
  /\ job \in [Handlers -> [response : Response, cookie : Browsers \union {NoCookie},
                           expected : RequestIds \union {NoRequest}, stamp : 0..MaxTime,
                           todo : SUBSET Assertions, valid : BOOLEAN]]

Init ==
  /\ Tracker!TrackerInit /\ ReplayInit
  /\ issued = << >>
  /\ responses = {}
  /\ pc = [h \in Handlers |-> "idle"]
  /\ job = [h \in Handlers |-> NoJob]
  /\ logins = {}

-----------------------------------------------------------------------------
(* sp_login, and the IdP's answers.                                         *)

\* The AuthnRequest ID is tracked before the redirect is encoded, so it stays
\* tracked when encoding or the browser fails.
SpLogin(b) ==
  /\ \E i \in RequestIds \ DOMAIN sent : Tracker!StoreBound(i, b)
  /\ UNCHANGED <<cacheVars, issued, responses, pc, job, logins>>

IdpRespond ==
  /\ Cardinality(responses) < MaxResponses
  /\ \E i \in DOMAIN sent \union {NoRequest}, as \in SUBSET Assertions, ok \in BOOLEAN,
        lead \in 0..MaxLead :
       /\ Cardinality(as) <= MaxPerResponse
       /\ (as = {}) <=> ~ok
       /\ as \intersect DOMAIN issued = {}
       /\ responses' = responses \union {[irt |-> i, assertions |-> as, success |-> ok]}
       /\ issued' = [a \in DOMAIN issued \union as |->
                       IF a \in as THEN clock + lead ELSE issued[a]]
  /\ UNCHANGED <<clock, trackerVars, cacheVars, pc, job, logins>>

-----------------------------------------------------------------------------
(* sp_acs.                                                                  *)

\* The response has been parsed and its signatures verified.
Deliver(h) ==
  /\ pc[h] = "idle"
  /\ \E m \in responses, c \in Browsers \union {NoCookie} :
       job' = [job EXCEPT ![h] = [NoJob EXCEPT !.response = m, !.cookie = c,
                                               !.todo = m.assertions]]
  /\ pc' = [pc EXCEPT ![h] = "correlate"]
  /\ UNCHANGED <<clock, trackerVars, cacheVars, issued, responses, logins>>

\* InResponseTo is consumed in the tracker, for the browser of the cookie,
\* before anything is validated.
Correlate(h) ==
  LET irt == job[h].response.irt
      cookie == job[h].cookie
  IN /\ pc[h] = "correlate"
     /\ pc' = [pc EXCEPT ![h] = "stamp"]
     /\ \/ /\ irt = NoRequest \/ cookie = NoCookie
           /\ UNCHANGED <<clock, trackerVars, job>>
        \/ /\ irt # NoRequest /\ cookie # NoCookie
           /\ Tracker!ConsumeOk(irt, cookie)
           /\ job' = [job EXCEPT ![h].expected = irt]
        \/ /\ irt # NoRequest /\ cookie # NoCookie
           /\ Tracker!ConsumeFails(irt, cookie)
           /\ UNCHANGED job
     /\ UNCHANGED <<cacheVars, issued, responses, logins>>

\* The handler reads the clock once; every time check of the validator uses
\* this reading.  A failed status, or an unsolicited response where none is
\* allowed, returns before the validator runs.
Stamp(h) ==
  LET m == job[h].response
      proceeds == m.success /\ (m.irt # NoRequest \/ AllowUnsolicited)
  IN /\ pc[h] = "stamp"
     /\ pc' = [pc EXCEPT ![h] = IF proceeds THEN "validate" ELSE "idle"]
     /\ job' = [job EXCEPT ![h] = IF proceeds THEN [@ EXCEPT !.stamp = clock] ELSE NoJob]
     /\ UNCHANGED <<clock, trackerVars, cacheVars, issued, responses, logins>>

\* Checks 10 and 35 on the reading t: the Conditions window and the age limit.
InWindow(a, t) ==
  /\ t < issued[a] + Life + Skew
  /\ issued[a] <= t + Skew
  /\ t <= issued[a] + MaxAge

\* How long the replay cache remembers the ID: as long as the checks above can
\* accept the assertion.
Lesser(x, y) == IF x < y THEN x ELSE y

ReplayExpiryNoSkew(a, t) == Lesser(issued[a] + Life, issued[a] + MaxAge + 1)
ReplayExpiry(a, t) ==
  Lesser(issued[a] + Life + Skew, Lesser(issued[a], t + Skew) + MaxAge + 1)

\* Checks 3 and 17: InResponseTo of the response and of the confirmation.
InResponseToOk(h) ==
  IF job[h].response.irt = NoRequest THEN AllowUnsolicited
  ELSE job[h].expected = job[h].response.irt

\* The handler ends; a valid response becomes a login.
Finish(h, valid) ==
  /\ pc' = [pc EXCEPT ![h] = "idle"]
  /\ job' = [job EXCEPT ![h] = NoJob]
  /\ logins' = IF valid
               THEN logins \union {[number |-> Cardinality(logins) + 1,
                                    browser |-> job[h].cookie,
                                    request |-> job[h].response.irt,
                                    assertions |-> job[h].response.assertions]}
               ELSE logins

\* One assertion of the response: all its checks are evaluated, and its ID goes
\* into the replay cache whatever the other checks say.
Validate(h) ==
  /\ pc[h] = "validate"
  /\ \E a \in job[h].todo :
       LET rest == job[h].todo \ {a}
           Conclude(fresh) ==
             LET valid == /\ job[h].valid /\ fresh
                          /\ InWindow(a, job[h].stamp) /\ InResponseToOk(h)
             IN IF rest = {} THEN Finish(h, valid)
                ELSE /\ job' = [job EXCEPT ![h].todo = rest, ![h].valid = valid]
                     /\ UNCHANGED <<pc, logins>>
       IN \/ Accept(a, ReplayExpiry(a, job[h].stamp)) /\ Conclude(TRUE)
          \/ Refuse(a) /\ Conclude(FALSE)
  /\ UNCHANGED <<trackerVars, issued, responses>>

Elapse ==
  /\ clock < MaxTime
  /\ clock' = clock + 1
  /\ PromptValidation => \A h \in Handlers : pc[h] # "validate"
  /\ UNCHANGED <<trackerVars, cacheVars, issued, responses, pc, job, logins>>

\* The application sweeps the replay cache.
Sweep ==
  /\ Cleanup
  /\ UNCHANGED <<trackerVars, issued, responses, pc, job, logins>>

Next ==
  \/ \E b \in Browsers : SpLogin(b)
  \/ IdpRespond \/ Sweep
  \/ \E h \in Handlers : Deliver(h) \/ Correlate(h) \/ Stamp(h) \/ Validate(h)
  \/ Elapse

Spec == Init /\ [][Next]_vars

-----------------------------------------------------------------------------

\* A login that answers a request belongs to the browser that sent the request,
\* whoever delivered the response and with whichever handlers in between.
LoginBoundToBrowser ==
  \A l \in logins :
    l.request # NoRequest =>
      l.request \in DOMAIN sent /\ sent[l.request].browser = l.browser

\* One request opens at most one login, however many responses answer it and
\* however many copies of them arrive at once.
OneLoginPerRequest ==
  \A k, l \in logins :
    k.request # NoRequest /\ k.request = l.request => k = l

\* An assertion logs somebody in at most once ("SAML Web SSO requires assertion
\* IDs to be single-use within their validity window").
AssertionSingleUse ==
  \A k, l \in logins : k.assertions \intersect l.assertions # {} => k = l

\* For TLC.
Symmetry ==
  Permutations(RequestIds) \union Permutations(Browsers)
    \union Permutations(Assertions) \union Permutations(Handlers)
=============================================================================
