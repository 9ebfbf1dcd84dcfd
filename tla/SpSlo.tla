-------------------------------- MODULE SpSlo --------------------------------
(***************************************************************************)
(* Single logout at the service provider                                    *)
(* (crates/gamlastan-actix/src/sp.rs: sp_logout and sp_slo).  Logins and     *)
(* logouts share one request tracker; LogoutRequests of the IdP go through  *)
(* the logout replay cache.  Messages come from the trusted IdP, but copies  *)
(* of them arrive at any time and with any browser's cookie.  The            *)
(* application's callback runs asynchronously and may fail.                  *)
(***************************************************************************)
EXTENDS RequestTracker, LogoutFreshness, Sequences, TLC

CONSTANTS
  Messages,     \* IDs of the IdP's LogoutRequests
  NoCookie,     \* a delivery without the state cookie
  Life,         \* NotOnOrAfter - IssueInstant, as the IdP sets it
  MaxLead,      \* how far the IdP's clock may run ahead of the SP's
  MaxCalls      \* bound: callbacks begun

ASSUME SpSloAssumption ==
  /\ Life \in Nat /\ MaxLead \in Nat /\ MaxCalls \in Nat
  /\ NoCookie \notin Browsers

VARIABLES
  entries, nextExpiry, uses,  \* the logout replay cache and its history
  logouts,                    \* history: tracked IDs that are LogoutRequests'
  misspent,                   \* history: logouts whose ID sp_acs consumed, and where
  requests, responses,        \* the IdP's messages in circulation
  running,                    \* callbacks in flight, by their number
  calls                       \* history: the callbacks begun

vars == <<now, ids, sent, spent, entries, nextExpiry, uses, logouts, misspent,
          requests, responses, running, calls>>

\* One clock stands for the monotonic one and the wall clock.
Replay == INSTANCE ReplayCache WITH clock <- now, Ids <- Messages

tracked == <<ids, sent, spent>>
cacheVars == <<entries, nextExpiry, uses>>

Cookie == Browsers \union {NoCookie}

\* One issuer is trusted, so the issuer's part of the replay key is constant.
Request == [id : Messages, issued : 0..(MaxTime + MaxLead),
            until : 0..(MaxTime + MaxLead + Life) \union {Never}]
Response == [irt : RequestIds, success : BOOLEAN]

\* SpLogoutEvent
Call == [event : {"idp_initiated"}, id : Messages, browser : Cookie]
          \union [event : {"sp_complete"}, id : RequestIds, browser : Browsers]

TypeOK ==
  /\ TrackerTypeOK /\ CapacityBound /\ Replay!ReplayTypeOK
  /\ logouts \subseteq DOMAIN sent
  /\ misspent \subseteq [id : RequestIds, browser : Browsers]
  /\ requests \subseteq Request /\ responses \subseteq Response
  /\ calls \in Seq(Call)
  /\ running \subseteq DOMAIN calls

Init ==
  /\ TrackerInit /\ Replay!ReplayInit
  /\ logouts = {} /\ misspent = {}
  /\ requests = {} /\ responses = {}
  /\ running = {}
  /\ calls = << >>

-----------------------------------------------------------------------------
(* The browsers, the IdP and time.                                          *)

\* sp_login and sp_logout draw a fresh ID and remember it for the browser.
SpLogin(b) ==
  /\ \E i \in RequestIds \ DOMAIN sent : StoreBound(i, b)
  /\ UNCHANGED <<cacheVars, logouts, misspent, requests, responses, running, calls>>

SpLogout(b) ==
  /\ \E i \in RequestIds \ DOMAIN sent :
       /\ StoreBound(i, b)
       /\ logouts' = logouts \union {i}
  /\ UNCHANGED <<cacheVars, misspent, requests, responses, running, calls>>

\* sp_acs consumes whatever ID its Response names, a logout's included, before
\* it validates the Response; its validation is SpAcs.
SpAcsConsumes(b) ==
  /\ \E i \in DOMAIN sent :
       \/ /\ ConsumeOk(i, b)
          /\ misspent' = misspent \union {[id |-> k, browser |-> b] : k \in {i} \intersect logouts}
       \/ ConsumeFails(i, b) /\ UNCHANGED misspent
  /\ UNCHANGED <<cacheVars, logouts, requests, responses, running, calls>>

IdpRequests ==
  /\ \E m \in Messages, lead \in 0..MaxLead, bounded \in BOOLEAN :
       /\ m \notin {r.id : r \in requests}
       /\ requests' = requests \union
            {[id |-> m, issued |-> now + lead,
              until |-> IF bounded THEN now + lead + Life ELSE Never]}
  /\ UNCHANGED <<now, tracked, cacheVars, logouts, misspent, responses, running, calls>>

IdpResponds ==
  /\ \E i \in DOMAIN sent, ok \in BOOLEAN :
       responses' = responses \union {[irt |-> i, success |-> ok]}
  /\ UNCHANGED <<now, tracked, cacheVars, logouts, misspent, requests, running, calls>>

Elapse ==
  /\ Tick
  /\ UNCHANGED <<cacheVars, logouts, misspent, requests, responses, running, calls>>

-----------------------------------------------------------------------------
(* sp_slo.  Signature, issuer and Destination have been verified.           *)

\* The application's callback begins.
Begin(call) ==
  /\ Len(calls) < MaxCalls
  /\ calls' = Append(calls, call)
  /\ running' = running \union {Len(calls) + 1}

\* A LogoutRequest: its window and its ID are checked, then the callback runs.
\* One reading of the clock; see IdpSlo for what two readings do.
ReceiveRequest(r, c) ==
  /\ \/ /\ InWindow(r, now)
        /\ Replay!Accept(r.id, Expiry(r))
        /\ Begin([event |-> "idp_initiated", id |-> r.id, browser |-> c])
     \/ /\ InWindow(r, now)
        /\ Replay!Refuse(r.id)
        /\ UNCHANGED <<running, calls>>
  /\ UNCHANGED <<tracked, logouts, misspent, requests, responses>>

\* A LogoutResponse that passes the status check consumes its InResponseTo.
AnyStatus(m) == TRUE
Concludes(m) == m.success

ReceiveResponse(m, b) ==
  /\ Concludes(m)
  /\ \/ /\ ConsumeOk(m.irt, b)
        /\ IF m.success
           THEN Begin([event |-> "sp_complete", id |-> m.irt, browser |-> b])
           ELSE UNCHANGED <<running, calls>>
     \/ /\ ConsumeFails(m.irt, b)
        /\ UNCHANGED <<running, calls>>
  /\ UNCHANGED <<cacheVars, logouts, misspent, requests, responses>>

\* The callback returns; whether it failed or not, what was consumed stays so.
ForgottenAgain(n) ==
  [i \in DOMAIN entries \ (IF calls[n].event = "idp_initiated" THEN {calls[n].id} ELSE {})
     |-> entries[i]]
StillRemembered(n) == entries

CallbackReturns(n) ==
  /\ running' = running \ {n}
  /\ entries' = StillRemembered(n)
  /\ UNCHANGED <<now, tracked, nextExpiry, uses, logouts, misspent, requests, responses, calls>>

Next ==
  \/ \E b \in Browsers : SpLogin(b) \/ SpLogout(b) \/ SpAcsConsumes(b)
  \/ IdpRequests \/ IdpResponds \/ Elapse
  \/ \E r \in requests, c \in Cookie : ReceiveRequest(r, c)
  \/ \E m \in responses, b \in Browsers : ReceiveResponse(m, b)
  \/ \E n \in running : CallbackReturns(n)

Spec == Init /\ [][Next]_vars

-----------------------------------------------------------------------------

\* A LogoutResponse ends a local session only in the browser that sent the
\* request it answers, whoever delivers it and whether that was a logout or,
\* since they share the tracker, a login.
CompletedByAsker ==
  \A n \in DOMAIN calls :
    calls[n].event = "sp_complete" =>
      /\ calls[n].id \in DOMAIN sent
      /\ sent[calls[n].id].browser = calls[n].browser

\* No message reaches the application twice, however many copies arrive, not
\* even when the callback it first reached failed ("without making the same
\* authenticated SLO message reusable").
MessageUsedOnce ==
  \A j, k \in DOMAIN calls :
    calls[j].event = calls[k].event /\ calls[j].id = calls[k].id => j = k

\* A logout stays open to be concluded for as long as its request is fresh: no
\* refused or misdirected LogoutResponse, and nothing that another browser
\* delivers to either endpoint, loses it.  What does is a flood of as many newer
\* requests as the tracker holds, or a Response that names it at the assertion
\* consumer service, in the browser that asked for the logout.
OpenUntilConcluded ==
  \A i \in logouts :
    Alive(sent[i], now) =>
      \/ i \in DOMAIN ids
      \/ \E n \in DOMAIN calls : calls[n].event = "sp_complete" /\ calls[n].id = i
      \/ [id |-> i, browser |-> sent[i].browser] \in misspent
      \/ FloodedOut(i)

\* For TLC: none of these is told apart from its like.
Symmetry == Permutations(RequestIds) \union Permutations(Browsers) \union Permutations(Messages)
=============================================================================
