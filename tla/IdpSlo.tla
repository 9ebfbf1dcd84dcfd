------------------------------- MODULE IdpSlo -------------------------------
(***************************************************************************)
(* Single logout at the identity provider                                   *)
(* (crates/gamlastan-actix/src/idp.rs: idp_slo, with                        *)
(* crates/gamlastan/src/profiles/logout.rs).  Handlers run in parallel over *)
(* the session store and the logout replay cache, while the application     *)
(* creates, joins and drops sessions.  A LogoutRequest may be delivered any  *)
(* number of times.  A handler that answers with an error before the replay *)
(* check, and one that receives a LogoutResponse, changes nothing.          *)
(***************************************************************************)
EXTENDS SessionStore, LogoutFreshness, Sequences, TLC

CONSTANTS
  RequestIds,   \* LogoutRequest IDs; two SPs may choose the same
  IndexLists,   \* the session indexes that a request may name
  Ends,         \* when a session may expire; Unlimited: never
  Faults,       \* what a request may lack, see AllFaults
  Handlers,     \* SLO handlers in flight
  Life,         \* NotOnOrAfter - IssueInstant
  MaxLead,      \* how far an SP's clock may run ahead of the IdP's
  MaxRequests,  \* bound: LogoutRequests sent
  MaxEvents,    \* bound: LogoutRequests sent and participants added, together
  StoreFails,   \* the session store may fail, or lacks atomic removal
  Prompt        \* no time passes between reading the clock and the replay check

\* What keeps a request from being honoured, if anything: its issuer is unknown
\* or absent, its Destination is another's, it bears no valid signature of its
\* issuer, or its identifier is encrypted.
AllFaults == {"none", "issuer", "destination", "signature", "encrypted"}

ASSUME IdpSloAssumption ==
  /\ IndexLists \subseteq SUBSET Indexes /\ Ends \subseteq Nat \union {Unlimited}
  /\ Faults \subseteq AllFaults
  /\ Life \in Nat /\ MaxLead \in Nat /\ MaxRequests \in Nat /\ MaxEvents \in Nat
  /\ StoreFails \in BOOLEAN /\ Prompt \in BOOLEAN

VARIABLES
  entries, nextExpiry, uses,  \* the logout replay cache and its history
  requests,                   \* LogoutRequests in circulation
  pc, job,                    \* the handlers
  refused,                    \* history: requests refused as replays
  answers                     \* history: the logouts answered Success

vars == <<sessions, joins, clock, entries, nextExpiry, uses, requests, pc, job,
          refused, answers>>

\* Replay keys: IDs scoped by the authenticated issuer.
Keys == Entities \X RequestIds

Replay == INSTANCE ReplayCache WITH Ids <- Keys

replayVars == <<entries, nextExpiry, uses>>

Request == [issuer : Entities, id : RequestIds, name : NameId, indexes : SUBSET Indexes,
            issued : 0..(MaxTime + MaxLead),
            until : 0..(MaxTime + MaxLead + Life) \union {Never}, fault : Faults]

\* found: the participations the request matched when it was accepted.
Found == [index : Indexes, joined : 1..MaxJoins]
Job == [request : Request, now : 0..MaxTime, found : SUBSET Found]
\* ended: of each session that was removed, its participants.
Answer == [request : Request, found : SUBSET Found, ended : SUBSET SUBSET Participant]

TypeOK ==
  /\ StoreTypeOK /\ Replay!ReplayTypeOK
  /\ requests \subseteq Request
  /\ pc \in [Handlers -> {"idle", "stamped", "accepted"}]
  /\ DOMAIN job = {h \in Handlers : pc[h] # "idle"}
  /\ \A h \in DOMAIN job : job[h] \in Job
  /\ refused \subseteq Keys
  /\ answers \in Seq(Answer)

Init ==
  /\ StoreInit /\ Replay!ReplayInit
  /\ requests = {}
  /\ pc = [h \in Handlers |-> "idle"]
  /\ job = << >>
  /\ refused = {}
  /\ answers = << >>

Finish(h) ==
  /\ pc' = [pc EXCEPT ![h] = "idle"]
  /\ job' = [k \in DOMAIN job \ {h} |-> job[k]]

-----------------------------------------------------------------------------
(* The application and the service providers.                               *)

\* The application opens, joins and closes sessions as it likes.
Manage ==
  /\ \/ \E i \in Indexes, e \in Ends : CreateSession(i, e)
     \/ /\ joins + Cardinality(requests) < MaxEvents
        /\ \E i \in Indexes, s \in Entities, n \in NameId :
             AddParticipant(i, s, n, {i})
     \/ \E i \in DOMAIN sessions, s \in Entities : RemoveParticipant(i, s)
     \/ \E i \in DOMAIN sessions : DestroySession(i)
     \/ CleanupExpired
  /\ UNCHANGED <<replayVars, requests, pc, job, refused, answers>>

\* An SP uses an ID for one request of its own; anybody may send a faulty one.
SendRequest ==
  /\ Cardinality(requests) < MaxRequests /\ joins + Cardinality(requests) < MaxEvents
  /\ \E s \in Entities, i \in RequestIds, n \in NameId, is \in IndexLists,
        lead \in 0..MaxLead, bounded \in BOOLEAN, f \in Faults :
       /\ \A r \in requests : <<r.issuer, r.id>> # <<s, i>>
       /\ requests' = requests \union
            {[issuer |-> s, id |-> i, name |-> n, indexes |-> is, issued |-> clock + lead,
              until |-> IF bounded THEN clock + lead + Life ELSE Never, fault |-> f]}
  /\ UNCHANGED <<storeVars, replayVars, pc, job, refused, answers>>

Elapse ==
  /\ Replay!Advance
  /\ UNCHANGED <<sessions, joins, requests, pc, job, refused, answers>>

-----------------------------------------------------------------------------
(* idp_slo.                                                                 *)

\* authorize_slo_request and ready_idp_logout_name_id; nothing is reserved yet.
Authorized(r) == r.fault = "none"

\* An authorized request; the handler reads the clock.
Authorize(h, r) ==
  /\ pc[h] = "idle"
  /\ Authorized(r)
  /\ pc' = [pc EXCEPT ![h] = "stamped"]
  /\ job' = [k \in DOMAIN job \union {h} |->
               IF k = h THEN [request |-> r, now |-> clock, found |-> {}] ELSE job[k]]
  /\ UNCHANGED <<storeVars, replayVars, requests, refused, answers>>

IdAlone(r) == <<CHOOSE s \in Entities : TRUE, r.id>>
Key(r) == <<r.issuer, r.id>>

\* The participations the request names, for the properties.
Names(r, p) ==
  /\ p.entity = r.issuer /\ Canonical(p.name) = Canonical(r.name)
  /\ r.indexes = {} \/ r.indexes \intersect p.indexes # {}

Named(r) ==
  UNION {{[index |-> i, joined |-> p.joined] :
             p \in {q \in sessions[i].participants : Names(r, q)}} : i \in DOMAIN sessions}

\* validate_logout_request_with_replay.
CheckReplay(h) ==
  LET r == job[h].request
  IN /\ pc[h] = "stamped"
     /\ Prompt => clock = job[h].now
     /\ \/ /\ ~InWindow(r, job[h].now)
           /\ Finish(h)
           /\ UNCHANGED <<clock, replayVars, refused>>
        \/ /\ InWindow(r, job[h].now)
           /\ Replay!Accept(Key(r), Expiry(r))
           /\ pc' = [pc EXCEPT ![h] = "accepted"]
           /\ job' = [job EXCEPT ![h].found = Named(r)]
           /\ UNCHANGED refused
        \/ /\ InWindow(r, job[h].now)
           /\ Replay!Refuse(Key(r))
           /\ Finish(h)
           /\ refused' = refused \union {<<r.issuer, r.id>>}
     /\ UNCHANGED <<sessions, joins, requests, answers>>

\* The sessions the handler removes: those that match now.
DoomedThen(h) == {x.index : x \in job[h].found} \intersect DOMAIN sessions
Doomed(h) == SessionsFor(job[h].request.issuer, job[h].request.name, job[h].request.indexes)

\* take_sessions_for_participant, and the Success answer.  The propagation
\* requests built for the other participants are dropped.
Take(h) ==
  LET r == job[h].request
      ended == {sessions[i].participants : i \in Doomed(h)}
  IN /\ pc[h] = "accepted"
     /\ Keep(DOMAIN sessions \ Doomed(h))
     /\ answers' = Append(answers,
          [request |-> r, found |-> job[h].found, ended |-> ended])
     /\ Finish(h)
     /\ UNCHANGED <<joins, clock, replayVars, requests, refused>>

\* The store fails; the request stays spent.
TakeFails(h) ==
  /\ StoreFails
  /\ pc[h] = "accepted"
  /\ Finish(h)
  /\ UNCHANGED <<storeVars, replayVars, requests, refused, answers>>

Next ==
  \/ Manage \/ SendRequest \/ Elapse
  \/ \E h \in Handlers :
       \/ \E r \in requests : Authorize(h, r)
       \/ CheckReplay(h) \/ Take(h) \/ TakeFails(h)

Spec == Init /\ [][Next]_vars

Symmetry == Permutations(Entities) \union Permutations(Indexes) \union Permutations(Handlers)

-----------------------------------------------------------------------------

\* After Success, nothing is left of what the request named when it was
\* accepted, whatever the application did to those sessions in between and
\* however the NameID's Format was spelled.
LogoutIsComplete ==
  \A k \in DOMAIN answers : \A i \in DOMAIN sessions : \A p \in sessions[i].participants :
    p.joined \notin {x.joined : x \in answers[k].found}

\* Each session that a logout ends is one its requester took part in, under the
\* NameID it presented and an index it named, at the moment the session ends,
\* whatever else ends with it; and its request was authenticated.
LogoutIsAuthorized ==
  \A k \in DOMAIN answers :
    /\ answers[k].request.fault = "none"
    /\ \A session \in answers[k].ended : \E p \in session : Names(answers[k].request, p)

\* A copy of a LogoutRequest does not log out a second time, so it cannot end a
\* session begun after the logout; and a request is refused as a replay only if
\* the same SP's was accepted before: no peer spends another's request IDs.
ReplaysAreRefused ==
  /\ \A j, k \in DOMAIN answers :
       Key(answers[j].request) = Key(answers[k].request) => j = k
  /\ refused \subseteq DOMAIN uses

\* "The SessionStore tracks who needs logout": participants that were not told
\* of the logout are still found in the store.
StoreKnowsWhoIsLeft ==
  \A k \in DOMAIN answers : \A p \in UNION answers[k].ended :
    p.entity # answers[k].request.issuer =>
      \E i \in DOMAIN sessions : p \in sessions[i].participants
=============================================================================
