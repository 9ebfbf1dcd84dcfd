---------------------------- MODULE SessionStore ----------------------------
(***************************************************************************)
(* The IdP's in-memory session store                                        *)
(* (crates/gamlastan/src/profiles/session.rs).  Every operation is one      *)
(* critical section.  A session keeps its participants and its expiry; the  *)
(* principal's own NameID and the SLO endpoints are carried along only.     *)
(***************************************************************************)
EXTENDS Naturals, FiniteSets

CONSTANTS
  Indexes,      \* session indexes
  Entities,     \* entity IDs of the service providers
  NameValues,   \* what a NameID holds besides its Format
  Formats,      \* the Formats a NameID may spell out
  NoFormat,     \* a NameID without Format
  Unspecified,  \* the "unspecified" Format, one of Formats
  Unlimited,    \* a session without SessionNotOnOrAfter
  MaxJoins,     \* bound: participants ever added
  MaxTime       \* bound of the clock

ASSUME SessionStoreAssumption ==
  /\ MaxJoins \in Nat /\ MaxTime \in Nat /\ Unlimited \notin Nat
  /\ Unspecified \in Formats /\ NoFormat \notin Formats

VARIABLES
  sessions,  \* the live sessions, by session index
  joins,     \* history: number of participants ever added
  clock      \* the wall clock

storeVars == <<sessions, joins, clock>>

NameId == [value : NameValues, format : Formats \union {NoFormat}]

\* joined tells participants apart that are equal otherwise.
Participant == [entity : Entities, name : NameId, indexes : SUBSET Indexes,
                joined : 1..MaxJoins]
Session == [participants : SUBSET Participant, expires : Nat \union {Unlimited}]

StoreTypeOK ==
  /\ DOMAIN sessions \subseteq Indexes
  /\ \A i \in DOMAIN sessions : sessions[i] \in Session
  /\ joins \in 0..MaxJoins
  /\ clock \in 0..MaxTime

StoreInit ==
  /\ sessions = << >>
  /\ joins = 0
  /\ clock = 0

\* An omitted Format means "unspecified".
Canonical(name) ==
  IF name.format = NoFormat THEN [name EXCEPT !.format = Unspecified] ELSE name

SpelledAlike(p, name) == p.name = name
SameName(p, name) == Canonical(p.name) = Canonical(name)

\* participant_matches
Matches(p, entity, name, indexes) ==
  /\ p.entity = entity
  /\ SameName(p, name)
  /\ indexes = {} \/ indexes \intersect p.indexes # {}

\* get_sessions_for_participant, as session indexes.
SessionsOfSubject(entity, name, indexes) ==
  {i \in DOMAIN sessions :
     \E p \in sessions[i].participants : p.entity = entity /\ SameName(p, name)}

SessionsFor(entity, name, indexes) ==
  {i \in DOMAIN sessions :
     \E p \in sessions[i].participants : Matches(p, entity, name, indexes)}

Keep(is) == sessions' = [i \in is |-> sessions[i]]

\* create_session replaces a session with the same index.
CreateSession(i, expires) ==
  /\ sessions' = [j \in DOMAIN sessions \union {i} |->
                    IF j = i THEN [participants |-> {}, expires |-> expires]
                    ELSE sessions[j]]
  /\ UNCHANGED <<joins, clock>>

AddParticipant(i, entity, name, indexes) ==
  /\ i \in DOMAIN sessions
  /\ joins < MaxJoins
  /\ joins' = joins + 1
  /\ sessions' = [sessions EXCEPT ![i].participants = @ \union
                    {[entity |-> entity, name |-> name, indexes |-> indexes,
                      joined |-> joins + 1]}]
  /\ UNCHANGED clock

RemoveParticipant(i, entity) ==
  /\ i \in DOMAIN sessions
  /\ sessions' = [sessions EXCEPT ![i].participants = {p \in @ : p.entity # entity}]
  /\ UNCHANGED <<joins, clock>>

DestroySession(i) ==
  /\ Keep(DOMAIN sessions \ {i})
  /\ UNCHANGED <<joins, clock>>

CleanupExpired ==
  /\ Keep({i \in DOMAIN sessions :
             sessions[i].expires = Unlimited \/ clock < sessions[i].expires})
  /\ UNCHANGED <<joins, clock>>
=============================================================================
