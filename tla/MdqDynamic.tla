----------------------------- MODULE MdqDynamic -----------------------------
(***************************************************************************)
(* The MDQ client in dynamic mode (crates/gamlastan-mdq/src/client.rs:      *)
(* get_dynamic, with verify.rs) over its metadata cache                     *)
(* (crates/gamlastan/src/metadata/cache.rs).  Lookups run concurrently; a    *)
(* fetch is in flight for any length of time, and the federation publishes   *)
(* new documents meanwhile.                                                  *)
(***************************************************************************)
EXTENDS Naturals, FiniteSets, Sequences

CONSTANTS
  Entities,     \* entity IDs
  Callers,      \* lookups in flight
  Capacity,     \* max_cache_entries
  Ttl,          \* fallback_ttl
  Durations,    \* cacheDurations a document may carry
  Lifetimes,    \* validity a document is published with, or Forever
  Forever,      \* a document without validUntil
  MaxVersions,  \* bound: versions per entity
  MaxTime       \* bound of the clock

\* What is assumed of the constants.
DynamicConstants ==
  /\ Forever \notin Nat
  /\ Capacity \in Nat /\ Ttl \in Nat /\ MaxVersions \in Nat \ {0} /\ MaxTime \in Nat
  /\ Durations \subseteq Nat /\ Lifetimes \subseteq Nat \union {Forever}

VARIABLES
  clock,      \* the client's clock
  published,  \* the federation's current document of each entity
  replaced,   \* history: replaced[e][v] is when version v gave way to the next
  cache,      \* the client's cache
  pc, job,    \* the callers
  served      \* history: the latest answer given, if any

vars == <<clock, published, replaced, cache, pc, job, served>>

-----------------------------------------------------------------------------
(* The metadata cache: a map from entity ID to the document cached for it,  *)
(* its fetch time, its cache duration and its validity.  The client holds it *)
(* under a lock and always supplies a duration.                             *)

\* is_valid
Valid(until, now) == until # Forever => now < until

\* is_cache_stale
Stale(entry, now) == now >= entry.fetchedAt + entry.duration

StaleOnly(entry, now) == Stale(entry, now)
ShouldRefresh(entry, now) == Stale(entry, now) \/ ~Valid(entry.until, now)

Purged(entries, now) ==
  [e \in {x \in DOMAIN entries : Valid(entries[x].until, now)} |-> entries[e]]

\* An entry with the oldest fetch time; the map's order breaks ties.
Oldest(entries) ==
  {x \in DOMAIN entries : \A y \in DOMAIN entries : entries[x].fetchedAt <= entries[y].fetchedAt}

Full(entries, capacity) == Cardinality(DOMAIN entries) >= capacity

Insert(entries, id, entry) ==
  [e \in DOMAIN entries \union {id} |-> IF e = id THEN entry ELSE entries[e]]

\* put_bounded: the caches it may leave behind.
PutBounded(entries, id, entry, capacity, now) ==
  LET live == Purged(entries, now)
  IN IF capacity = 0 THEN {live}
     ELSE IF id \notin DOMAIN live /\ Full(live, capacity)
     THEN {Insert([e \in DOMAIN live \ {x} |-> live[e]], id, entry) : x \in Oldest(live)}
     ELSE {Insert(live, id, entry)}

-----------------------------------------------------------------------------
(* What the federation publishes, and the lookups.                          *)

\* sound: signed by the federation, for the entity asked for, with the role
\* required.  until and duration combine those of the aggregates around it.
Document == [version : 1..MaxVersions, sound : BOOLEAN, until : Nat \union {Forever},
             duration : Durations \union {Ttl}]

Entry == [document : Document, fetchedAt : 0..MaxTime, duration : Nat,
          until : Nat \union {Forever}]

NoDocument == [version |-> 0]

TypeOK ==
  /\ clock \in 0..MaxTime
  /\ DOMAIN cache \subseteq Entities
  /\ \A e \in DOMAIN cache : cache[e] \in Entry
  /\ Cardinality(DOMAIN cache) <= Capacity
  /\ pc \in [Callers -> {"idle", "lookup", "fetching", "fetched"}]
  /\ DOMAIN job = {c \in Callers : pc[c] # "idle"}

FirstDocument == [version |-> 1, sound |-> TRUE, until |-> Forever, duration |-> Ttl]

Init ==
  /\ clock = 0
  /\ published = [e \in Entities |-> FirstDocument]
  /\ replaced = [e \in Entities |-> << >>]
  /\ cache = << >>
  /\ pc = [c \in Callers |-> "idle"]
  /\ job = << >>
  /\ served = {}

Tick ==
  /\ clock < MaxTime
  /\ clock' = clock + 1
  /\ UNCHANGED <<published, replaced, cache, pc, job, served>>

\* The federation replaces an entity's document; it never signs one that has
\* already expired, but an intermediary may hand out an unsound one.
Publish(e) ==
  /\ published[e].version < MaxVersions
  /\ \E l \in Lifetimes, d \in Durations \union {Ttl}, sound \in BOOLEAN :
       published' = [published EXCEPT ![e] =
         [version |-> @.version + 1, sound |-> sound, duration |-> d,
          until |-> IF l = Forever THEN Forever ELSE clock + l]]
  /\ replaced' = [replaced EXCEPT ![e] = Append(@, clock)]
  /\ UNCHANGED <<clock, cache, pc, job, served>>

\* The answer a caller gets, with the time its lookup began.
Serve(c, document) ==
  served' = {[entity |-> job[c].entity, document |-> document, began |-> job[c].now]}

Finish(c) ==
  /\ pc' = [pc EXCEPT ![c] = "idle"]
  /\ job' = [k \in DOMAIN job \ {c} |-> job[k]]

\* get_dynamic begins: the clock is read once.
Get(c, e) ==
  /\ pc[c] = "idle"
  /\ job' = [k \in DOMAIN job \union {c} |->
               IF k = c THEN [entity |-> e, now |-> clock, document |-> NoDocument] ELSE job[k]]
  /\ pc' = [pc EXCEPT ![c] = "lookup"]
  /\ UNCHANGED <<clock, published, replaced, cache, served>>

\* Under the cache lock: a cached document that needs no refresh answers.
Lookup(c) ==
  LET e == job[c].entity
      hit == e \in DOMAIN cache /\ ~ShouldRefresh(cache[e], job[c].now)
  IN /\ pc[c] = "lookup"
     /\ \/ /\ hit
           /\ Serve(c, cache[e].document)
           /\ Finish(c)
        \/ /\ ~hit
           /\ pc' = [pc EXCEPT ![c] = "fetching"]
           /\ UNCHANGED <<job, served>>
     /\ UNCHANGED <<clock, published, replaced, cache>>

\* The server answers with the entity's current document; the answer travels.
ServerAnswers(c) ==
  /\ pc[c] = "fetching"
  /\ job' = [job EXCEPT ![c].document = published[job[c].entity]]
  /\ pc' = [pc EXCEPT ![c] = "fetched"]
  /\ UNCHANGED <<clock, published, replaced, cache, served>>

\* The fetch fails, or the caller gives up.
FetchFails(c) ==
  /\ pc[c] = "fetching"
  /\ Finish(c)
  /\ UNCHANGED <<clock, published, replaced, cache, served>>

ClockAtArrival(c) == clock
ClockAtStart(c) == job[c].now

\* The cache entry made of a fetched document.
NewEntry(c) ==
  LET d == job[c].document
  IN [document |-> d, fetchedAt |-> ClockAtStart(c), duration |-> d.duration,
      until |-> d.until]

\* parse_verify_select accepts the document, by the clock read at the start.
Acceptable(c) == job[c].document.sound /\ Valid(job[c].document.until, job[c].now)

\* The answer arrives: a document that passes is cached and returned.
Complete(c) ==
  /\ pc[c] = "fetched"
  /\ Finish(c)
  /\ \/ /\ Acceptable(c)
        /\ cache' \in PutBounded(cache, job[c].entity, NewEntry(c), Capacity, job[c].now)
        /\ Serve(c, job[c].document)
     \/ /\ ~Acceptable(c)
        /\ UNCHANGED <<cache, served>>
  /\ UNCHANGED <<clock, published, replaced>>

ClearCache ==
  /\ cache' = << >>
  /\ UNCHANGED <<clock, published, replaced, pc, job, served>>

Next ==
  \/ Tick \/ ClearCache
  \/ \E e \in Entities : Publish(e)
  \/ \E c \in Callers :
       (\E e \in Entities : Get(c, e)) \/ Lookup(c) \/ ServerAnswers(c) \/ FetchFails(c) \/ Complete(c)

Spec == Init /\ [][Next]_vars

-----------------------------------------------------------------------------

\* No lookup answers with a document that had expired when the lookup began, or
\* that the federation did not sign for that entity; nor, if it begins a cache
\* duration or more after the federation replaced the document, with the one
\* replaced, however long the fetch that brought it took and whoever cached it:
\* a revoked key is gone by then.
ServedIsCurrent ==
  \A s \in served :
    LET v == s.document.version
    IN /\ s.document.sound /\ Valid(s.document.until, s.began)
       /\ v \in DOMAIN replaced[s.entity] =>
            \/ s.began <= replaced[s.entity][v]
            \/ s.began < replaced[s.entity][v] + s.document.duration
=============================================================================
