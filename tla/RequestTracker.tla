--------------------------- MODULE RequestTracker ---------------------------
(***************************************************************************)
(* The in-memory tracker of outstanding SAML request IDs                    *)
(* (crates/gamlastan-actix/src/config.rs: InMemoryRequestIdTracker).  One   *)
(* lock per call, so each call is one action.  Time is the monotonic clock; *)
(* it advances between calls.                                               *)
(***************************************************************************)
EXTENDS Naturals, FiniteSets

CONSTANTS
  RequestIds,    \* IDs of sent AuthnRequests and LogoutRequests
  Browsers,      \* opaque browser states (cookie values)
  Unbound,       \* the state of an entry stored through the legacy API
  Ttl,           \* with_ttl, in ticks
  MaxEntries,    \* the capacity asked of with_limits
  MaxTime        \* bound of the clock

ASSUME TrackerAssumption ==
  /\ Ttl \in Nat /\ MaxEntries \in Nat /\ MaxTime \in Nat
  /\ Unbound \notin Browsers

VARIABLES
  ids,   \* ids[i]: the entry of a tracked ID
  now,   \* the monotonic clock
  sent,  \* history: sent[i], the entry as it was last stored
  spent  \* history: IDs consumed since they were last stored

trackerVars == <<ids, now, sent, spent>>

Entry == [inserted : 0..MaxTime, browser : Browsers \union {Unbound}]

\* with_limits clamps the capacity to at least one entry.
Capacity == IF MaxEntries = 0 THEN 1 ELSE MaxEntries

Alive(entry, time) == time < entry.inserted + Ttl

TrackerTypeOK ==
  /\ DOMAIN ids \subseteq RequestIds
  /\ \A i \in DOMAIN ids : ids[i] \in Entry
  /\ now \in 0..MaxTime
  /\ DOMAIN sent \subseteq RequestIds
  /\ \A i \in DOMAIN sent : sent[i] \in Entry
  /\ spent \subseteq RequestIds

TrackerInit ==
  /\ ids = << >>
  /\ now = 0
  /\ sent = << >>
  /\ spent = {}

\* The map without, or with, one binding.
WithoutNothing(f, i) == f
Without(f, i) == [j \in DOMAIN f \ {i} |-> f[j]]
With(f, i, e) == [j \in DOMAIN f \union {i} |-> IF j = i THEN e ELSE f[j]]

NewEntry(browser) == [inserted |-> now, browser |-> browser]

AliveIds == {i \in DOMAIN ids : Alive(ids[i], now)}

Room == Cardinality(AliveIds) < Capacity

\* What an insertion of id may evict: nothing while there is room, else an
\* oldest live entry (any of them when several share the instant).
Evictable(id) ==
  IF id \in AliveIds \/ Room THEN {{}}
  ELSE {{i} : i \in {j \in AliveIds :
                       \A k \in AliveIds : ids[j].inserted <= ids[k].inserted}}

\* insert: expired entries go first, then room is made, then id is written.
Insert(id, browser) ==
  /\ \E evicted \in Evictable(id) :
       ids' = With([i \in AliveIds \ evicted |-> ids[i]], id, NewEntry(browser))
  /\ sent' = With(sent, id, NewEntry(browser))
  /\ spent' = spent \ {id}
  /\ UNCHANGED now

Store(id) == Insert(id, Unbound)
StoreBound(id, browser) == Insert(id, browser)

\* Whether a consume of id in the name of this browser state succeeds; the
\* legacy consume names Unbound.
ConsumableByAnyone(id, browser) == id \in DOMAIN ids /\ Alive(ids[id], now)
Consumable(id, browser) ==
  /\ id \in DOMAIN ids
  /\ Alive(ids[id], now)
  /\ ids[id].browser = browser

ConsumeOk(id, browser) ==
  /\ Consumable(id, browser)
  /\ ids' = Without(ids, id)
  /\ spent' = spent \union {id}
  /\ UNCHANGED <<now, sent>>

\* A failing consume drops an expired entry and keeps a mismatched one.
DroppedAlways(id) == id \in DOMAIN ids
Dropped(id) == id \in DOMAIN ids /\ ~Alive(ids[id], now)

ConsumeFails(id, browser) ==
  /\ ~Consumable(id, browser)
  /\ ids' = IF Dropped(id) THEN Without(ids, id) ELSE ids
  /\ UNCHANGED <<now, sent, spent>>

Tick ==
  /\ now < MaxTime
  /\ now' = now + 1
  /\ UNCHANGED <<ids, sent, spent>>

TrackerNext ==
  \/ \E i \in RequestIds : Store(i)
  \/ \E i \in RequestIds, b \in Browsers : StoreBound(i, b)
  \/ \E i \in RequestIds, b \in Browsers \union {Unbound} : ConsumeOk(i, b) \/ ConsumeFails(i, b)
  \/ Tick

TrackerSpec == TrackerInit /\ [][TrackerNext]_trackerVars

-----------------------------------------------------------------------------

\* A flood of logins cannot grow the tracker beyond its capacity, not even with
\* entries that have expired (ADR 0041).
CapacityBound == Cardinality(DOMAIN ids) <= Capacity

\* As many other requests as the tracker holds were stored no earlier than i.
FloodedOut(i) ==
  Cardinality({j \in DOMAIN sent \ {i} : sent[j].inserted >= sent[i].inserted}) >= Capacity

\* An ID stored once is consumed at most once, and only while it is fresh and by
\* the browser it was stored for: a spent ID is no longer there to be consumed.
SpentIsGone ==
  /\ spent \intersect DOMAIN ids = {}
  /\ \A i \in DOMAIN ids : i \in DOMAIN sent /\ ids[i] = sent[i]
=============================================================================
