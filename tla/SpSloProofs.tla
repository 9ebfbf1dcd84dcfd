---------------------------- MODULE SpSloProofs ----------------------------
(***************************************************************************)
(* Proofs about the request tracker, about single logout at the service     *)
(* provider that rests on it, for any request IDs, browsers, messages,      *)
(* windows, TTL and capacity, and about the logout orchestrator, for any    *)
(* entities, targets and responses.                                         *)
(***************************************************************************)
EXTENDS SpSlo, SpLogout, FiniteSetTheorems, SequenceTheorems, TLAPS

-----------------------------------------------------------------------------
(* The request tracker on its own.                                          *)

LEMMA CapacityPositive == Capacity \in Nat /\ Capacity >= 1
  BY TrackerAssumption DEF Capacity

\* The strengthening: the cardinality is that of a finite set.
CapInv == IsFiniteSet(DOMAIN ids) /\ CapacityBound

\* What an insertion leaves of the live entries has room for one more.
LEMMA RoomAfterEviction ==
  ASSUME CapInv, NEW id, NEW evicted \in Evictable(id)
  PROVE  /\ IsFiniteSet((AliveIds \ evicted) \union {id})
         /\ Cardinality((AliveIds \ evicted) \union {id}) <= Capacity
  <1>1. AliveIds \subseteq DOMAIN ids
    BY DEF AliveIds
  <1>2. IsFiniteSet(AliveIds) /\ Cardinality(AliveIds) <= Cardinality(DOMAIN ids)
    BY <1>1, FS_Subset DEF CapInv
  <1>3. Cardinality(AliveIds) \in Nat /\ Cardinality(DOMAIN ids) \in Nat
    BY <1>2, FS_CardinalityType DEF CapInv
  <1>4. Cardinality(AliveIds) <= Capacity
    BY <1>2, <1>3, CapacityPositive DEF CapInv, CapacityBound
  <1>5. CASE id \in AliveIds
    <2>1. evicted = {}
      BY <1>5 DEF Evictable
    <2>2. (AliveIds \ evicted) \union {id} = AliveIds
      BY <1>5, <2>1
    <2>3. QED
      BY <1>2, <1>4, <2>2
  <1>6. CASE id \notin AliveIds /\ Room
    <2>1. evicted = {}
      BY <1>6 DEF Evictable
    <2>2. (AliveIds \ evicted) \union {id} = AliveIds \union {id}
      BY <2>1
    <2>3. /\ IsFiniteSet(AliveIds \union {id})
          /\ Cardinality(AliveIds \union {id}) = Cardinality(AliveIds) + 1
      BY <1>2, <1>6, FS_AddElement
    <2>4. Cardinality(AliveIds) < Capacity
      BY <1>6 DEF Room
    <2>5. Cardinality(AliveIds) + 1 <= Capacity
      BY <1>3, <2>4, CapacityPositive
    <2>6. QED
      BY <2>2, <2>3, <2>5
  <1>7. CASE id \notin AliveIds /\ ~Room
    <2>1. PICK i \in AliveIds : evicted = {i}
      BY <1>7 DEF Evictable
    <2>2. /\ IsFiniteSet(AliveIds \ {i})
          /\ Cardinality(AliveIds \ {i}) = Cardinality(AliveIds) - 1
      BY <1>2, <2>1, FS_RemoveElement
    <2>3. /\ IsFiniteSet((AliveIds \ {i}) \union {id})
          /\ Cardinality((AliveIds \ {i}) \union {id}) = Cardinality(AliveIds \ {i}) + 1
      BY <1>7, <2>2, FS_AddElement
    <2>4. Cardinality((AliveIds \ {i}) \union {id}) = Cardinality(AliveIds)
      BY <1>3, <2>2, <2>3
    <2>5. QED
      BY <1>4, <2>1, <2>3, <2>4
  <1>8. QED
    BY <1>5, <1>6, <1>7

LEMMA InsertKeepsBound ==
  ASSUME CapInv, NEW id, NEW browser, Insert(id, browser)
  PROVE  CapInv'
  <1>1. PICK evicted \in Evictable(id) :
          ids' = With([i \in AliveIds \ evicted |-> ids[i]], id, NewEntry(browser))
    BY DEF Insert
  <1>2. DOMAIN ids' = (AliveIds \ evicted) \union {id}
    BY <1>1 DEF With
  <1>3. QED
    BY <1>2, RoomAfterEviction DEF CapInv, CapacityBound, Capacity

LEMMA RemovalKeepsBound ==
  ASSUME CapInv, DOMAIN ids' \subseteq DOMAIN ids
  PROVE  CapInv'
  <1>1. /\ IsFiniteSet(DOMAIN ids')
        /\ Cardinality(DOMAIN ids') <= Cardinality(DOMAIN ids)
    BY FS_Subset DEF CapInv
  <1>2. Cardinality(DOMAIN ids') \in Nat /\ Cardinality(DOMAIN ids) \in Nat
    BY <1>1, FS_CardinalityType DEF CapInv
  <1>3. Cardinality(DOMAIN ids') <= Capacity
    BY <1>1, <1>2, CapacityPositive DEF CapInv, CapacityBound
  <1>4. QED
    BY <1>1, <1>3 DEF CapInv, CapacityBound, Capacity

\* No call, and no passing of time, takes the tracker over its bound.
LEMMA BoundKept ==
  ASSUME CapInv, [TrackerNext]_trackerVars
  PROVE  CapInv'
  <1>1. ASSUME NEW i \in RequestIds, Store(i) PROVE CapInv'
    BY <1>1, InsertKeepsBound DEF Store
  <1>2. ASSUME NEW i \in RequestIds, NEW b \in Browsers, StoreBound(i, b) PROVE CapInv'
    BY <1>2, InsertKeepsBound DEF StoreBound
  <1>3. ASSUME NEW i \in RequestIds, NEW b, ConsumeOk(i, b) \/ ConsumeFails(i, b)
        PROVE  CapInv'
    <2>1. DOMAIN ids' \subseteq DOMAIN ids
      BY <1>3 DEF ConsumeOk, ConsumeFails, Without
    <2>2. QED
      BY <2>1, RemovalKeepsBound
  <1>4. CASE Tick
    BY <1>4 DEF Tick, CapInv, CapacityBound, Capacity
  <1>5. CASE UNCHANGED trackerVars
    BY <1>5 DEF trackerVars, CapInv, CapacityBound, Capacity
  <1>6. QED
    BY <1>1, <1>2, <1>3, <1>4, <1>5 DEF TrackerNext

LEMMA BoundAtStart == TrackerInit => CapInv
  <1> SUFFICES ASSUME TrackerInit PROVE CapInv
    OBVIOUS
  <1>1. DOMAIN ids = {}
    BY DEF TrackerInit
  <1>2. QED
    BY <1>1, FS_EmptySet, CapacityPositive DEF CapInv, CapacityBound

\* The tracker never holds more entries than its capacity, expired ones
\* included, whatever the calls: the memory bound of ADR 0041.
THEOREM TrackerIsBounded == TrackerSpec => []CapacityBound
  <1>1. CapInv => CapacityBound
    BY DEF CapInv
  <1>2. QED
    BY <1>1, BoundAtStart, BoundKept, PTL DEF TrackerSpec

\* Whatever is called, the tracker holds what was stored last and nothing spent.
LEMMA SpentKept ==
  ASSUME SpentIsGone, [TrackerNext]_trackerVars
  PROVE  SpentIsGone'
  <1>1. ASSUME NEW i, NEW b, Insert(i, b) PROVE SpentIsGone'
    <2>1. PICK evicted \in Evictable(i) :
            ids' = With([j \in AliveIds \ evicted |-> ids[j]], i, NewEntry(b))
      BY <1>1 DEF Insert
    <2>2. sent' = With(sent, i, NewEntry(b)) /\ spent' = spent \ {i}
      BY <1>1 DEF Insert
    <2>3. AliveIds \subseteq DOMAIN ids
      BY DEF AliveIds
    <2>4. DOMAIN ids' \subseteq DOMAIN ids \union {i}
      BY <2>1, <2>3 DEF With
    <2>5. \A j \in DOMAIN ids' : j \in DOMAIN sent' /\ ids'[j] = sent'[j]
      BY <2>1, <2>2, <2>3 DEF With, SpentIsGone
    <2>6. QED
      BY <2>2, <2>4, <2>5 DEF SpentIsGone
  <1>2. ASSUME NEW i, NEW b, ConsumeOk(i, b) PROVE SpentIsGone'
    BY <1>2 DEF ConsumeOk, Without, SpentIsGone
  <1>3. ASSUME NEW i, NEW b, ConsumeFails(i, b) PROVE SpentIsGone'
    BY <1>3 DEF ConsumeFails, Without, SpentIsGone
  <1>4. CASE Tick
    BY <1>4 DEF Tick, SpentIsGone
  <1>5. CASE UNCHANGED trackerVars
    BY <1>5 DEF trackerVars, SpentIsGone
  <1>6. QED
    BY <1>1, <1>2, <1>3, <1>4, <1>5 DEF TrackerNext, Store, StoreBound

\* A consumed request ID is gone for good unless it is sent again, and what the
\* tracker holds of an ID is what was stored last: no second consume succeeds.
THEOREM SpentStaysGone == TrackerSpec => []SpentIsGone
  <1>1. TrackerInit => SpentIsGone
    BY DEF TrackerInit, SpentIsGone
  <1>2. QED
    BY <1>1, SpentKept, PTL DEF TrackerSpec

-----------------------------------------------------------------------------
(* Logout at the service provider.                                          *)

\* What is kept of each message and callback.
SloTyped ==
  /\ now \in Nat
  /\ \A r \in requests : r.id \in Messages /\ r.issued \in Nat /\ r.until \in Nat \union {Never}
  /\ responses \subseteq Response
  /\ calls \in Seq(Call)

\* The tracker, as its own module proves it, and when its entries were stored.
Tracked ==
  /\ CapInv /\ SpentIsGone
  /\ IsFiniteSet(DOMAIN sent) /\ DOMAIN sent \subseteq RequestIds
  /\ spent \subseteq DOMAIN sent
  /\ logouts \subseteq DOMAIN sent
  /\ \A i \in DOMAIN sent : sent[i].inserted \in Nat /\ sent[i].inserted <= now

\* Every message ID that was used stays in the cache until its expiry.
Cached ==
  /\ \A m \in DOMAIN entries : entries[m] \in Nat
  /\ \A m \in DOMAIN uses :
       /\ uses[m] \in Nat
       /\ uses[m] > now => m \in DOMAIN entries /\ entries[m] >= uses[m]

\* A message ID names one request, and was used with that request's expiry.
UsesAreOfRequests ==
  /\ \A r, s \in requests : r.id = s.id => r = s
  /\ \A m \in DOMAIN uses : \E r \in requests : r.id = m /\ uses[m] = Expiry(r)

\* A callback has used its message up.
CallsUsed ==
  \A n \in DOMAIN calls :
    /\ calls[n].event = "idp_initiated" => calls[n].id \in DOMAIN uses
    /\ calls[n].event = "sp_complete" => calls[n].id \in spent

SloInv ==
  /\ SloTyped /\ Tracked /\ Cached /\ UsesAreOfRequests /\ CallsUsed
  /\ CompletedByAsker /\ MessageUsedOnce /\ OpenUntilConcluded

-----------------------------------------------------------------------------
(* Facts about windows, the cache and the list of callbacks.                *)

\* As long as a request is honoured its ID is remembered.
LEMMA WindowWithinExpiry ==
  ASSUME NEW r, r.issued \in Nat, r.until \in Nat \union {Never}
  PROVE  /\ Expiry(r) \in Nat
         /\ now \in Nat /\ InWindow(r, now) => Expiry(r) > now
  BY FreshnessAssumption DEF Expiry, InWindow

LEMMA AcceptKeepsCached ==
  ASSUME Cached, now \in Nat, NEW m, NEW expiry \in Nat, Replay!Accept(m, expiry)
  PROVE  /\ Cached'
         /\ DOMAIN uses' = DOMAIN uses \union {m}
         /\ uses'[m] = expiry /\ \A k \in DOMAIN uses \ {m} : uses'[k] = uses[k]
         /\ m \in DOMAIN uses => uses[m] <= now
  <1>1. /\ now' = now
        /\ DOMAIN uses' = DOMAIN uses \union {m}
        /\ uses'[m] = expiry /\ \A k \in DOMAIN uses \ {m} : uses'[k] = uses[k]
    BY DEF Replay!Accept, Replay!Put
  <1>2. \A k \in DOMAIN Replay!Scanned :
          k \in DOMAIN entries /\ Replay!Scanned[k] = entries[k]
    BY DEF Replay!Scanned, Replay!Unexpired
  <1>3. \A k \in DOMAIN entries : entries[k] > now =>
          k \in DOMAIN Replay!Scanned /\ Replay!Scanned[k] = entries[k]
    BY DEF Replay!Scanned, Replay!Unexpired
  <1>4. \/ /\ expiry > now
           /\ DOMAIN entries' = DOMAIN Replay!Scanned \union {m}
           /\ entries'[m] = expiry
           /\ \A k \in DOMAIN Replay!Scanned \ {m} : entries'[k] = Replay!Scanned[k]
        \/ ~(expiry > now) /\ entries' = Replay!Scanned
    BY DEF Replay!Accept, Replay!Put, Replay!Remember
  <1>5. \A k \in DOMAIN entries' : entries'[k] \in Nat
    BY <1>2, <1>4 DEF Cached
  <1>6. ASSUME NEW k \in DOMAIN uses', uses'[k] > now
        PROVE  k \in DOMAIN entries' /\ entries'[k] >= uses'[k]
    <2>1. CASE k = m
      BY <1>1, <1>4, <1>6, <2>1
    <2>2. CASE k # m
      <3>1. k \in DOMAIN uses /\ uses'[k] = uses[k]
        BY <1>1, <2>2
      <3>2. k \in DOMAIN entries /\ entries[k] >= uses[k] /\ entries[k] > now
        BY <1>6, <3>1 DEF Cached
      <3>3. QED
        BY <1>3, <1>4, <2>2, <3>1, <3>2
    <2>3. QED
      BY <2>1, <2>2
  <1>7. Cached'
    BY <1>1, <1>5, <1>6 DEF Cached
  <1>8. m \in DOMAIN uses => uses[m] <= now
    <2> SUFFICES ASSUME m \in DOMAIN uses, uses[m] > now PROVE FALSE
      BY DEF Cached
    <2>1. m \in DOMAIN entries /\ entries[m] > now
      BY DEF Cached
    <2>2. QED
      BY <1>3, <2>1 DEF Replay!Accept, Replay!Fresh
  <1>9. QED
    BY <1>1, <1>7, <1>8

LEMMA RefuseKeepsCached ==
  ASSUME Cached, now \in Nat, NEW m, Replay!Refuse(m)
  PROVE  Cached' /\ uses' = uses /\ now' = now
  <1>1. UNCHANGED <<now, uses>> /\ entries' = Replay!Scanned
    BY DEF Replay!Refuse
  <1>2. \A k \in DOMAIN Replay!Scanned :
          k \in DOMAIN entries /\ Replay!Scanned[k] = entries[k]
    BY DEF Replay!Scanned, Replay!Unexpired
  <1>3. \A k \in DOMAIN entries : entries[k] > now =>
          k \in DOMAIN Replay!Scanned /\ Replay!Scanned[k] = entries[k]
    BY DEF Replay!Scanned, Replay!Unexpired
  <1>4. QED
    BY <1>1, <1>2, <1>3 DEF Cached

LEMMA BeginAppends ==
  ASSUME calls \in Seq(Call), NEW call \in Call, Begin(call)
  PROVE  /\ calls' \in Seq(Call)
         /\ \A n \in DOMAIN calls : n \in DOMAIN calls' /\ calls'[n] = calls[n]
         /\ \A n \in DOMAIN calls' :
              \/ n \in DOMAIN calls
              \/ n = Len(calls) + 1 /\ calls'[n] = call
         /\ Len(calls) + 1 \in DOMAIN calls' /\ calls'[Len(calls) + 1] = call
  BY DEF Begin

-----------------------------------------------------------------------------
(* What the operations of the tracker keep.                                 *)

\* A fresh ID stored for a browser: whatever logout it evicts was flooded out.
LEMMA StoringKeeps ==
  ASSUME SloInv, NEW i \in RequestIds, i \notin DOMAIN sent, NEW b \in Browsers,
         StoreBound(i, b), UNCHANGED <<misspent, calls>>,
         logouts' = logouts \/ logouts' = logouts \union {i}
  PROVE  Tracked' /\ OpenUntilConcluded' /\ now' = now /\ spent' = spent
         /\ \A j \in DOMAIN sent : j \in DOMAIN sent' /\ sent'[j] = sent[j]
  <1>1. PICK evicted \in Evictable(i) :
          ids' = With([j \in AliveIds \ evicted |-> ids[j]], i, NewEntry(b))
    BY DEF StoreBound, Insert
  <1>2. /\ sent' = With(sent, i, NewEntry(b)) /\ spent' = spent \ {i} /\ now' = now
    BY DEF StoreBound, Insert
  <1>3. /\ DOMAIN sent' = DOMAIN sent \union {i}
        /\ sent'[i].inserted = now
        /\ \A j \in DOMAIN sent : sent'[j] = sent[j]
        /\ spent' = spent
    BY <1>2 DEF With, NewEntry, SloInv, Tracked
  <1>4. IsFiniteSet(DOMAIN sent')
    BY <1>3, FS_AddElement DEF SloInv, Tracked
  <1>5. CapInv' /\ SpentIsGone'
    BY BoundKept, SpentKept DEF SloInv, Tracked, TrackerNext
  <1>6. Tracked'
    BY <1>2, <1>3, <1>4, <1>5 DEF SloInv, Tracked, SloTyped
  <1>7. ASSUME NEW k \in logouts', Alive(sent'[k], now')
        PROVE  \/ k \in DOMAIN ids'
               \/ \E n \in DOMAIN calls' : calls'[n].event = "sp_complete" /\ calls'[n].id = k
               \/ [id |-> k, browser |-> sent'[k].browser] \in misspent'
               \/ FloodedOut(k)'
    <2>1. CASE k = i
      BY <1>1, <2>1 DEF With
    <2>2. CASE k # i
      <3>1. k \in logouts /\ k \in DOMAIN sent /\ sent'[k] = sent[k] /\ Alive(sent[k], now)
        BY <1>2, <1>3, <1>7, <2>2 DEF SloInv, Tracked
      <3>2. CASE k \in DOMAIN ids
        <4>1. k \in AliveIds
          BY <3>1, <3>2 DEF AliveIds, SloInv, Tracked, SpentIsGone
        <4>2. CASE k \notin evicted
          BY <1>1, <4>1, <4>2 DEF With
        <4>3. CASE k \in evicted
          <5>1. /\ evicted = {k} /\ i \notin AliveIds /\ ~Room
                /\ \A j \in AliveIds : ids[k].inserted <= ids[j].inserted
            BY <4>3 DEF Evictable
          <5> DEFINE flood == (AliveIds \ {k}) \union {i}
                     newer == {j \in DOMAIN sent' \ {k} : sent'[j].inserted >= sent'[k].inserted}
          <5>2. flood \subseteq newer
            <6>1. i \in newer
              BY <1>3, <2>2, <3>1 DEF SloInv, Tracked, SloTyped
            <6>2. \A j \in AliveIds \ {k} : j \in newer
              BY <1>3, <3>1, <3>2, <5>1 DEF AliveIds, SloInv, Tracked, SpentIsGone
            <6>3. QED
              BY <6>1, <6>2
          <5>3. IsFiniteSet(AliveIds) /\ Cardinality(AliveIds) \in Nat
            <6>1. AliveIds \subseteq DOMAIN ids /\ IsFiniteSet(DOMAIN ids)
              BY DEF AliveIds, SloInv, Tracked, CapInv
            <6>2. QED
              BY <6>1, FS_Subset, FS_CardinalityType
          <5>4. /\ IsFiniteSet(AliveIds \ {k})
                /\ Cardinality(AliveIds \ {k}) = Cardinality(AliveIds) - 1
            BY <4>1, <5>3, FS_RemoveElement
          <5>5. Cardinality(flood) = Cardinality(AliveIds \ {k}) + 1
            BY <5>1, <5>4, FS_AddElement
          <5>6. Cardinality(AliveIds) >= Capacity
            BY <5>1, <5>3, CapacityPositive DEF Room
          <5>7. /\ IsFiniteSet(newer) /\ Cardinality(newer) \in Nat
                /\ Cardinality(flood) <= Cardinality(newer)
            <6>1. IsFiniteSet(newer)
              BY <1>4, FS_Subset, newer \subseteq DOMAIN sent'
            <6>2. QED
              BY <5>2, <6>1, FS_Subset, FS_CardinalityType
          <5>8. Cardinality(newer) >= Capacity
            BY <5>3, <5>4, <5>5, <5>6, <5>7, CapacityPositive
          <5>9. QED
            BY <5>8 DEF FloodedOut, Capacity
        <4>4. QED
          BY <4>2, <4>3
      <3>3. CASE \E n \in DOMAIN calls : calls[n].event = "sp_complete" /\ calls[n].id = k
        BY <3>3
      <3>4. CASE [id |-> k, browser |-> sent[k].browser] \in misspent
        BY <3>1, <3>4
      <3>5. CASE FloodedOut(k)
        <4> DEFINE before == {j \in DOMAIN sent \ {k} : sent[j].inserted >= sent[k].inserted}
                   after == {j \in DOMAIN sent' \ {k} : sent'[j].inserted >= sent'[k].inserted}
        <4>1. before \subseteq after
          BY <1>3, <3>1
        <4>2. IsFiniteSet(after) /\ IsFiniteSet(before)
          <5>1. after \subseteq DOMAIN sent' /\ before \subseteq DOMAIN sent
            OBVIOUS
          <5>2. QED
            BY <1>4, <5>1, FS_Subset DEF SloInv, Tracked
        <4>3. /\ Cardinality(before) <= Cardinality(after)
              /\ Cardinality(before) \in Nat /\ Cardinality(after) \in Nat
          BY <4>1, <4>2, FS_Subset, FS_CardinalityType
        <4>4. Cardinality(before) >= Capacity
          BY <3>5 DEF FloodedOut
        <4>5. Cardinality(after) >= Capacity
          BY <4>3, <4>4, CapacityPositive
        <4>6. QED
          BY <4>5 DEF FloodedOut, Capacity
      <3>6. QED
        BY <3>1, <3>2, <3>3, <3>4, <3>5 DEF SloInv, OpenUntilConcluded
    <2>3. QED
      BY <2>1, <2>2
  <1>8. OpenUntilConcluded'
    BY <1>7 DEF OpenUntilConcluded
  <1>9. QED
    BY <1>2, <1>3, <1>6, <1>8

\* What is concluded stays so, and time only makes requests stale.
LEMMA OpenKept ==
  ASSUME SloInv, UNCHANGED <<sent, logouts>>, now' \in Nat, now <= now',
         misspent \subseteq misspent',
         \A n \in DOMAIN calls : n \in DOMAIN calls' /\ calls'[n] = calls[n],
         \A k \in logouts \intersect DOMAIN ids : Alive(sent[k], now) =>
           \/ k \in DOMAIN ids'
           \/ \E n \in DOMAIN calls' : calls'[n].event = "sp_complete" /\ calls'[n].id = k
           \/ [id |-> k, browser |-> sent[k].browser] \in misspent'
  PROVE  OpenUntilConcluded'
  <1> SUFFICES ASSUME NEW k \in logouts, Alive(sent[k], now')
               PROVE  \/ k \in DOMAIN ids'
                      \/ \E n \in DOMAIN calls' :
                           calls'[n].event = "sp_complete" /\ calls'[n].id = k
                      \/ [id |-> k, browser |-> sent[k].browser] \in misspent'
                      \/ FloodedOut(k)'
    BY DEF OpenUntilConcluded
  <1>1. k \in DOMAIN sent /\ sent[k].inserted \in Nat
    BY DEF SloInv, Tracked
  <1>2. Alive(sent[k], now)
    BY <1>1, TrackerAssumption DEF Alive, SloInv, SloTyped
  <1>3. CASE k \in DOMAIN ids
    BY <1>2, <1>3
  <1>4. CASE \E n \in DOMAIN calls : calls[n].event = "sp_complete" /\ calls[n].id = k
    BY <1>4
  <1>5. CASE [id |-> k, browser |-> sent[k].browser] \in misspent
    BY <1>5
  <1>6. CASE FloodedOut(k)
    BY <1>6 DEF FloodedOut, Capacity
  <1>7. QED
    BY <1>2, <1>3, <1>4, <1>5, <1>6 DEF SloInv, OpenUntilConcluded

\* A consume that fails drops no live logout; one that succeeds needs a callback,
\* or is the assertion consumer service's, in the browser that sent the request.
LEMMA ConsumingKeeps ==
  ASSUME SloInv, NEW i \in RequestIds, NEW b \in Browsers, UNCHANGED logouts,
         misspent \subseteq misspent',
         \A n \in DOMAIN calls : n \in DOMAIN calls' /\ calls'[n] = calls[n],
         \/ ConsumeFails(i, b)
         \/ /\ ConsumeOk(i, b)
            /\ i \in logouts =>
                 \/ \E n \in DOMAIN calls' : calls'[n].event = "sp_complete" /\ calls'[n].id = i
                 \/ [id |-> i, browser |-> b] \in misspent'
  PROVE  /\ Tracked' /\ OpenUntilConcluded' /\ UNCHANGED <<now, sent>>
         /\ spent \subseteq spent'
  <1>1. UNCHANGED <<now, sent>>
    BY DEF ConsumeFails, ConsumeOk
  <1>2. CapInv' /\ SpentIsGone'
    BY BoundKept, SpentKept DEF SloInv, Tracked, TrackerNext
  <1>3. spent \subseteq spent' /\ spent' \subseteq DOMAIN sent
    BY DEF ConsumeFails, ConsumeOk, Consumable, SloInv, Tracked, SpentIsGone
  <1>4. Tracked'
    BY <1>1, <1>2, <1>3 DEF SloInv, Tracked
  <1>5. ASSUME NEW k \in logouts, k \in DOMAIN ids, Alive(sent[k], now)
        PROVE  \/ k \in DOMAIN ids'
               \/ \E n \in DOMAIN calls' : calls'[n].event = "sp_complete" /\ calls'[n].id = k
               \/ [id |-> k, browser |-> sent[k].browser] \in misspent'
    <2>1. ids[k] = sent[k]
      BY <1>5 DEF SloInv, Tracked, SpentIsGone
    <2>2. CASE k # i
      BY <1>5, <2>2 DEF ConsumeFails, ConsumeOk, Without
    <2>3. CASE k = i /\ ConsumeFails(i, b)
      BY <1>5, <2>1, <2>3 DEF ConsumeFails, Dropped
    <2>4. CASE k = i /\ ConsumeOk(i, b)
      <3>1. sent[k].browser = b
        BY <2>1, <2>4 DEF ConsumeOk, Consumable
      <3>2. \/ \E n \in DOMAIN calls' : calls'[n].event = "sp_complete" /\ calls'[n].id = i
            \/ [id |-> i, browser |-> b] \in misspent'
        BY <1>5, <2>4 DEF ConsumeFails, ConsumeOk, Consumable
      <3>3. QED
        BY <2>4, <3>1, <3>2
    <2>5. QED
      BY <2>2, <2>3, <2>4
  <1>6. OpenUntilConcluded'
    BY <1>1, <1>5, OpenKept DEF SloInv, SloTyped
  <1>7. QED
    BY <1>1, <1>3, <1>4, <1>6

-----------------------------------------------------------------------------
(* One lemma per action.                                                    *)

\* When only the tracker or the list of responses changes.
LEMMA QuietStepKeeps ==
  ASSUME SloInv, Tracked', OpenUntilConcluded', UNCHANGED <<now, entries, uses, requests, calls>>,
         responses' \subseteq Response, spent \subseteq spent',
         \A j \in DOMAIN sent : j \in DOMAIN sent' /\ sent'[j] = sent[j]
  PROVE  SloInv'
  <1>1. SloTyped' /\ Cached' /\ UsesAreOfRequests' /\ CallsUsed' /\ MessageUsedOnce'
    BY DEF SloInv, SloTyped, Cached, UsesAreOfRequests, CallsUsed, MessageUsedOnce, Expiry
  <1>2. CompletedByAsker'
    BY DEF SloInv, CompletedByAsker
  <1>3. QED
    BY <1>1, <1>2 DEF SloInv

LEMMA LoginKeeps ==
  ASSUME SloInv, NEW b \in Browsers, SpLogin(b) \/ SpLogout(b)
  PROVE  SloInv'
  <1>1. PICK i \in RequestIds \ DOMAIN sent :
          StoreBound(i, b) /\ (logouts' = logouts \/ logouts' = logouts \union {i})
    BY DEF SpLogin, SpLogout
  <1>2. UNCHANGED <<entries, uses, misspent, requests, responses, calls>>
    BY DEF SpLogin, SpLogout, cacheVars
  <1>3. /\ Tracked' /\ OpenUntilConcluded' /\ now' = now /\ spent' = spent
        /\ \A j \in DOMAIN sent : j \in DOMAIN sent' /\ sent'[j] = sent[j]
    BY <1>1, <1>2, StoringKeeps
  <1>4. QED
    BY <1>2, <1>3, QuietStepKeeps DEF SloInv, SloTyped

LEMMA LoginAnsweredKeeps ==
  ASSUME SloInv, NEW b \in Browsers, SpAcsConsumes(b)
  PROVE  SloInv'
  <1>1. PICK i \in DOMAIN sent :
          \/ /\ ConsumeOk(i, b)
             /\ misspent' = misspent \union
                  {[id |-> k, browser |-> b] : k \in {i} \intersect logouts}
          \/ ConsumeFails(i, b) /\ UNCHANGED misspent
    BY DEF SpAcsConsumes
  <1>2. UNCHANGED <<entries, uses, logouts, requests, responses, calls>>
    BY DEF SpAcsConsumes, cacheVars
  <1>3. /\ misspent \subseteq misspent'
        /\ \/ ConsumeFails(i, b)
           \/ ConsumeOk(i, b) /\ (i \in logouts => [id |-> i, browser |-> b] \in misspent')
    BY <1>1
  <1>4. i \in RequestIds /\ calls' = calls
    BY <1>2 DEF SloInv, Tracked
  <1>5. /\ Tracked' /\ OpenUntilConcluded' /\ UNCHANGED <<now, sent>>
        /\ spent \subseteq spent'
    BY <1>1, <1>2, <1>3, <1>4, ConsumingKeeps
  <1>6. QED
    BY <1>2, <1>5, QuietStepKeeps DEF SloInv, SloTyped

LEMMA RequestSentKeeps ==
  ASSUME SloInv, IdpRequests
  PROVE  SloInv'
  <1>1. PICK m \in Messages, lead \in 0..MaxLead, bounded \in BOOLEAN :
          /\ m \notin {r.id : r \in requests}
          /\ requests' = requests \union
               {[id |-> m, issued |-> now + lead,
                 until |-> IF bounded THEN now + lead + Life ELSE Never]}
    BY DEF IdpRequests
  <1>2. /\ UNCHANGED <<now, ids, sent, spent, entries, uses, logouts, misspent, responses, calls>>
    BY DEF IdpRequests, tracked, cacheVars
  <1>3. SloTyped'
    <2>1. now + lead \in Nat /\ now + lead + Life \in Nat
      BY SpSloAssumption DEF SloInv, SloTyped
    <2>2. QED
      BY <1>1, <1>2, <2>1 DEF SloInv, SloTyped
  <1>4. UsesAreOfRequests'
    <2>1. \A r, s \in requests' : r.id = s.id => r = s
      BY <1>1 DEF SloInv, UsesAreOfRequests
    <2>2. \A k \in DOMAIN uses' : \E r \in requests' : r.id = k /\ uses'[k] = Expiry(r)
      BY <1>1, <1>2 DEF SloInv, UsesAreOfRequests
    <2>3. QED
      BY <2>1, <2>2 DEF UsesAreOfRequests, Expiry
  <1>5. Tracked' /\ OpenUntilConcluded' /\ CompletedByAsker'
    BY <1>2 DEF SloInv, Tracked, CapInv, CapacityBound, Capacity, SpentIsGone,
                OpenUntilConcluded, FloodedOut, CompletedByAsker, Alive
  <1>6. Cached' /\ CallsUsed' /\ MessageUsedOnce'
    BY <1>2 DEF SloInv, Cached, CallsUsed, MessageUsedOnce
  <1>7. QED
    BY <1>3, <1>4, <1>5, <1>6 DEF SloInv

LEMMA ResponseSentKeeps ==
  ASSUME SloInv, IdpResponds
  PROVE  SloInv'
  <1>1. /\ UNCHANGED <<now, ids, sent, spent, entries, uses, logouts, misspent, requests, calls>>
        /\ responses' \subseteq Response
    BY DEF IdpResponds, tracked, cacheVars, SloInv, SloTyped, Tracked, Response
  <1>2. Tracked' /\ OpenUntilConcluded'
    BY <1>1 DEF SloInv, Tracked, CapInv, CapacityBound, Capacity, SpentIsGone,
                OpenUntilConcluded, FloodedOut, Alive
  <1>3. QED
    BY <1>1, <1>2, QuietStepKeeps

LEMMA ElapseKeeps ==
  ASSUME SloInv, Elapse
  PROVE  SloInv'
  <1>1. /\ now' = now + 1
        /\ UNCHANGED <<ids, sent, spent, entries, uses, logouts, misspent, requests, responses, calls>>
    BY DEF Elapse, Tick, cacheVars
  <1>2. SloTyped' /\ UsesAreOfRequests' /\ CallsUsed' /\ MessageUsedOnce' /\ CompletedByAsker'
    BY <1>1 DEF SloInv, SloTyped, UsesAreOfRequests, CallsUsed, MessageUsedOnce,
                CompletedByAsker, Expiry
  <1>3. Tracked'
    BY <1>1 DEF SloInv, Tracked, CapInv, CapacityBound, Capacity, SpentIsGone, SloTyped
  <1>4. Cached'
    BY <1>1 DEF SloInv, Cached, SloTyped
  <1>5. OpenUntilConcluded'
    BY <1>1, OpenKept DEF SloInv, SloTyped
  <1>6. QED
    BY <1>2, <1>3, <1>4, <1>5 DEF SloInv

\* A request in its window whose ID the cache takes was never used before.
LEMMA ReceiveRequestKeeps ==
  ASSUME SloInv, NEW r \in requests, NEW c \in Cookie, ReceiveRequest(r, c)
  PROVE  SloInv'
  <1>1. /\ now \in Nat /\ r.id \in Messages /\ Expiry(r) \in Nat
        /\ InWindow(r, now) => Expiry(r) > now
    BY WindowWithinExpiry DEF SloInv, SloTyped
  <1>2. UNCHANGED <<ids, sent, spent, logouts, misspent, requests, responses>>
    BY DEF ReceiveRequest, tracked
  <1>3. CASE /\ InWindow(r, now) /\ Replay!Accept(r.id, Expiry(r))
             /\ Begin([event |-> "idp_initiated", id |-> r.id, browser |-> c])
    <2> DEFINE call == [event |-> "idp_initiated", id |-> r.id, browser |-> c]
    <2>1. call \in Call /\ call.event = "idp_initiated" /\ call.id = r.id
      BY <1>1 DEF Call
    <2>2. now' = now
      BY <1>3 DEF Replay!Accept
    <2>3. /\ Cached'
          /\ DOMAIN uses' = DOMAIN uses \union {r.id}
          /\ uses'[r.id] = Expiry(r) /\ \A k \in DOMAIN uses \ {r.id} : uses'[k] = uses[k]
          /\ r.id \in DOMAIN uses => uses[r.id] <= now
      BY <1>1, <1>3, AcceptKeepsCached DEF SloInv
    <2>4. r.id \notin DOMAIN uses
      <3> SUFFICES ASSUME r.id \in DOMAIN uses PROVE FALSE
        OBVIOUS
      <3>1. uses[r.id] = Expiry(r)
        BY DEF SloInv, UsesAreOfRequests
      <3>2. QED
        BY <1>1, <1>3, <2>3, <3>1
    <2> HIDE DEF call
    <2>5. /\ calls' \in Seq(Call)
          /\ \A n \in DOMAIN calls : n \in DOMAIN calls' /\ calls'[n] = calls[n]
          /\ \A n \in DOMAIN calls' :
               \/ n \in DOMAIN calls
               \/ n = Len(calls) + 1 /\ calls'[n] = call
      BY <1>3, <2>1, BeginAppends DEF SloInv, SloTyped, call
    <2>6. SloTyped' /\ Tracked'
      BY <1>2, <2>2, <2>5 DEF SloInv, SloTyped, Tracked, CapInv, CapacityBound, Capacity,
                             SpentIsGone
    <2>7. UsesAreOfRequests'
      BY <1>2, <2>3 DEF SloInv, UsesAreOfRequests, Expiry
    <2>8. CallsUsed'
      BY <1>2, <2>1, <2>3, <2>5 DEF SloInv, CallsUsed
    <2>9. CompletedByAsker'
      BY <1>2, <2>1, <2>5 DEF SloInv, CompletedByAsker
    <2>10. MessageUsedOnce'
      <3>1. \A n \in DOMAIN calls : ~(calls[n].event = call.event /\ calls[n].id = call.id)
        BY <2>1, <2>4 DEF SloInv, CallsUsed
      <3>2. QED
        BY <2>5, <3>1 DEF SloInv, MessageUsedOnce
    <2>11. OpenUntilConcluded'
      BY <1>1, <1>2, <2>2, <2>5, OpenKept
    <2>12. QED
      BY <2>3, <2>6, <2>7, <2>8, <2>9, <2>10, <2>11 DEF SloInv
  <1>4. CASE InWindow(r, now) /\ Replay!Refuse(r.id) /\ UNCHANGED <<running, calls>>
    <2>1. Cached' /\ uses' = uses /\ now' = now
      BY <1>1, <1>4, RefuseKeepsCached DEF SloInv
    <2>2. UNCHANGED calls
      BY <1>4
    <2>3. SloTyped' /\ UsesAreOfRequests' /\ CallsUsed' /\ MessageUsedOnce' /\ CompletedByAsker'
      BY <1>2, <2>1, <2>2 DEF SloInv, SloTyped, UsesAreOfRequests, CallsUsed, MessageUsedOnce,
                              CompletedByAsker, Expiry
    <2>4. Tracked'
      BY <1>2, <2>1 DEF SloInv, Tracked, CapInv, CapacityBound, Capacity, SpentIsGone
    <2>5. OpenUntilConcluded'
      BY <1>1, <1>2, <2>1, <2>2, OpenKept
    <2>6. QED
      BY <2>1, <2>3, <2>4, <2>5 DEF SloInv
  <1>5. QED
    BY <1>3, <1>4 DEF ReceiveRequest

\* A response that concludes spends its request, which nobody had concluded.
LEMMA ReceiveResponseKeeps ==
  ASSUME SloInv, NEW m \in responses, NEW b \in Browsers, ReceiveResponse(m, b)
  PROVE  SloInv'
  <1>1. m.irt \in RequestIds /\ m.success
    BY DEF ReceiveResponse, Concludes, SloInv, SloTyped, Response
  <1>2. UNCHANGED <<entries, uses, logouts, misspent, requests, responses>>
    BY DEF ReceiveResponse, cacheVars
  <1>3. CASE /\ ConsumeOk(m.irt, b)
             /\ Begin([event |-> "sp_complete", id |-> m.irt, browser |-> b])
    <2> DEFINE call == [event |-> "sp_complete", id |-> m.irt, browser |-> b]
    <2>1. call \in Call /\ call.event = "sp_complete" /\ call.id = m.irt /\ call.browser = b
      BY <1>1 DEF Call
    <2> HIDE DEF call
    <2>2. /\ calls' \in Seq(Call)
          /\ \A n \in DOMAIN calls : n \in DOMAIN calls' /\ calls'[n] = calls[n]
          /\ \A n \in DOMAIN calls' :
               \/ n \in DOMAIN calls
               \/ n = Len(calls) + 1 /\ calls'[n] = call
          /\ Len(calls) + 1 \in DOMAIN calls' /\ calls'[Len(calls) + 1] = call
      BY <1>3, <2>1, BeginAppends DEF SloInv, SloTyped, call
    <2>3. \E n \in DOMAIN calls' : calls'[n].event = "sp_complete" /\ calls'[n].id = m.irt
      BY <2>1, <2>2
    <2>4. /\ Tracked' /\ OpenUntilConcluded' /\ UNCHANGED <<now, sent>>
          /\ spent \subseteq spent'
      BY <1>1, <1>2, <1>3, <2>2, <2>3, ConsumingKeeps
    <2>5. /\ m.irt \in spent' /\ m.irt \notin spent
          /\ m.irt \in DOMAIN sent /\ sent[m.irt].browser = b
      BY <1>3 DEF ConsumeOk, Consumable, SloInv, Tracked, SpentIsGone
    <2>6. SloTyped' /\ UsesAreOfRequests' /\ Cached'
      BY <1>2, <2>2, <2>4 DEF SloInv, SloTyped, UsesAreOfRequests, Cached, Expiry
    <2>7. CallsUsed'
      BY <1>2, <2>1, <2>2, <2>4, <2>5 DEF SloInv, CallsUsed
    <2>8. CompletedByAsker'
      BY <2>1, <2>2, <2>4, <2>5 DEF SloInv, CompletedByAsker
    <2>9. MessageUsedOnce'
      <3>1. \A n \in DOMAIN calls : ~(calls[n].event = call.event /\ calls[n].id = call.id)
        BY <2>1, <2>5 DEF SloInv, CallsUsed
      <3>2. QED
        BY <2>2, <3>1 DEF SloInv, MessageUsedOnce
    <2>10. QED
      BY <2>4, <2>6, <2>7, <2>8, <2>9 DEF SloInv
  <1>4. CASE ConsumeFails(m.irt, b) /\ UNCHANGED <<running, calls>>
    <2>1. /\ Tracked' /\ OpenUntilConcluded' /\ UNCHANGED <<now, sent>>
          /\ spent \subseteq spent'
      BY <1>1, <1>2, <1>4, ConsumingKeeps
    <2>2. QED
      BY <1>2, <1>4, <2>1, QuietStepKeeps DEF SloInv, SloTyped
  <1>5. QED
    BY <1>1, <1>3, <1>4 DEF ReceiveResponse

\* A callback that returns, in success or failure, gives nothing back.
LEMMA ReturnKeeps ==
  ASSUME SloInv, NEW n \in running, CallbackReturns(n)
  PROVE  SloInv'
  <1>1. UNCHANGED <<now, ids, sent, spent, entries, uses, logouts, misspent, requests, responses, calls>>
    BY DEF CallbackReturns, StillRemembered, tracked
  <1>2. Tracked' /\ OpenUntilConcluded'
    BY <1>1 DEF SloInv, Tracked, CapInv, CapacityBound, Capacity, SpentIsGone,
                OpenUntilConcluded, FloodedOut, Alive
  <1>3. QED
    BY <1>1, <1>2, QuietStepKeeps DEF SloInv, SloTyped

-----------------------------------------------------------------------------

LEMMA SloStart == Init => SloInv
  <1> SUFFICES ASSUME Init PROVE SloInv
    OBVIOUS
  <1>1. CapInv
    BY BoundAtStart DEF Init
  <1>2. /\ ids = << >> /\ now = 0 /\ sent = << >> /\ spent = {} /\ entries = << >> /\ uses = << >>
        /\ logouts = {} /\ misspent = {} /\ requests = {} /\ responses = {} /\ calls = << >>
    BY DEF Init, TrackerInit, Replay!ReplayInit
  <1>3. Tracked
    <2>1. DOMAIN sent = {} /\ IsFiniteSet({})
      BY <1>2, FS_EmptySet
    <2>2. QED
      BY <1>1, <1>2, <2>1 DEF Tracked, SpentIsGone
  <1>4. SloTyped /\ Cached /\ UsesAreOfRequests
    BY <1>2 DEF SloTyped, Cached, UsesAreOfRequests
  <1>5. CallsUsed /\ CompletedByAsker /\ MessageUsedOnce /\ OpenUntilConcluded
    BY <1>2 DEF CallsUsed, CompletedByAsker, MessageUsedOnce, OpenUntilConcluded
  <1>6. QED
    BY <1>3, <1>4, <1>5 DEF SloInv

LEMMA SloInvariant == Spec => []SloInv
  <1>1. SloInv /\ [Next]_vars => SloInv'
    <2> SUFFICES ASSUME SloInv, [Next]_vars PROVE SloInv'
      OBVIOUS
    <2>1. ASSUME NEW b \in Browsers, SpLogin(b) \/ SpLogout(b) PROVE SloInv'
      BY <2>1, LoginKeeps
    <2>2. ASSUME NEW b \in Browsers, SpAcsConsumes(b) PROVE SloInv'
      BY <2>2, LoginAnsweredKeeps
    <2>3. CASE IdpRequests
      BY <2>3, RequestSentKeeps
    <2>4. CASE IdpResponds
      BY <2>4, ResponseSentKeeps
    <2>5. CASE Elapse
      BY <2>5, ElapseKeeps
    <2>6. ASSUME NEW r \in requests, NEW c \in Cookie, ReceiveRequest(r, c) PROVE SloInv'
      BY <2>6, ReceiveRequestKeeps
    <2>7. ASSUME NEW m \in responses, NEW b \in Browsers, ReceiveResponse(m, b) PROVE SloInv'
      BY <2>7, ReceiveResponseKeeps
    <2>8. ASSUME NEW n \in running, CallbackReturns(n) PROVE SloInv'
      BY <2>8, ReturnKeeps
    <2>9. CASE UNCHANGED vars
      <3>1. /\ UNCHANGED <<now, ids, sent, spent, entries, uses, logouts, misspent, requests, responses, calls>>
        BY <2>9 DEF vars
      <3>2. Tracked' /\ OpenUntilConcluded'
        BY <3>1 DEF SloInv, Tracked, CapInv, CapacityBound, Capacity, SpentIsGone,
                    OpenUntilConcluded, FloodedOut, Alive
      <3>3. QED
        BY <3>1, <3>2, QuietStepKeeps DEF SloInv, SloTyped
    <2>10. QED
      BY <2>1, <2>2, <2>3, <2>4, <2>5, <2>6, <2>7, <2>8, <2>9 DEF Next
  <1>2. QED
    BY <1>1, SloStart, PTL DEF Spec

\* A LogoutResponse ends a session only in the browser that started that logout,
\* for any number of browsers and however the responses are delivered.
THEOREM LogoutsEndWhereTheyStarted == Spec => []CompletedByAsker
  <1>1. SloInv => CompletedByAsker
    BY DEF SloInv
  <1>2. QED
    BY <1>1, SloInvariant, PTL

\* No message of the IdP reaches the application's callback twice, for any
\* windows, skew and age: the replay cache outlives the window.
THEOREM MessagesAreUsedOnce == Spec => []MessageUsedOnce
  <1>1. SloInv => MessageUsedOnce
    BY DEF SloInv
  <1>2. QED
    BY <1>1, SloInvariant, PTL

\* A logout can be concluded for as long as its request is fresh, unless as many
\* newer requests as the tracker holds pushed it out or its own browser spent it
\* at the assertion consumer service: for any tracker, browsers and messages.
THEOREM LogoutsStayOpen == Spec => []OpenUntilConcluded
  <1>1. SloInv => OpenUntilConcluded
    BY DEF SloInv
  <1>2. QED
    BY <1>1, SloInvariant, PTL

-----------------------------------------------------------------------------
(* The orchestrator of a logout across several entities: what it reports as  *)
(* logged out was.                                                           *)

Requested == {k \in DOMAIN targets : targets[k].request # 0}

\* A request is outstanding, or was, for every target that is no longer pending,
\* and for no other; so there are never more requests than targets.
Counted ==
  /\ Len(targets) <= MaxTargets
  /\ issued = Cardinality(Requested)
  /\ \A k \in DOMAIN targets :
       /\ targets[k].request <= issued
       /\ targets[k].state = "Pending" <=> targets[k].request = 0
  /\ \A r \in answers : r.irt <= issued

\* A verified response that claims, in the name of a request's target, that the
\* request was carried out in full, tells the truth.
Truthful ==
  \A r \in answers, k \in DOMAIN targets :
    /\ r.verified /\ r.success /\ ~r.partial
    /\ r.irt # 0 /\ r.irt = targets[k].request /\ r.issuer = targets[k].entity
    => r.irt \in ended

OrchestratorInv == OrchTypeOK /\ Counted /\ Truthful /\ SucceededIsReal

-----------------------------------------------------------------------------

LEMMA PrefixSize ==
  ASSUME NEW n \in Nat
  PROVE  IsFiniteSet(1..n) /\ Cardinality(1..n) = n
  <1>1. /\ IsFiniteSet(1..n)
        /\ Cardinality(1..n) = IF 1 > n THEN 0 ELSE n - 1 + 1
    BY FS_Interval
  <1> QED
    BY <1>1

\* Requested is finite, and no larger than the list.
LEMMA RequestedFinite ==
  ASSUME OrchTypeOK
  PROVE  /\ IsFiniteSet(Requested) /\ Cardinality(Requested) \in Nat
         /\ Cardinality(Requested) <= Len(targets)
  <1>1. Len(targets) \in Nat /\ DOMAIN targets = 1..Len(targets)
    BY DEF OrchTypeOK
  <1>2. IsFiniteSet(1..Len(targets)) /\ Cardinality(1..Len(targets)) = Len(targets)
    BY <1>1, PrefixSize
  <1>3. Requested \subseteq 1..Len(targets)
    BY <1>1 DEF Requested
  <1>4. /\ IsFiniteSet(Requested)
        /\ Cardinality(Requested) <= Cardinality(1..Len(targets))
    BY <1>2, <1>3, FS_Subset
  <1> QED
    BY <1>2, <1>4, FS_CardinalityType

LEMMA InitHolds ==
  ASSUME OrchInit
  PROVE  OrchestratorInv
  <1>1. targets \in Seq(Target) /\ Len(targets) = 0 /\ DOMAIN targets = {}
    BY DEF OrchInit
  <1>2. OrchTypeOK
    BY <1>1, SpLogoutAssumption DEF OrchInit, OrchTypeOK
  <1>3. Requested = {} /\ Cardinality({}) = 0
    BY <1>1, FS_EmptySet DEF Requested
  <1>4. Counted
    BY <1>1, <1>3, SpLogoutAssumption DEF OrchInit, Counted
  <1> QED
    BY <1>1, <1>2, <1>4 DEF OrchInit, Truthful, SucceededIsReal, OrchestratorInv

\* A new target is pending.
LEMMA AddTargetKeeps ==
  ASSUME OrchestratorInv, NEW e \in Entities, AddTarget(e)
  PROVE  OrchestratorInv'
  <1> DEFINE t == [entity |-> e, state |-> "Pending", request |-> 0]
  <1>1. t \in Target
    BY SpLogoutAssumption DEF Target, States
  <1>2. /\ targets \in Seq(Target)
        /\ targets' = Append(targets, t)
        /\ UNCHANGED <<issued, answers, ended>>
    BY DEF OrchestratorInv, OrchTypeOK, AddTarget
  <1>3. /\ targets' \in Seq(Target)
        /\ Len(targets') = Len(targets) + 1
        /\ DOMAIN targets' = DOMAIN targets \union {Len(targets) + 1}
        /\ targets'[Len(targets) + 1] = t
        /\ \A k \in DOMAIN targets : targets'[k] = targets[k]
    BY <1>1, <1>2
  <1>4. Requested' = Requested
    BY <1>3 DEF Requested
  <1>5. OrchTypeOK'
    BY <1>2, <1>3 DEF OrchestratorInv, OrchTypeOK
  <1>6. Counted'
    <2>1. Len(targets') <= MaxTargets
      BY <1>2, <1>3, SpLogoutAssumption DEF AddTarget
    <2>2. issued' = Cardinality(Requested')
      BY <1>2, <1>4 DEF OrchestratorInv, Counted
    <2>3. 0 <= issued
      BY DEF OrchestratorInv, OrchTypeOK
    <2> QED
      BY <1>2, <1>3, <2>1, <2>2, <2>3 DEF OrchestratorInv, Counted
  <1>7. Truthful'
    BY <1>2, <1>3 DEF OrchestratorInv, Truthful
  <1>8. SucceededIsReal'
    BY <1>2, <1>3 DEF OrchestratorInv, SucceededIsReal
  <1> QED
    BY <1>5, <1>6, <1>7, <1>8 DEF OrchestratorInv

\* What the steps that change one target have in common.
LEMMA OneTarget ==
  ASSUME OrchTypeOK, NEW k \in DOMAIN targets, NEW s \in States, NEW n \in 0..MaxTargets,
         targets' = [targets EXCEPT ![k].state = s, ![k].request = n]
  PROVE  /\ targets' \in Seq(Target)
         /\ Len(targets') = Len(targets) /\ DOMAIN targets' = DOMAIN targets
         /\ targets'[k].state = s /\ targets'[k].request = n
         /\ targets'[k].entity = targets[k].entity
         /\ \A j \in DOMAIN targets \ {k} : targets'[j] = targets[j]
  <1>1. targets \in Seq(Target) /\ targets[k] \in Target
    BY DEF OrchTypeOK
  <1> DEFINE t == [targets[k] EXCEPT !.state = s, !.request = n]
  <1>2. t \in Target /\ t.state = s /\ t.request = n /\ t.entity = targets[k].entity
    BY <1>1 DEF Target
  <1>3. targets' = [targets EXCEPT ![k] = t]
    BY <1>1
  <1> HIDE DEF t
  <1>4. targets'[k] = t /\ \A j \in DOMAIN targets \ {k} : targets'[j] = targets[j]
    BY <1>1, <1>3
  <1>5. /\ targets' \in Seq(Target)
        /\ Len(targets') = Len(targets) /\ DOMAIN targets' = DOMAIN targets
    <2>1. k \in 1..Len(targets) /\ DOMAIN targets = 1..Len(targets)
      BY <1>1
    <2>2. /\ [targets EXCEPT ![k] = t] \in Seq(Target)
          /\ Len([targets EXCEPT ![k] = t]) = Len(targets)
      BY ONLY <1>1, <1>2, <2>1, ExceptSeq, Zenon
    <2>3. targets' \in Seq(Target) /\ Len(targets') = Len(targets)
      BY ONLY <1>3, <2>2
    <2> QED
      BY <2>1, <2>3
  <1> QED
    BY <1>2, <1>4, <1>5

\* The new request's ID is fresh, so no response claims anything for it.
LEMMA NextRequestKeeps ==
  ASSUME OrchestratorInv, NextRequest
  PROVE  OrchestratorInv'
  <1>1. PICK k \in DOMAIN targets :
          /\ targets[k].state = "Pending"
          /\ targets' = [targets EXCEPT ![k].state = "InProgress", ![k].request = issued + 1]
    BY DEF NextRequest, First, Unrequested, NewId
  <1>2. issued' = issued + 1 /\ UNCHANGED <<answers, ended>>
    BY DEF NextRequest
  <1>3. OrchTypeOK /\ Counted /\ Truthful /\ SucceededIsReal /\ issued \in Nat
    BY DEF OrchestratorInv, OrchTypeOK
  <1>4. k \notin Requested /\ targets[k].request = 0
    BY <1>1, <1>3 DEF Requested, Counted
  <1>5. issued + 1 <= Len(targets)
    <2>1. DOMAIN targets = 1..Len(targets) /\ Len(targets) \in Nat
      BY <1>3 DEF OrchTypeOK
    <2>2. IsFiniteSet(1..Len(targets)) /\ Cardinality(1..Len(targets)) = Len(targets)
      BY <2>1, PrefixSize
    <2>3. /\ IsFiniteSet(Requested \union {k})
          /\ Cardinality(Requested \union {k}) = Cardinality(Requested) + 1
      BY <1>3, <1>4, RequestedFinite, FS_AddElement
    <2>4. Requested \union {k} \subseteq 1..Len(targets)
      BY <2>1 DEF Requested
    <2>5. Cardinality(Requested \union {k}) <= Cardinality(1..Len(targets))
      BY <2>2, <2>4, FS_Subset
    <2> QED
      BY <1>3, <2>2, <2>3, <2>5 DEF Counted
  <1>6. issued + 1 \in 0..MaxTargets
    BY <1>3, <1>5, SpLogoutAssumption DEF Counted, OrchTypeOK
  <1>7. /\ targets' \in Seq(Target)
        /\ Len(targets') = Len(targets) /\ DOMAIN targets' = DOMAIN targets
        /\ targets'[k].state = "InProgress" /\ targets'[k].request = issued + 1
        /\ targets'[k].entity = targets[k].entity
        /\ \A j \in DOMAIN targets \ {k} : targets'[j] = targets[j]
    <2>1. "InProgress" \in States
      BY DEF States
    <2> QED
      BY <1>1, <1>3, <1>6, <2>1, OneTarget
  <1>8. OrchTypeOK'
    BY <1>2, <1>3, <1>6, <1>7 DEF OrchTypeOK
  <1>9. Counted'
    <2>1. Requested' = Requested \union {k}
      BY <1>3, <1>7 DEF Requested
    <2>2. Cardinality(Requested') = Cardinality(Requested) + 1
      BY <1>3, <1>4, <2>1, RequestedFinite, FS_AddElement
    <2>3. \A j \in DOMAIN targets : targets[j].request \in Nat
      <3>1. \A j \in DOMAIN targets : targets[j] \in Target
        BY <1>3 DEF OrchTypeOK
      <3> QED
        BY <3>1, SpLogoutAssumption DEF Target
    <2>4. \A r \in answers : r.irt \in Nat
      BY <1>3, SpLogoutAssumption DEF OrchTypeOK, LogoutResponse
    <2>5. \A j \in DOMAIN targets' :
            /\ targets'[j].request <= issued'
            /\ targets'[j].state = "Pending" <=> targets'[j].request = 0
      <3> TAKE j \in DOMAIN targets'
      <3>1. CASE j = k
        BY <1>2, <1>3, <1>7, <3>1
      <3>2. CASE j # k
        BY <1>2, <1>3, <1>7, <2>3, <3>2 DEF Counted
      <3> QED BY <3>1, <3>2
    <2> QED
      BY <1>2, <1>3, <1>7, <2>2, <2>4, <2>5 DEF Counted
  <1>10. Truthful'
    <2> SUFFICES ASSUME NEW r \in answers, NEW j \in DOMAIN targets,
                        r.verified, r.success, ~r.partial, r.irt # 0,
                        r.irt = targets'[j].request, r.issuer = targets'[j].entity
                 PROVE  r.irt \in ended
      BY <1>2, <1>7 DEF Truthful
    <2>1. r.irt <= issued /\ r.irt \in Nat
      BY <1>3, SpLogoutAssumption DEF Counted, OrchTypeOK, LogoutResponse
    <2>2. j # k
      BY <1>3, <1>7, <2>1
    <2> QED
      BY <1>3, <1>7, <2>2 DEF Truthful
  <1>11. SucceededIsReal'
    BY <1>2, <1>3, <1>7 DEF SucceededIsReal
  <1> QED
    BY <1>8, <1>9, <1>10, <1>11 DEF OrchestratorInv

\* An entity's own answer: it claims a full logout only if there was one.
LEMMA AnswerKeeps ==
  ASSUME OrchestratorInv, NEW k \in DOMAIN targets, Answer(k)
  PROVE  OrchestratorInv'
  <1>1. PICK success \in BOOLEAN, partial \in BOOLEAN :
          /\ answers' = answers \union
               {[irt |-> targets[k].request, issuer |-> targets[k].entity,
                 success |-> success, partial |-> partial, verified |-> TRUE]}
          /\ ended' = IF success /\ ~partial THEN ended \union {targets[k].request} ELSE ended
    BY DEF Answer
  <1> DEFINE r == [irt |-> targets[k].request, issuer |-> targets[k].entity,
                   success |-> success, partial |-> partial, verified |-> TRUE]
  <1>2. UNCHANGED <<targets, issued>> /\ targets[k].request # 0
    BY DEF Answer
  <1>3. OrchTypeOK /\ Counted /\ Truthful /\ SucceededIsReal /\ targets[k] \in Target
    BY DEF OrchestratorInv, OrchTypeOK
  <1>4. r \in LogoutResponse /\ targets[k].request \in 1..MaxTargets
    BY <1>2, <1>3, SpLogoutAssumption DEF LogoutResponse, Target
  <1>5. r.irt <= issued /\ (r.success /\ ~r.partial => r.irt \in ended') /\ ended \subseteq ended'
    BY <1>1, <1>3 DEF Counted
  <1>6. answers' = answers \union {r} /\ r.irt = targets[k].request
    BY <1>1
  <1> HIDE DEF r
  <1>7. OrchTypeOK'
    BY <1>1, <1>2, <1>3, <1>4, <1>6 DEF OrchTypeOK
  <1>8. Counted'
    BY <1>2, <1>3, <1>5, <1>6 DEF Counted, Requested
  <1>9. Truthful'
    BY <1>2, <1>3, <1>5, <1>6 DEF Truthful
  <1>10. SucceededIsReal'
    BY <1>2, <1>3, <1>5 DEF SucceededIsReal
  <1> QED
    BY <1>7, <1>8, <1>9, <1>10 DEF OrchestratorInv

\* A stray response claims nothing in the name of a request's target, or is not
\* verified.
LEMMA StrayKeeps ==
  ASSUME OrchestratorInv, Stray
  PROVE  OrchestratorInv'
  <1>1. PICK r \in LogoutResponse :
          /\ r.irt <= issued
          /\ \/ ~r.verified
             \/ r.irt = 0
             \/ \A k \in DOMAIN targets :
                  targets[k].request = r.irt => targets[k].entity # r.issuer
          /\ answers' = answers \union {r}
    BY DEF Stray
  <1>2. UNCHANGED <<targets, issued, ended>>
    BY DEF Stray
  <1>3. OrchTypeOK'
    BY <1>1, <1>2 DEF OrchestratorInv, OrchTypeOK
  <1>4. Counted'
    BY <1>1, <1>2 DEF OrchestratorInv, Counted, Requested
  <1>5. Truthful'
    BY <1>1, <1>2 DEF OrchestratorInv, Truthful
  <1> QED
    BY <1>2, <1>3, <1>4, <1>5 DEF OrchestratorInv, SucceededIsReal

\* A target that is given its final state keeps its request.
LEMMA FinishKeeps ==
  ASSUME OrchestratorInv, NEW k \in DOMAIN targets, NEW s \in {"Succeeded", "Failed"},
         targets[k].request # 0, s = "Succeeded" => targets[k].request \in ended,
         targets' = [targets EXCEPT ![k].state = s], UNCHANGED <<issued, answers, ended>>
  PROVE  OrchestratorInv'
  <1>1. OrchTypeOK /\ Counted /\ Truthful /\ SucceededIsReal /\ targets[k] \in Target
    BY DEF OrchestratorInv, OrchTypeOK
  <1>2. targets' = [targets EXCEPT ![k].state = s, ![k].request = targets[k].request]
    BY <1>1 DEF OrchTypeOK, Target
  <1>3. /\ targets' \in Seq(Target)
        /\ Len(targets') = Len(targets) /\ DOMAIN targets' = DOMAIN targets
        /\ targets'[k].state = s /\ targets'[k].request = targets[k].request
        /\ targets'[k].entity = targets[k].entity
        /\ \A j \in DOMAIN targets \ {k} : targets'[j] = targets[j]
    <2>1. s \in States /\ targets[k].request \in 0..MaxTargets
      BY <1>1 DEF States, Target
    <2> QED
      BY <1>1, <1>2, <2>1, OneTarget
  <1>4. \A j \in DOMAIN targets :
          targets'[j].request = targets[j].request /\ targets'[j].entity = targets[j].entity
    BY <1>3
  <1>5. Requested' = Requested
    BY <1>3, <1>4 DEF Requested
  <1>6. OrchTypeOK'
    BY <1>1, <1>3 DEF OrchTypeOK
  <1>7. Counted'
    BY <1>1, <1>3, <1>4, <1>5 DEF Counted
  <1>8. Truthful'
    BY <1>1, <1>3, <1>4 DEF Truthful
  <1>9. SucceededIsReal'
    BY <1>1, <1>3 DEF SucceededIsReal
  <1> QED
    BY <1>6, <1>7, <1>8, <1>9 DEF OrchestratorInv

\* The response that decides a target's state comes from the target, in answer to
\* its request.
LEMMA HandleResponseKeeps ==
  ASSUME OrchestratorInv, NEW r \in answers, HandleResponse(r)
  PROVE  OrchestratorInv'
  <1>1. PICK k \in DOMAIN targets :
          /\ targets[k].request = r.irt /\ r.issuer = targets[k].entity
          /\ targets' = [targets EXCEPT ![k].state = Verdict(r)]
    BY DEF HandleResponse, First, Correlates, FromTarget
  <1>2. r.verified /\ r.irt # 0 /\ UNCHANGED <<issued, answers, ended>>
    BY DEF HandleResponse
  <1>3. /\ Verdict(r) \in {"Succeeded", "Failed"}
        /\ Verdict(r) = "Succeeded" => r.success /\ ~r.partial
    BY DEF Verdict
  <1>4. Verdict(r) = "Succeeded" => targets[k].request \in ended
    BY <1>1, <1>2, <1>3 DEF OrchestratorInv, Truthful
  <1> QED
    BY <1>1, <1>2, <1>3, <1>4, FinishKeeps

\* mark_failed, called with care, reaches a target whose request is outstanding.
LEMMA MarkFailedKeeps ==
  ASSUME Careful, OrchestratorInv, NEW e \in Entities, MarkFailed(e)
  PROVE  OrchestratorInv'
  <1>1. PICK k \in DOMAIN targets :
          /\ targets[k].state = "InProgress"
          /\ targets' = [targets EXCEPT ![k].state = "Failed"]
    BY DEF MarkFailed, First
  <1>2. targets[k].request # 0 /\ UNCHANGED <<issued, answers, ended>>
    BY <1>1 DEF MarkFailed, OrchestratorInv, Counted
  <1> QED
    BY <1>1, <1>2, FinishKeeps

-----------------------------------------------------------------------------

\* The inductive invariant, for an application that asks target_state before it
\* calls mark_failed.
THEOREM OrchestratorInvHolds == ASSUME Careful PROVE OrchSpec => []OrchestratorInv
  <1>1. OrchInit => OrchestratorInv
    BY InitHolds
  <1>2. OrchestratorInv /\ [OrchNext]_orchVars => OrchestratorInv'
    <2> SUFFICES ASSUME OrchestratorInv, [OrchNext]_orchVars PROVE OrchestratorInv'
      OBVIOUS
    <2>1. ASSUME NEW e \in Entities, AddTarget(e) PROVE OrchestratorInv'
      BY <2>1, AddTargetKeeps
    <2>2. ASSUME NEW e \in Entities, MarkFailed(e) PROVE OrchestratorInv'
      BY <2>2, MarkFailedKeeps
    <2>3. CASE NextRequest
      BY <2>3, NextRequestKeeps
    <2>4. ASSUME NEW k \in DOMAIN targets, Answer(k) PROVE OrchestratorInv'
      BY <2>4, AnswerKeeps
    <2>5. CASE Stray
      BY <2>5, StrayKeeps
    <2>6. ASSUME NEW r \in answers, HandleResponse(r) PROVE OrchestratorInv'
      BY <2>6, HandleResponseKeeps
    <2>7. CASE UNCHANGED orchVars
      BY <2>7 DEF orchVars, OrchestratorInv, OrchTypeOK, Counted, Requested, Truthful, SucceededIsReal
    <2> QED
      BY <2>1, <2>2, <2>3, <2>4, <2>5, <2>6, <2>7 DEF OrchNext
  <1> QED
    BY <1>1, <1>2, PTL DEF OrchSpec

\* No entity counts as logged out that did not end its session in full in answer
\* to its own request, for any number of entities and any responses.
THEOREM LogoutsAreReal == ASSUME Careful PROVE OrchSpec => []SucceededIsReal
  <1>1. OrchestratorInv => SucceededIsReal
    BY DEF OrchestratorInv
  <1> QED
    BY <1>1, OrchestratorInvHolds, PTL

\* handle_response, next_request and add_target leave a target in its final
\* state alone, and so does a careful application's mark_failed.
THEOREM FinalStatesStay == ASSUME Careful PROVE OrchSpec => FinalIsFinal
  <1> DEFINE Keeps ==
        \A k \in DOMAIN targets : FinalState(targets[k].state) => targets'[k] = targets[k]
  <1>1. OrchTypeOK /\ OrchNext => Keeps
    <2> SUFFICES ASSUME OrchTypeOK, OrchNext PROVE Keeps
      OBVIOUS
    <2>0. targets \in Seq(Target)
      BY DEF OrchTypeOK
    <2>1. ASSUME NEW e \in Entities, AddTarget(e) PROVE Keeps
      BY <2>0, <2>1 DEF AddTarget
    <2>2. ASSUME NEW e \in Entities, MarkFailed(e) PROVE Keeps
      BY <2>0, <2>2 DEF MarkFailed, First, FinalState
    <2>3. CASE NextRequest
      BY <2>0, <2>3 DEF NextRequest, First, Unrequested, FinalState
    <2>4. ASSUME NEW k \in DOMAIN targets, Answer(k) PROVE Keeps
      BY <2>4 DEF Answer
    <2>5. CASE Stray
      BY <2>5 DEF Stray
    <2>6. ASSUME NEW r \in answers, HandleResponse(r) PROVE Keeps
      BY <2>0, <2>6 DEF HandleResponse, First, Correlates, FinalState
    <2> QED
      BY <2>1, <2>2, <2>3, <2>4, <2>5, <2>6 DEF OrchNext
  <1>2. OrchTypeOK /\ [OrchNext]_orchVars => [Keeps]_orchVars
    BY <1>1
  <1>3. OrchestratorInv => OrchTypeOK
    BY DEF OrchestratorInv
  <1> QED
    BY <1>2, <1>3, OrchestratorInvHolds, PTL DEF OrchSpec, FinalIsFinal
=============================================================================
