------------------------------ MODULE MdqProofs ------------------------------
(***************************************************************************)
(* Proofs about the MDQ client: in static mode for any backoff, document    *)
(* lifetimes and callers; in dynamic mode for any federation, cache size,   *)
(* durations and callers.                                                   *)
(***************************************************************************)
EXTENDS MCMdq, Sequences, FiniteSetTheorems, TLAPS

-----------------------------------------------------------------------------
(* Static mode: a lookup works on a copy of the state, in which the document  *)
(* and what is recorded of its validity agree, as they do in the state.      *)

Ticks == Nat \union {Forever, NoMetadata}

Snapshots == [metadata : Ticks, validUntil : Ticks, hasUrl : BOOLEAN, retryAfter : Nat,
              elapsed : Nat, up : BOOLEAN]

StaticInv ==
  /\ metadata \in Ticks /\ validUntil = metadata
  /\ hasUrl \in BOOLEAN /\ serverUp \in BOOLEAN /\ retryAfter \in Nat /\ backoff \in Nat
  /\ pc \in [Callers -> {"idle", "snapshot", "fetching"}]
  /\ DOMAIN job = {c \in Callers : pc[c] # "idle"}
  /\ \A c \in DOMAIN job : job[c] \in Snapshots /\ job[c].validUntil = job[c].metadata
  /\ ServedIsValid

LEMMA LifeLasts ==
  ASSUME NEW l \in Lives
  PROVE  l \in Ticks /\ ~Due(l)
  BY MdqStaticAssumption DEF Ticks, Due

LEMMA LeastIsNat ==
  ASSUME NEW a \in Nat, NEW b \in Nat
  PROVE  Least(a, b) \in Nat
  BY DEF Least

LEMMA SoonerIsTicks ==
  ASSUME NEW t \in Ticks
  PROVE  Sooner(t) \in Ticks /\ (t \in Nat => Sooner(t) \in Nat)
  BY MdqStaticAssumption DEF Sooner, Ticks

\* Time passes alike for the copy and for what it was copied from.
LEMMA LaterAgrees ==
  ASSUME NEW j \in Snapshots, j.validUntil = j.metadata
  PROVE  Later(j) \in Snapshots /\ Later(j).validUntil = Later(j).metadata
  <1> DEFINE m == Sooner(j.metadata)
             r == Sooner(j.retryAfter)
             e == Least(j.elapsed + 1, RetryMax)
  <1>1. j.metadata \in Ticks /\ j.retryAfter \in Nat /\ j.elapsed \in Nat
    BY DEF Snapshots
  <1>2. m \in Ticks /\ r \in Nat
    BY <1>1, SoonerIsTicks DEF Ticks
  <1>3. e \in Nat
    <2>1. j.elapsed + 1 \in Nat /\ RetryMax \in Nat
      BY <1>1, MdqStaticAssumption
    <2>2. QED
      BY <2>1, LeastIsNat
  <1> DEFINE k == [j EXCEPT !.metadata = m, !.validUntil = m, !.retryAfter = r, !.elapsed = e]
  <1>4. Later(j) = k
    BY Zenon DEF Later
  <1> HIDE DEF m, r, e
  <1>5. k \in Snapshots /\ k.validUntil = k.metadata
    BY <1>2, <1>3 DEF Snapshots
  <1> HIDE DEF k
  <1>6. QED
    BY <1>4, <1>5

\* A caller that is done leaves the others as they are.
LEMMA FinishKeeps ==
  ASSUME StaticInv, NEW c \in Callers, Finish(c)
  PROVE  /\ pc' \in [Callers -> {"idle", "snapshot", "fetching"}]
         /\ DOMAIN job' = {k \in Callers : pc'[k] # "idle"}
         /\ \A k \in DOMAIN job' : job'[k] \in Snapshots /\ job'[k].validUntil = job'[k].metadata
  BY DEF StaticInv, Finish

LEMMA SetJobKeeps ==
  ASSUME StaticInv, NEW c \in Callers, NEW label \in {"snapshot", "fetching"}, NEW j \in Snapshots,
         j.validUntil = j.metadata, SetJob(c, j), pc' = [pc EXCEPT ![c] = label]
  PROVE  /\ pc' \in [Callers -> {"idle", "snapshot", "fetching"}]
         /\ DOMAIN job' = {k \in Callers : pc'[k] # "idle"}
         /\ \A k \in DOMAIN job' : job'[k] \in Snapshots /\ job'[k].validUntil = job'[k].metadata
  BY DEF StaticInv, SetJob

LEMMA StaticStepKeeps == StaticInv /\ [Next]_vars => StaticInv'
  <1> SUFFICES ASSUME StaticInv, [Next]_vars PROVE StaticInv'
    OBVIOUS
  <1>1. CASE Tick
    <2>1. \A c \in DOMAIN job' : job'[c] \in Snapshots /\ job'[c].validUntil = job'[c].metadata
      BY <1>1, LaterAgrees DEF StaticInv, Tick
    <2>2. metadata' \in Ticks /\ validUntil' = metadata' /\ retryAfter' \in Nat
      BY <1>1, SoonerIsTicks DEF StaticInv, Tick, Ticks
    <2>3. QED
      BY <1>1, <2>1, <2>2 DEF StaticInv, Tick, ServedIsValid, NoAnswer
  <1>2. CASE ServerChanges
    BY <1>2 DEF StaticInv, ServerChanges, state, ServedIsValid
  <1>3. ASSUME NEW c \in Callers, Snapshot(c) PROVE StaticInv'
    <2> DEFINE j == [metadata |-> metadata, validUntil |-> validUntil, hasUrl |-> hasUrl,
                     retryAfter |-> retryAfter, elapsed |-> 0, up |-> TRUE]
    <2>1. j \in Snapshots /\ j.validUntil = j.metadata
      BY DEF StaticInv, Snapshots
    <2>2. SetJob(c, j) /\ pc' = [pc EXCEPT ![c] = "snapshot"]
      BY <1>3 DEF Snapshot
    <2> HIDE DEF j
    <2>3. QED
      BY <1>3, <2>1, <2>2, SetJobKeeps DEF StaticInv, Snapshot, state, ServedIsValid
  <1>4. ASSUME NEW c \in Callers, Decide(c) PROVE StaticInv'
    <2>1. /\ c \in DOMAIN job /\ UNCHANGED <<state, serverUp>>
          /\ job[c] \in Snapshots /\ job[c].validUntil = job[c].metadata
      BY <1>4 DEF Decide, StaticInv
    <2>2. CASE Finish(c) /\ (last'.ended = "ok" => ~Due(last'.document))
      BY <2>1, <2>2, FinishKeeps DEF StaticInv, state, ServedIsValid
    <2>3. CASE /\ SetJob(c, [job[c] EXCEPT !.elapsed = 0, !.up = serverUp])
               /\ pc' = [pc EXCEPT ![c] = "fetching"] /\ UNCHANGED last
      <3> DEFINE j == [job[c] EXCEPT !.elapsed = 0, !.up = serverUp]
      <3>1. j \in Snapshots /\ j.validUntil = j.metadata
        BY <2>1 DEF Snapshots, StaticInv
      <3> HIDE DEF j
      <3>2. SetJob(c, j)
        BY <2>3 DEF j
      <3>3. QED
        BY <2>1, <2>3, <3>1, <3>2, SetJobKeeps DEF StaticInv, state, ServedIsValid
    <2>4. QED
      BY <1>4, <2>1, <2>2, <2>3 DEF Decide, RecordedThen
  <1>5. ASSUME NEW c \in Callers, Loaded(c) PROVE StaticInv'
    <2>1. PICK l \in Lives : /\ metadata' = l /\ validUntil' = l
                             /\ last' = [ended |-> "ok", document |-> l]
      BY <1>5 DEF Loaded
    <2>2. l \in Ticks /\ ~Due(l)
      BY LifeLasts
    <2>3. /\ Finish(c) /\ hasUrl' = TRUE /\ retryAfter' = 0 /\ backoff' = RetryBase
          /\ serverUp' = serverUp /\ RetryBase \in Nat
      BY <1>5, MdqStaticAssumption DEF Loaded
    <2>4. QED
      BY <2>1, <2>2, <2>3, FinishKeeps DEF StaticInv, ServedIsValid
  <1>6. ASSUME NEW c \in Callers, Failed(c) PROVE StaticInv'
    <2>1. c \in DOMAIN job /\ job[c].elapsed \in Nat
      BY <1>6 DEF Failed, StaticInv, Snapshots
    <2>2. backoff' \in Nat
      BY <1>6, LeastIsNat, MdqStaticAssumption DEF Failed, Doubled, StaticInv
    <2>3. retryAfter' \in Nat
      BY <1>6, <2>1, <2>2 DEF Failed
    <2>4. Finish(c) /\ hasUrl' = hasUrl /\ UNCHANGED <<metadata, validUntil, serverUp>>
          /\ last' = [ended |-> "error", document |-> NoMetadata]
      BY <1>6 DEF Failed, UrlAfterFailure
    <2>5. QED
      BY <2>2, <2>3, <2>4, FinishKeeps DEF StaticInv, ServedIsValid
  <1>7. CASE UNCHANGED vars
    BY <1>7 DEF StaticInv, vars, state, ServedIsValid
  <1>8. QED
    BY <1>1, <1>2, <1>3, <1>4, <1>5, <1>6, <1>7 DEF Next

LEMMA StaticInit == Init => StaticInv
  <1> SUFFICES ASSUME Init PROVE StaticInv
    OBVIOUS
  <1>1. metadata \in Ticks /\ validUntil = metadata
    BY LifeLasts DEF Init, Ticks
  <1>2. hasUrl \in UrlBacked \/ hasUrl = TRUE
    BY DEF Init
  <1>3. hasUrl \in BOOLEAN
    BY <1>2, MdqStaticAssumption
  <1>4. retryAfter \in {0, RetryBase} /\ backoff = RetryBase
    BY DEF Init
  <1>5. retryAfter \in Nat /\ backoff \in Nat
    BY <1>4, MdqStaticAssumption
  <1>6. ServedIsValid
    BY DEF Init, ServedIsValid, NoAnswer
  <1>7. QED
    BY <1>1, <1>3, <1>5, <1>6 DEF Init, StaticInv

\* No lookup in static mode answers with a document that has expired by then,
\* whatever other lookups and the server do between its steps.
THEOREM StaticServesValid == Spec => []ServedIsValid
  <1>1. StaticInv => ServedIsValid
    BY DEF StaticInv
  <1>2. QED
    BY <1>1, StaticInit, StaticStepKeeps, PTL DEF Spec

-----------------------------------------------------------------------------
(* Dynamic mode: what is fetched, cached or served was the federation's        *)
(* current document when the lookup began that fetched it, or later.          *)

\* With the documents p published and the times r of replacement, the document d
\* of e had not been replaced before t.
CurrentAt(p, r, e, d, t) ==
  d.version <= p[e].version /\ (d.version \in DOMAIN r[e] => t <= r[e][d.version])

PublishedInv ==
  /\ published \in [Entities -> Dynamic!Document] /\ replaced \in [Entities -> Seq(Nat)]
  /\ \A e \in Entities : Len(replaced[e]) = published[e].version - 1
  /\ \A e \in Entities : \A v \in DOMAIN replaced[e] : replaced[e][v] <= clock

Jobs == [entity : Entities, now : Nat, document : Dynamic!Document \union {Dynamic!NoDocument}]

LookupsInv ==
  \A c \in DOMAIN dynamicJob :
    /\ dynamicJob[c] \in Jobs /\ dynamicJob[c].now \in 0..clock
    /\ dynamicPc[c] = "fetched" =>
         /\ dynamicJob[c].document \in Dynamic!Document
         /\ CurrentAt(published, replaced, dynamicJob[c].entity, dynamicJob[c].document,
                      dynamicJob[c].now)

CacheInv ==
  /\ IsFiniteSet(DOMAIN cache)
  /\ \A e \in DOMAIN cache :
       LET d == cache[e].document
       IN /\ d.sound /\ cache[e].until = d.until /\ cache[e].duration = d.duration
          /\ cache[e].fetchedAt <= clock
          /\ CurrentAt(published, replaced, e, d, cache[e].fetchedAt)

\* The answer s is right by r: its document is sound, valid, and not long replaced.
Right(r, s) ==
  LET v == s.document.version
  IN /\ s.document.sound /\ Dynamic!Valid(s.document.until, s.began)
     /\ v \in DOMAIN r[s.entity] =>
          s.began <= r[s.entity][v] \/ s.began < r[s.entity][v] + s.document.duration

AnswersInv ==
  \A s \in served :
    /\ s.entity \in Entities /\ s.document \in Dynamic!Document /\ s.began \in 0..clock
    /\ s.document.version <= published[s.entity].version
    /\ Right(replaced, s)

DynamicInv == Dynamic!TypeOK /\ PublishedInv /\ LookupsInv /\ CacheInv /\ AnswersInv

LEMMA DynamicSizes ==
  /\ Capacity \in Nat /\ Ttl \in Nat /\ MaxVersions \in Nat \ {0} /\ MaxTime \in Nat
  /\ Durations \subseteq Nat /\ Lifetimes \subseteq Nat \union {Forever} /\ Forever \notin Nat
  BY MdqAssumption DEF Dynamic!DynamicConstants

\* The instance's Cardinality is the standard one.
LEMMA SameCardinality == \A S : Dynamic!Cardinality(S) = Cardinality(S)
  BY DEF Dynamic!Cardinality, Cardinality

LEMMA DocumentFields ==
  ASSUME NEW d \in Dynamic!Document
  PROVE  /\ d.version \in Nat \ {0} /\ d.sound \in BOOLEAN /\ d.until \in Nat \union {Forever}
         /\ d.duration \in Nat
  <1>1. /\ d.version \in 1..MaxVersions /\ d.sound \in BOOLEAN
        /\ d.until \in Nat \union {Forever} /\ d.duration \in Durations \union {Ttl}
    BY DEF Dynamic!Document
  <1>2. d.version \in Nat \ {0}
    BY <1>1, DynamicSizes
  <1>3. d.duration \in Nat
    BY <1>1, DynamicSizes
  <1>4. QED
    BY <1>1, <1>2, <1>3

\* What put_bounded leaves behind: the new entry, what was cached, and no more
\* than there is room for.
LEMMA PutBoundedKeeps ==
  ASSUME NEW before, IsFiniteSet(DOMAIN before), Cardinality(DOMAIN before) <= Capacity,
         NEW id, NEW entry, NEW now,
         NEW after \in Dynamic!PutBounded(before, id, entry, Capacity, now)
  PROVE  /\ DOMAIN after \subseteq DOMAIN before \union {id}
         /\ \A e \in DOMAIN after : \/ e = id /\ after[e] = entry
                                    \/ e \in DOMAIN before /\ after[e] = before[e]
         /\ IsFiniteSet(DOMAIN after) /\ Cardinality(DOMAIN after) <= Capacity
  <1> DEFINE live == Dynamic!Purged(before, now)
             L == DOMAIN live
  <1>1. /\ L \subseteq DOMAIN before /\ \A e \in L : live[e] = before[e]
    BY DEF Dynamic!Purged
  <1>2. /\ IsFiniteSet(L) /\ Cardinality(L) \in Nat /\ Cardinality(L) <= Capacity
        /\ Capacity \in Nat
    <2>1. /\ IsFiniteSet(L) /\ Cardinality(L) <= Cardinality(DOMAIN before)
          /\ Cardinality(DOMAIN before) \in Nat
      BY <1>1, FS_Subset, FS_CardinalityType
    <2>2. Cardinality(L) \in Nat
      BY <2>1, FS_CardinalityType
    <2>3. QED
      BY <2>1, <2>2, DynamicSizes
  <1> HIDE DEF live
  <1>3. CASE after = live
    BY <1>1, <1>2, <1>3
  <1>4. ASSUME NEW K \in SUBSET L, after = Dynamic!Insert([e \in K |-> live[e]], id, entry),
               IsFiniteSet(K), Cardinality(K \union {id}) <= Capacity
        PROVE  /\ DOMAIN after \subseteq DOMAIN before \union {id}
               /\ \A e \in DOMAIN after : \/ e = id /\ after[e] = entry
                                          \/ e \in DOMAIN before /\ after[e] = before[e]
               /\ IsFiniteSet(DOMAIN after) /\ Cardinality(DOMAIN after) <= Capacity
    <2>1. /\ DOMAIN after = K \union {id}
          /\ \A e \in DOMAIN after : IF e = id THEN after[e] = entry ELSE after[e] = live[e]
      BY <1>4 DEF Dynamic!Insert
    <2>2. IsFiniteSet(K \union {id})
      BY <1>4, FS_AddElement
    <2>3. QED
      BY <1>1, <1>4, <2>1, <2>2
  <1>5. CASE Capacity # 0 /\ id \notin L /\ Dynamic!Full(live, Capacity)
    <2>1. PICK x \in Dynamic!Oldest(live) :
            after = Dynamic!Insert([e \in L \ {x} |-> live[e]], id, entry)
      BY <1>5, Zenon DEF Dynamic!PutBounded, live
    <2>2. x \in L
      BY DEF Dynamic!Oldest
    <2>3. IsFiniteSet(L \ {x}) /\ Cardinality(L \ {x}) = Cardinality(L) - 1
      BY <1>2, <2>2, FS_RemoveElement
    <2>4. Cardinality((L \ {x}) \union {id}) = Cardinality(L)
      <3>1. Cardinality((L \ {x}) \union {id}) = Cardinality(L \ {x}) + 1
        BY <1>5, <2>3, FS_AddElement
      <3>2. QED
        BY <1>2, <2>3, <3>1
    <2>5. QED
      BY <1>2, <1>4, <2>1, <2>3, <2>4
  <1>6. CASE Capacity # 0 /\ ~(id \notin L /\ Dynamic!Full(live, Capacity))
    <2>1. after = Dynamic!Insert(live, id, entry)
      BY <1>6, Zenon DEF Dynamic!PutBounded, live
    <2>2. after = Dynamic!Insert([e \in L |-> live[e]], id, entry)
      BY <2>1 DEF Dynamic!Insert
    <2>3. Cardinality(L \union {id}) <= Capacity
      <3>1. CASE id \in L
        <4>1. L \union {id} = L
          BY <3>1
        <4>2. QED
          BY <1>2, <4>1
      <3>2. CASE id \notin L /\ Cardinality(L) < Capacity
        <4>1. Cardinality(L \union {id}) = Cardinality(L) + 1
          BY <1>2, <3>2, FS_AddElement
        <4>2. QED
          BY <1>2, <3>2, <4>1
      <3>3. Cardinality(L) >= Capacity => Dynamic!Full(live, Capacity)
        BY SameCardinality DEF Dynamic!Full
      <3>4. QED
        BY <1>2, <1>6, <3>1, <3>2, <3>3
    <2>4. QED
      BY <1>2, <1>4, <2>2, <2>3
  <1>7. CASE Capacity = 0
    BY <1>3, <1>7, Zenon DEF Dynamic!PutBounded, live
  <1>8. QED
    BY <1>5, <1>6, <1>7

LEMMA TickKeeps == ASSUME DynamicInv, Dynamic!Tick PROVE DynamicInv'
  <1>1. clock \in Nat /\ MaxTime \in Nat /\ clock' = clock + 1 /\ clock' \in 0..MaxTime
    BY DynamicSizes DEF DynamicInv, Dynamic!TypeOK, Dynamic!Tick
  <1>2. UNCHANGED <<published, replaced, cache, dynamicPc, dynamicJob, served>>
    BY DEF Dynamic!Tick
  <1>3. Dynamic!TypeOK'
    BY <1>1, <1>2 DEF DynamicInv, Dynamic!TypeOK
  <1>4. PublishedInv'
    <2>1. \A e \in Entities : \A v \in DOMAIN replaced[e] : replaced[e][v] \in Nat
      BY DEF DynamicInv, PublishedInv
    <2>2. QED
      BY <1>1, <1>2, <2>1 DEF DynamicInv, PublishedInv
  <1>5. LookupsInv'
    BY <1>1, <1>2 DEF DynamicInv, LookupsInv
  <1>6. CacheInv'
    <2>1. \A e \in DOMAIN cache : cache[e].fetchedAt \in Nat
      BY DynamicSizes DEF DynamicInv, Dynamic!TypeOK, Dynamic!Entry
    <2>2. QED
      BY <1>1, <1>2, <2>1 DEF DynamicInv, CacheInv
  <1>7. AnswersInv'
    BY <1>1, <1>2 DEF DynamicInv, AnswersInv
  <1>8. QED
    BY <1>3, <1>4, <1>5, <1>6, <1>7 DEF DynamicInv

LEMMA ClearCacheKeeps == ASSUME DynamicInv, Dynamic!ClearCache PROVE DynamicInv'
  <1>1. DOMAIN cache' = {} /\ IsFiniteSet({}) /\ Cardinality({}) = 0
    BY FS_EmptySet DEF Dynamic!ClearCache
  <1>2. Dynamic!Cardinality(DOMAIN cache') <= Capacity
    BY <1>1, SameCardinality, DynamicSizes
  <1>3. UNCHANGED <<clock, published, replaced, dynamicPc, dynamicJob, served>>
    BY DEF Dynamic!ClearCache
  <1>4. Dynamic!TypeOK'
    BY <1>1, <1>2, <1>3 DEF DynamicInv, Dynamic!TypeOK
  <1>5. QED
    BY <1>1, <1>3, <1>4 DEF DynamicInv, PublishedInv, LookupsInv, CacheInv, AnswersInv

\* What was current until now stays so: only now is it replaced.
LEMMA PublishKeeps == ASSUME DynamicInv, NEW e \in Entities, Dynamic!Publish(e) PROVE DynamicInv'
  <1>1. /\ published[e].version < MaxVersions /\ replaced' = [replaced EXCEPT ![e] = Append(@, clock)]
        /\ UNCHANGED <<clock, cache, dynamicPc, dynamicJob, served>>
    BY DEF Dynamic!Publish
  <1>2. PICK l \in Lifetimes, d \in Durations \union {Ttl}, sound \in BOOLEAN :
          published' = [published EXCEPT ![e] =
            [version |-> published[e].version + 1, sound |-> sound, duration |-> d,
             until |-> IF l = Forever THEN Forever ELSE clock + l]]
    BY DEF Dynamic!Publish
  <1> DEFINE new == [version |-> published[e].version + 1, sound |-> sound, duration |-> d,
                     until |-> IF l = Forever THEN Forever ELSE clock + l]
             n == Len(replaced[e]) + 1
  <1>3. /\ clock \in Nat /\ published \in [Entities -> Dynamic!Document]
        /\ replaced \in [Entities -> Seq(Nat)]
        /\ published[e] \in Dynamic!Document /\ replaced[e] \in Seq(Nat)
        /\ published[e].version \in Nat \ {0} /\ n = published[e].version /\ n \in Nat
    <2>1. /\ published[e] \in Dynamic!Document /\ replaced[e] \in Seq(Nat)
          /\ Len(replaced[e]) = published[e].version - 1
      BY DEF DynamicInv, PublishedInv
    <2>2. published[e].version \in Nat \ {0}
      BY <2>1, DocumentFields
    <2>3. QED
      BY <2>1, <2>2 DEF DynamicInv, Dynamic!TypeOK, PublishedInv
  <1>4. new \in Dynamic!Document /\ new.version = n + 1
    <2>1. published[e].version + 1 \in 1..MaxVersions
      BY <1>1, <1>3, DynamicSizes
    <2>2. (IF l = Forever THEN Forever ELSE clock + l) \in Nat \union {Forever}
      BY <1>3, DynamicSizes
    <2>3. QED
      BY <1>3, <2>1, <2>2 DEF Dynamic!Document
  <1>5. published' = [published EXCEPT ![e] = new]
    BY <1>2
  <1> HIDE DEF new
  <1> DEFINE s == replaced[e]
             t == Append(s, clock)
  <1>6. /\ t \in Seq(Nat) /\ Len(t) = n /\ t[n] = clock
        /\ DOMAIN t = DOMAIN s \union {n} /\ n \notin DOMAIN s
        /\ \A k \in DOMAIN s : t[k] = s[k]
    <2>1. s \in Seq(Nat) /\ clock \in Nat /\ DOMAIN s = 1..Len(s) /\ Len(s) \in Nat
      BY <1>3
    <2> HIDE DEF s
    <2>2. t \in Seq(Nat) /\ Len(t) = Len(s) + 1 /\ DOMAIN t = 1..(Len(s) + 1)
      BY <2>1
    <2>3. t[Len(s) + 1] = clock /\ \A k \in 1..Len(s) : t[k] = s[k]
      BY <2>1
    <2> HIDE DEF t
    <2>4. QED
      BY <2>1, <2>2, <2>3 DEF s
  <1>7. replaced' = [replaced EXCEPT ![e] = t]
    BY <1>1
  <1> HIDE DEF t, n
  <1>8. /\ published' \in [Entities -> Dynamic!Document] /\ replaced' \in [Entities -> Seq(Nat)]
        /\ published'[e] = new /\ replaced'[e] = t
        /\ \A f \in Entities \ {e} : published'[f] = published[f] /\ replaced'[f] = replaced[f]
    BY <1>3, <1>4, <1>5, <1>6, <1>7
  <1>9. PublishedInv'
    <2>1. ASSUME NEW f \in Entities
          PROVE  /\ Len(replaced'[f]) = published'[f].version - 1
                 /\ \A v \in DOMAIN replaced'[f] : replaced'[f][v] <= clock
      <3>1. /\ Len(replaced[f]) = published[f].version - 1
            /\ \A v \in DOMAIN replaced[f] : replaced[f][v] <= clock
        BY DEF DynamicInv, PublishedInv
      <3>2. CASE f # e
        BY <1>8, <3>1, <3>2
      <3>3. Len(t) = new.version - 1 /\ \A v \in DOMAIN t : t[v] <= clock
        <4>1. \A v \in DOMAIN s : s[v] <= clock
          BY DEF DynamicInv, PublishedInv
        <4> HIDE DEF s
        <4>2. QED
          BY <1>3, <1>4, <1>6, <4>1
      <3>4. QED
        BY <1>8, <3>2, <3>3
    <2>2. QED
      BY <1>1, <1>8, <2>1 DEF PublishedInv
  <1>10. ASSUME NEW f \in Entities, NEW doc \in Dynamic!Document, NEW at \in Int, at <= clock,
                CurrentAt(published, replaced, f, doc, at)
         PROVE  CurrentAt(published', replaced', f, doc, at)
    <2>1. doc.version \in Nat
      BY DocumentFields
    <2>2. CASE f # e
      BY <1>8, <1>10, <2>2 DEF CurrentAt
    <2>3. CASE f = e
      BY <1>3, <1>4, <1>6, <1>8, <1>10, <2>1, <2>3 DEF CurrentAt
    <2>4. QED
      BY <2>2, <2>3
  <1>11. LookupsInv'
    <2> SUFFICES ASSUME NEW c \in DOMAIN dynamicJob
                 PROVE  /\ dynamicJob[c] \in Jobs /\ dynamicJob[c].now \in 0..clock
                        /\ dynamicPc[c] = "fetched" =>
                             /\ dynamicJob[c].document \in Dynamic!Document
                             /\ CurrentAt(published', replaced', dynamicJob[c].entity,
                                          dynamicJob[c].document, dynamicJob[c].now)
      BY <1>1 DEF LookupsInv
    <2>1. QED
      BY <1>3, <1>10 DEF DynamicInv, LookupsInv, Jobs
  <1>12. CacheInv'
    <2>1. \A f \in DOMAIN cache : /\ f \in Entities /\ cache[f].document \in Dynamic!Document
                                  /\ cache[f].fetchedAt \in Nat
      BY DynamicSizes DEF DynamicInv, Dynamic!TypeOK, Dynamic!Entry
    <2>2. \A f \in DOMAIN cache :
            CurrentAt(published', replaced', f, cache[f].document, cache[f].fetchedAt)
      BY <1>10, <2>1 DEF DynamicInv, CacheInv
    <2>3. QED
      BY <1>1, <2>2 DEF DynamicInv, CacheInv
  <1>13. AnswersInv'
    <2> SUFFICES ASSUME NEW a \in served
                 PROVE  /\ a.entity \in Entities /\ a.document \in Dynamic!Document
                        /\ a.began \in 0..clock
                        /\ a.document.version <= published'[a.entity].version
                        /\ Right(replaced', a)
      BY <1>1 DEF AnswersInv
    <2>1. /\ a.entity \in Entities /\ a.document \in Dynamic!Document /\ a.began \in 0..clock
          /\ a.document.version <= published[a.entity].version
          /\ Right(replaced, a) /\ a.document.version \in Nat
      BY DocumentFields DEF DynamicInv, AnswersInv
    <2>2. CASE a.entity # e
      BY <1>8, <2>1, <2>2 DEF Right
    <2>3. CASE a.entity = e
      <3>1. Right(replaced', a)
        BY <1>3, <1>6, <1>8, <2>1, <2>3 DEF Right
      <3>2. a.document.version <= published'[e].version
        BY <1>3, <1>4, <1>8, <2>1, <2>3
      <3>3. QED
        BY <2>1, <2>3, <3>1, <3>2
    <2>4. QED
      BY <2>2, <2>3
  <1>14. QED
    BY <1>1, <1>9, <1>11, <1>12, <1>13 DEF DynamicInv, Dynamic!TypeOK

\* A caller that is done takes nothing with it.
LEMMA DoneKeeps ==
  ASSUME DynamicInv, NEW c \in Callers, Dynamic!Finish(c),
         UNCHANGED <<clock, published, replaced>>
  PROVE  /\ dynamicPc' \in [Callers -> {"idle", "lookup", "fetching", "fetched"}]
         /\ DOMAIN dynamicJob' = {k \in Callers : dynamicPc'[k] # "idle"}
         /\ LookupsInv'
  <1>1. /\ dynamicPc \in [Callers -> {"idle", "lookup", "fetching", "fetched"}]
        /\ DOMAIN dynamicJob = {k \in Callers : dynamicPc[k] # "idle"}
    BY DEF DynamicInv, Dynamic!TypeOK
  <1>2. /\ dynamicPc' = [dynamicPc EXCEPT ![c] = "idle"]
        /\ DOMAIN dynamicJob' = DOMAIN dynamicJob \ {c}
        /\ \A k \in DOMAIN dynamicJob' : dynamicJob'[k] = dynamicJob[k]
    BY DEF Dynamic!Finish
  <1>3. \A k \in DOMAIN dynamicJob' : k \in DOMAIN dynamicJob /\ dynamicPc'[k] = dynamicPc[k]
    BY <1>1, <1>2
  <1>4. QED
    BY <1>1, <1>2, <1>3 DEF DynamicInv, LookupsInv

LEMMA GetKeeps ==
  ASSUME DynamicInv, NEW c \in Callers, NEW e \in Entities, Dynamic!Get(c, e)
  PROVE  DynamicInv'
  <1> DEFINE j == [entity |-> e, now |-> clock, document |-> Dynamic!NoDocument]
  <1>1. /\ dynamicPc[c] = "idle" /\ dynamicPc' = [dynamicPc EXCEPT ![c] = "lookup"]
        /\ UNCHANGED <<clock, published, replaced, cache, served>>
    BY DEF Dynamic!Get
  <1>2. /\ DOMAIN dynamicJob' = DOMAIN dynamicJob \union {c} /\ dynamicJob'[c] = j
        /\ \A k \in DOMAIN dynamicJob' : k # c => dynamicJob'[k] = dynamicJob[k]
    BY DEF Dynamic!Get
  <1>3. j \in Jobs /\ j.now = clock
    <2>1. clock \in Nat
      BY DynamicSizes DEF DynamicInv, Dynamic!TypeOK
    <2>2. QED
      BY <2>1 DEF Jobs
  <1> HIDE DEF j
  <1>4. Dynamic!TypeOK'
    BY <1>1, <1>2 DEF DynamicInv, Dynamic!TypeOK
  <1>5. LookupsInv'
    <2>1. clock \in 0..clock
      BY DynamicSizes DEF DynamicInv, Dynamic!TypeOK
    <2>2. /\ dynamicPc'[c] = "lookup"
          /\ \A k \in DOMAIN dynamicJob' : k # c => dynamicPc'[k] = dynamicPc[k]
      BY <1>1, <1>2 DEF DynamicInv, Dynamic!TypeOK
    <2>3. QED
      BY <1>1, <1>2, <1>3, <2>1, <2>2 DEF DynamicInv, LookupsInv
  <1>6. QED
    BY <1>1, <1>4, <1>5 DEF DynamicInv, PublishedInv, CacheInv, AnswersInv

\* A cached answer is fresh enough for any lookup that is served from it.
LEMMA LookupKeeps == ASSUME DynamicInv, NEW c \in Callers, Dynamic!Lookup(c) PROVE DynamicInv'
  <1> DEFINE e == dynamicJob[c].entity
             hit == e \in DOMAIN cache /\ ~Dynamic!ShouldRefresh(cache[e], dynamicJob[c].now)
  <1>1. /\ dynamicPc[c] = "lookup" /\ UNCHANGED <<clock, published, replaced, cache>>
        /\ c \in DOMAIN dynamicJob /\ e \in Entities /\ dynamicJob[c].now \in 0..clock
    BY DEF Dynamic!Lookup, DynamicInv, Dynamic!TypeOK, LookupsInv, Jobs
  <1>2. CASE hit /\ Dynamic!Serve(c, cache[e].document) /\ Dynamic!Finish(c)
    <2> DEFINE d == cache[e].document
               a == [entity |-> e, document |-> d, began |-> dynamicJob[c].now]
    <2>1. served' = {a}
      BY <1>2 DEF Dynamic!Serve
    <2>2. a.entity = e /\ a.document = d /\ a.began = dynamicJob[c].now
      OBVIOUS
    <2> HIDE DEF a
    <2>3. /\ cache[e] \in Dynamic!Entry /\ d.sound /\ cache[e].until = d.until
          /\ cache[e].duration = d.duration
          /\ CurrentAt(published, replaced, e, d, cache[e].fetchedAt)
      BY <1>2 DEF DynamicInv, Dynamic!TypeOK, CacheInv
    <2>4. d \in Dynamic!Document /\ cache[e].fetchedAt \in Nat /\ cache[e].duration \in Nat
      BY <2>3, DynamicSizes DEF Dynamic!Entry
    <2>5. /\ dynamicJob[c].now < cache[e].fetchedAt + cache[e].duration
          /\ Dynamic!Valid(cache[e].until, dynamicJob[c].now)
      BY <1>1, <1>2, <2>4 DEF Dynamic!ShouldRefresh, Dynamic!Stale
    <2>6. Right(replaced, a)
      <3>1. ASSUME d.version \in DOMAIN replaced[e]
            PROVE  dynamicJob[c].now < replaced[e][d.version] + d.duration
        <4>1. cache[e].fetchedAt <= replaced[e][d.version]
          BY <2>3, <3>1 DEF CurrentAt
        <4>2. replaced[e][d.version] \in Nat
          BY <1>1, <3>1 DEF DynamicInv, PublishedInv
        <4>3. clock \in Nat
          BY DynamicSizes DEF DynamicInv, Dynamic!TypeOK
        <4>4. d.duration = cache[e].duration
          BY <2>3
        <4> HIDE DEF d, e
        <4>5. QED
          BY <1>1, <2>4, <2>5, <4>1, <4>2, <4>3, <4>4
      <3>2. QED
        BY <2>2, <2>3, <2>5, <3>1 DEF Right
    <2>7. AnswersInv'
      BY <1>1, <2>1, <2>2, <2>3, <2>4, <2>6 DEF AnswersInv, CurrentAt
    <2>8. LookupsInv' /\ Dynamic!TypeOK'
      BY <1>1, <1>2, DoneKeeps DEF DynamicInv, Dynamic!TypeOK
    <2>9. QED
      BY <1>1, <2>7, <2>8 DEF DynamicInv, PublishedInv, CacheInv
  <1>3. CASE dynamicPc' = [dynamicPc EXCEPT ![c] = "fetching"] /\ UNCHANGED <<dynamicJob, served>>
    <2>1. Dynamic!TypeOK'
      BY <1>1, <1>3 DEF DynamicInv, Dynamic!TypeOK
    <2>2. LookupsInv'
      BY <1>1, <1>3 DEF DynamicInv, Dynamic!TypeOK, LookupsInv
    <2>3. QED
      BY <1>1, <1>3, <2>1, <2>2 DEF DynamicInv, PublishedInv, CacheInv, AnswersInv
  <1>4. QED
    BY <1>2, <1>3 DEF Dynamic!Lookup

\* The server's answer is current when it is sent.
LEMMA ServerAnswersKeeps ==
  ASSUME DynamicInv, NEW c \in Callers, Dynamic!ServerAnswers(c)
  PROVE  DynamicInv'
  <1> DEFINE e == dynamicJob[c].entity
             d == published[e]
             j == [dynamicJob[c] EXCEPT !.document = d]
  <1>1. /\ dynamicPc[c] = "fetching" /\ dynamicPc' = [dynamicPc EXCEPT ![c] = "fetched"]
        /\ UNCHANGED <<clock, published, replaced, cache, served>>
        /\ c \in DOMAIN dynamicJob /\ e \in Entities
        /\ dynamicJob[c] \in Jobs /\ dynamicJob[c].now \in 0..clock
    BY DEF Dynamic!ServerAnswers, DynamicInv, Dynamic!TypeOK, LookupsInv, Jobs
  <1>2. dynamicJob' = [dynamicJob EXCEPT ![c] = j]
    BY DEF Dynamic!ServerAnswers
  <1>3. d \in Dynamic!Document /\ Len(replaced[e]) = d.version - 1 /\ replaced[e] \in Seq(Nat)
    BY <1>1 DEF DynamicInv, PublishedInv
  <1>4. j \in Jobs /\ j.entity = e /\ j.now = dynamicJob[c].now /\ j.document = d
    BY <1>1, <1>3 DEF Jobs
  <1>5. CurrentAt(published, replaced, e, d, dynamicJob[c].now)
    <2>1. d.version \in Nat /\ DOMAIN replaced[e] = 1..(d.version - 1)
      BY <1>3, DocumentFields
    <2>2. QED
      BY <2>1 DEF CurrentAt
  <1> HIDE DEF j
  <1>6. /\ DOMAIN dynamicJob' = DOMAIN dynamicJob /\ dynamicJob'[c] = j
        /\ \A k \in DOMAIN dynamicJob \ {c} : dynamicJob'[k] = dynamicJob[k]
    BY <1>1, <1>2
  <1>7. Dynamic!TypeOK'
    BY <1>1, <1>6 DEF DynamicInv, Dynamic!TypeOK
  <1>8. LookupsInv'
    <2>1. \A k \in DOMAIN dynamicJob : k # c => dynamicPc'[k] = dynamicPc[k]
      BY <1>1 DEF DynamicInv, Dynamic!TypeOK
    <2> HIDE DEF d, e
    <2> SUFFICES ASSUME NEW k \in DOMAIN dynamicJob
                 PROVE  /\ dynamicJob'[k] \in Jobs /\ dynamicJob'[k].now \in 0..clock
                        /\ dynamicPc'[k] = "fetched" =>
                             /\ dynamicJob'[k].document \in Dynamic!Document
                             /\ CurrentAt(published, replaced, dynamicJob'[k].entity,
                                          dynamicJob'[k].document, dynamicJob'[k].now)
      BY <1>1, <1>6 DEF LookupsInv
    <2>2. CASE k = c
      BY <1>1, <1>3, <1>4, <1>5, <1>6, <2>2
    <2>3. CASE k # c
      BY <1>6, <2>1, <2>3 DEF DynamicInv, LookupsInv
    <2>4. QED
      BY <2>2, <2>3
  <1>9. QED
    BY <1>1, <1>7, <1>8 DEF DynamicInv, PublishedInv, CacheInv, AnswersInv

LEMMA FetchFailsKeeps ==
  ASSUME DynamicInv, NEW c \in Callers, Dynamic!FetchFails(c)
  PROVE  DynamicInv'
  <1>1. Dynamic!Finish(c) /\ UNCHANGED <<clock, published, replaced, cache, served>>
    BY DEF Dynamic!FetchFails
  <1>2. QED
    BY <1>1, DoneKeeps DEF DynamicInv, Dynamic!TypeOK, PublishedInv, CacheInv, AnswersInv

\* What arrives was current when its lookup began, and is cached as of then.
LEMMA CompleteKeeps ==
  ASSUME DynamicInv, NEW c \in Callers, Dynamic!Complete(c)
  PROVE  DynamicInv'
  <1> DEFINE e == dynamicJob[c].entity
             d == dynamicJob[c].document
             at == dynamicJob[c].now
             entry == [document |-> d, fetchedAt |-> at, duration |-> d.duration, until |-> d.until]
             a == [entity |-> e, document |-> d, began |-> at]
  <1>1. /\ dynamicPc[c] = "fetched" /\ Dynamic!Finish(c)
        /\ UNCHANGED <<clock, published, replaced>>
        /\ c \in DOMAIN dynamicJob
    BY DEF Dynamic!Complete, DynamicInv, Dynamic!TypeOK
  <1>2. /\ e \in Entities /\ d \in Dynamic!Document /\ at \in 0..clock
        /\ CurrentAt(published, replaced, e, d, at)
    BY <1>1 DEF DynamicInv, LookupsInv, Jobs
  <1>3. /\ dynamicPc' \in [Callers -> {"idle", "lookup", "fetching", "fetched"}]
        /\ DOMAIN dynamicJob' = {k \in Callers : dynamicPc'[k] # "idle"}
        /\ LookupsInv'
    BY <1>1, DoneKeeps
  <1>4. PublishedInv' /\ clock' \in 0..MaxTime
    BY <1>1 DEF DynamicInv, Dynamic!TypeOK, PublishedInv
  <1>5. CASE ~Dynamic!Acceptable(c) /\ UNCHANGED <<cache, served>>
    BY <1>1, <1>3, <1>4, <1>5 DEF DynamicInv, Dynamic!TypeOK, CacheInv, AnswersInv
  <1>6. CASE /\ Dynamic!Acceptable(c)
             /\ cache' \in Dynamic!PutBounded(cache, e, Dynamic!NewEntry(c), Capacity, at)
             /\ Dynamic!Serve(c, d)
    <2>1. Dynamic!NewEntry(c) = entry /\ served' = {a} /\ d.sound /\ Dynamic!Valid(d.until, at)
      BY <1>6 DEF Dynamic!NewEntry, Dynamic!ClockAtStart, Dynamic!Serve, Dynamic!Acceptable
    <2>2. /\ entry.document = d /\ entry.fetchedAt = at /\ entry.duration = d.duration
          /\ entry.until = d.until
          /\ a.entity = e /\ a.document = d /\ a.began = at
      OBVIOUS
    <2>3. clock \in 0..MaxTime /\ MaxTime \in Nat /\ at \in 0..MaxTime
      BY <1>2, DynamicSizes DEF DynamicInv, Dynamic!TypeOK
    <2>4. entry \in Dynamic!Entry
      BY <1>2, <2>3, DocumentFields DEF Dynamic!Entry
    <2> HIDE DEF entry, a
    <2>5. /\ DOMAIN cache \subseteq Entities /\ IsFiniteSet(DOMAIN cache)
          /\ Cardinality(DOMAIN cache) <= Capacity
      BY SameCardinality DEF DynamicInv, Dynamic!TypeOK, CacheInv
    <2>6. /\ DOMAIN cache' \subseteq DOMAIN cache \union {e}
          /\ \A f \in DOMAIN cache' : \/ f = e /\ cache'[f] = entry
                                      \/ f \in DOMAIN cache /\ cache'[f] = cache[f]
          /\ IsFiniteSet(DOMAIN cache') /\ Cardinality(DOMAIN cache') <= Capacity
      <3>1. cache' \in Dynamic!PutBounded(cache, e, entry, Capacity, at)
        BY <1>6, <2>1
      <3>2. QED
        BY <2>5, <3>1, PutBoundedKeeps
    <2>7. Dynamic!TypeOK'
      BY <1>2, <1>3, <1>4, <2>4, <2>5, <2>6, SameCardinality DEF DynamicInv, Dynamic!TypeOK
    <2>8. CacheInv'
      <3> SUFFICES ASSUME NEW f \in DOMAIN cache'
                   PROVE  LET k == cache'[f]
                          IN /\ k.document.sound /\ k.until = k.document.until
                             /\ k.duration = k.document.duration /\ k.fetchedAt <= clock
                             /\ CurrentAt(published, replaced, f, k.document, k.fetchedAt)
        BY <1>1, <2>6 DEF CacheInv
      <3>1. CASE f = e /\ cache'[f] = entry
        BY <1>2, <2>1, <2>2, <3>1
      <3>2. CASE f \in DOMAIN cache /\ cache'[f] = cache[f]
        BY <3>2 DEF DynamicInv, CacheInv
      <3>3. QED
        BY <2>6, <3>1, <3>2
    <2>9. AnswersInv'
      <3>1. d.version <= published[e].version
        BY <1>2 DEF CurrentAt
      <3>2. Right(replaced, a)
        BY <1>2, <2>1, <2>2 DEF Right, CurrentAt
      <3>3. QED
        BY <1>1, <1>2, <2>1, <2>2, <3>1, <3>2 DEF AnswersInv
    <2>10. QED
      BY <1>3, <1>4, <2>7, <2>8, <2>9 DEF DynamicInv
  <1>7. QED
    BY <1>5, <1>6 DEF Dynamic!Complete

LEMMA DynamicStep == DynamicInv /\ [Dynamic!Next]_(Dynamic!vars) => DynamicInv'
  <1> SUFFICES ASSUME DynamicInv, [Dynamic!Next]_(Dynamic!vars) PROVE DynamicInv'
    OBVIOUS
  <1>1. CASE UNCHANGED Dynamic!vars
    BY <1>1 DEF DynamicInv, Dynamic!TypeOK, PublishedInv, LookupsInv, CacheInv, AnswersInv,
                Dynamic!vars
  <1>2. CASE Dynamic!Next
    BY <1>2, TickKeeps, ClearCacheKeeps, PublishKeeps, GetKeeps, LookupKeeps, ServerAnswersKeeps,
       FetchFailsKeeps, CompleteKeeps DEF Dynamic!Next
  <1>3. QED
    BY <1>1, <1>2

LEMMA DynamicInit == Dynamic!Init => DynamicInv
  <1> SUFFICES ASSUME Dynamic!Init PROVE DynamicInv
    OBVIOUS
  <1>1. /\ clock = 0 /\ DOMAIN cache = {} /\ served = {} /\ DOMAIN dynamicJob = {}
        /\ dynamicPc = [c \in Callers |-> "idle"]
        /\ published = [e \in Entities |-> Dynamic!FirstDocument]
        /\ replaced = [e \in Entities |-> << >>]
    BY DEF Dynamic!Init
  <1>2. Dynamic!FirstDocument \in Dynamic!Document /\ Dynamic!FirstDocument.version = 1
    BY DynamicSizes DEF Dynamic!Document, Dynamic!FirstDocument
  <1>3. PublishedInv
    BY <1>1, <1>2 DEF PublishedInv
  <1>4. IsFiniteSet(DOMAIN cache) /\ Dynamic!Cardinality(DOMAIN cache) = 0
    BY <1>1, FS_EmptySet, SameCardinality
  <1>5. Dynamic!TypeOK
    BY <1>1, <1>4, DynamicSizes DEF Dynamic!TypeOK
  <1>6. QED
    BY <1>1, <1>3, <1>4, <1>5 DEF DynamicInv, LookupsInv, CacheInv, AnswersInv

\* No lookup in dynamic mode answers with a document that is unsound or had
\* expired when it began, nor with one replaced for a cache duration by then,
\* however long its fetch, or the fetch that filled the cache, was under way.
THEOREM DynamicServesCurrent == Dynamic!Spec => []ServedIsCurrent
  <1>1. DynamicInv => ServedIsCurrent
    BY DEF DynamicInv, AnswersInv, Right, ServedIsCurrent, Dynamic!ServedIsCurrent
  <1>2. QED
    BY <1>1, DynamicInit, DynamicStep, PTL DEF Dynamic!Spec


\* The client that TLC runs, built in one mode or the other: both hold of it.
THEOREM ModesServeWell == MdqSpec => [](ServedIsCurrent /\ ServedIsValid)
  <1>1. MdqInit => StaticInv /\ DynamicInv
    BY DynamicInit, StaticInit DEF MdqInit
  <1>2. StaticInv /\ DynamicInv /\ [MdqNext]_<<vars, dynamicVars>> => (StaticInv /\ DynamicInv)'
    <2> SUFFICES ASSUME StaticInv, DynamicInv, [MdqNext]_<<vars, dynamicVars>>
                 PROVE  StaticInv' /\ DynamicInv'
      OBVIOUS
    <2>1. UNCHANGED dynamicVars => UNCHANGED Dynamic!vars
      BY DEF dynamicVars, Dynamic!vars
    <2>2. [Next]_vars /\ [Dynamic!Next]_(Dynamic!vars)
      BY <2>1 DEF MdqNext
    <2>3. QED
      BY <2>2, StaticStepKeeps, DynamicStep
  <1>3. StaticInv /\ DynamicInv => ServedIsCurrent /\ ServedIsValid
    BY DEF StaticInv, DynamicInv, AnswersInv, Right, ServedIsCurrent, Dynamic!ServedIsCurrent
  <1>4. QED
    BY <1>1, <1>2, <1>3, PTL DEF MdqSpec
=============================================================================
