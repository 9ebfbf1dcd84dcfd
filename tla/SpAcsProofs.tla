---------------------------- MODULE SpAcsProofs ----------------------------
(***************************************************************************)
(* Proofs about the assertion consumer service and its replay cache, for any *)
(* number of handlers, requests, browsers and assertions, any clock bound    *)
(* and any setting of the validator: what the cache remembers, what the      *)
(* one-time, browser-bound request tracker gives to concurrent logins, and   *)
(* what the two give together.                                               *)
(***************************************************************************)
EXTENDS SpAcs, TLAPS
-----------------------------------------------------------------------------
(* The replay cache on its own.                                             *)

\* What the cache holds of each accepted ID: while the expiry it came with is
\* ahead, an entry that lives as long.
Kept ==
  \A i \in DOMAIN uses : uses[i] > clock => i \in DOMAIN entries /\ entries[i] >= uses[i]

CacheTyped ==
  /\ clock \in Nat
  /\ \A i \in DOMAIN entries : entries[i] \in Nat
  /\ \A i \in DOMAIN uses : uses[i] \in Nat

CacheInv == CacheTyped /\ Kept

\* Pruning only takes entries whose expiry is due.
LEMMA ScannedKeepsLive ==
  ASSUME NEW i \in DOMAIN entries, entries[i] > clock
  PROVE  i \in DOMAIN Scanned /\ Scanned[i] = entries[i]
  BY DEF Scanned, Unexpired

LEMMA ScannedTyped ==
  ASSUME CacheTyped
  PROVE  \A i \in DOMAIN Scanned : i \in DOMAIN entries /\ Scanned[i] \in Nat
  BY DEF CacheTyped, Scanned, Unexpired

\* A step keeps the invariant when its entries are the scanned ones or more.
LEMMA AcceptKeeps ==
  ASSUME CacheInv, NEW id, NEW expiry \in Nat, Accept(id, expiry)
  PROVE  CacheInv'
  <1>1. CacheTyped'
    BY ScannedTyped DEF CacheInv, Accept, Put, CacheTyped
  <1>2. ASSUME NEW i \in DOMAIN uses', uses'[i] > clock'
        PROVE  i \in DOMAIN entries' /\ entries'[i] >= uses'[i]
    <2>1. CASE i = id
      <3>1. uses'[i] = expiry /\ expiry > clock
        BY <1>2, <2>1 DEF Accept, Put
      <3>2. QED
        BY <2>1, <3>1 DEF Accept, Put, Remember
    <2>2. CASE i # id
      <3>1. i \in DOMAIN uses /\ uses'[i] = uses[i] /\ uses[i] > clock
        BY <1>2, <2>2 DEF Accept, Put
      <3>2. i \in DOMAIN entries /\ entries[i] >= uses[i] /\ entries[i] > clock
        BY <3>1 DEF CacheInv, Kept, CacheTyped
      <3>3. i \in DOMAIN Scanned /\ Scanned[i] = entries[i]
        BY <3>2, ScannedKeepsLive
      <3>4. QED
        BY <2>2, <3>1, <3>2, <3>3 DEF Accept, Put
    <2>3. QED
      BY <2>1, <2>2
  <1>3. QED
    BY <1>1, <1>2 DEF CacheInv, Kept

LEMMA ScanKeeps ==
  ASSUME CacheInv, UNCHANGED <<clock, uses>>, entries' = Scanned \/ entries' = Unexpired
  PROVE  CacheInv'
  <1>1. CacheTyped'
    BY ScannedTyped DEF CacheInv, CacheTyped, Unexpired
  <1>2. ASSUME NEW i \in DOMAIN uses, uses[i] > clock
        PROVE  i \in DOMAIN entries' /\ entries'[i] >= uses[i]
    <2>1. i \in DOMAIN entries /\ entries[i] >= uses[i] /\ entries[i] > clock
      BY <1>2 DEF CacheInv, Kept, CacheTyped
    <2>2. i \in DOMAIN Unexpired /\ Unexpired[i] = entries[i]
      BY <2>1 DEF Unexpired
    <2>3. QED
      BY <2>1, <2>2, ScannedKeepsLive
  <1>3. QED
    BY <1>1, <1>2 DEF CacheInv, Kept

\* From its acceptance until the expiry it came with, an assertion ID is
\* refused, whatever other IDs, prunings and cleanups come in between: the
\* single-use promise check_and_insert makes to check_replay.
THEOREM RemembersAcceptedIds == ReplaySpec => []RememberedUntilExpiry
  <1>1. ReplayInit => CacheInv
    BY DEF ReplayInit, CacheInv, CacheTyped, Kept
  <1>2. CacheInv /\ [ReplayNext]_replayVars => CacheInv'
    <2> SUFFICES ASSUME CacheInv, [ReplayNext]_replayVars PROVE CacheInv'
      OBVIOUS
    <2>1. ASSUME NEW i \in Ids, NEW e \in 0..MaxTime, Accept(i, e) PROVE CacheInv'
      <3>1. e \in Nat
        BY ReplayAssumption
      <3>2. QED
        BY <2>1, <3>1, AcceptKeeps
    <2>2. ASSUME NEW i \in Ids, Refuse(i) PROVE CacheInv'
      BY <2>2, ScanKeeps DEF Refuse
    <2>3. CASE Cleanup
      BY <2>3, ScanKeeps DEF Cleanup
    <2>4. CASE Advance
      BY <2>4 DEF Advance, CacheInv, CacheTyped, Kept
    <2>5. CASE UNCHANGED replayVars
      BY <2>5 DEF replayVars, CacheInv, CacheTyped, Kept
    <2>6. QED
      BY <2>1, <2>2, <2>3, <2>4, <2>5 DEF ReplayNext
  <1>3. CacheInv => RememberedUntilExpiry
    <2> SUFFICES ASSUME CacheInv, NEW i \in DOMAIN uses, uses[i] > clock
                 PROVE  ~Fresh(i)
      BY DEF RememberedUntilExpiry
    <2>1. i \in DOMAIN entries /\ entries[i] > clock
      BY DEF CacheInv, Kept, CacheTyped
    <2>2. QED
      BY <2>1, ScannedKeepsLive DEF Fresh
  <1>4. QED
    BY <1>1, <1>2, <1>3, PTL DEF ReplaySpec

-----------------------------------------------------------------------------
(* The request tracker under concurrent logins.                             *)

Job == [response : Response, cookie : Browsers \union {NoCookie},
        expected : RequestIds \union {NoRequest}, stamp : 0..MaxTime,
        todo : SUBSET Assertions, valid : BOOLEAN]

AcsTyped ==
  /\ clock \in 0..MaxTime
  /\ responses \subseteq Response
  /\ pc \in [Handlers -> {"idle", "correlate", "stamp", "validate"}]
  /\ job \in [Handlers -> Job]
  /\ DOMAIN sent \subseteq RequestIds

\* The tracker: a spent ID was sent and is gone; what is tracked is what was
\* sent.
TrackerInv ==
  /\ spent \subseteq DOMAIN sent
  /\ spent \intersect DOMAIN ids = {}
  /\ \A i \in DOMAIN ids : i \in DOMAIN sent /\ ids[i] = sent[i]

\* A handler that consumed a request holds it alone, in the name of the browser
\* that sent it, and nobody has logged in with it.
HolderInv ==
  /\ \A h \in Handlers :
       LET i == job[h].expected
       IN i # NoRequest => /\ i \in spent
                           /\ sent[i].browser = job[h].cookie
                           /\ \A l \in logins : l.request # i
                           /\ pc[h] \in {"stamp", "validate"}
  /\ \A h, k \in Handlers :
       job[h].expected = job[k].expected /\ job[h].expected # NoRequest => h = k

LoginInv ==
  /\ \A l \in logins : l.request # NoRequest =>
       l.request \in spent /\ sent[l.request].browser = l.browser
  /\ OneLoginPerRequest

AcsInv == AcsTyped /\ TrackerInv /\ HolderInv /\ LoginInv

LEMMA NoJobTyped == NoJob \in Job
  BY ReplayAssumption, SpAcsAssumption DEF NoJob, Job, Response

-----------------------------------------------------------------------------

LEMMA SpLoginKeeps ==
  ASSUME AcsInv, NEW b \in Browsers, SpLogin(b)
  PROVE  AcsInv'
  <1>1. PICK i \in RequestIds \ DOMAIN sent : Tracker!StoreBound(i, b)
    BY DEF SpLogin
  <1> DEFINE e == Tracker!NewEntry(b)
  <1>2. PICK evicted \in Tracker!Evictable(i) :
          ids' = Tracker!With([j \in Tracker!AliveIds \ evicted |-> ids[j]], i, e)
    BY <1>1 DEF Tracker!StoreBound, Tracker!Insert
  <1>3. sent' = Tracker!With(sent, i, e) /\ spent' = spent \ {i} /\ UNCHANGED clock
    BY <1>1 DEF Tracker!StoreBound, Tracker!Insert
  <1>4. UNCHANGED <<responses, pc, job, logins>>
    BY DEF SpLogin
  <1> HIDE DEF e
  <1>5. i \notin spent /\ spent' = spent
    BY <1>1, <1>3 DEF AcsInv, TrackerInv
  <1>6. DOMAIN sent' = DOMAIN sent \union {i} /\ \A j \in DOMAIN sent : sent'[j] = sent[j]
    BY <1>1, <1>3 DEF Tracker!With
  <1>7. AcsTyped'
    BY <1>1, <1>3, <1>4, <1>6 DEF AcsInv, AcsTyped
  <1>8. TrackerInv'
    <2>1. Tracker!AliveIds \subseteq DOMAIN ids
      BY DEF Tracker!AliveIds
    <2>2. DOMAIN ids' \subseteq DOMAIN ids \union {i}
      BY <1>2, <2>1 DEF Tracker!With
    <2>3. \A j \in DOMAIN ids' : j \in DOMAIN sent' /\ ids'[j] = sent'[j]
      BY <1>2, <1>3, <2>1 DEF Tracker!With, AcsInv, TrackerInv
    <2>4. QED
      BY <1>5, <1>6, <2>2, <2>3 DEF AcsInv, TrackerInv
  <1>9. HolderInv'
    BY <1>4, <1>5, <1>6 DEF AcsInv, TrackerInv, HolderInv
  <1>10. LoginInv'
    BY <1>4, <1>5, <1>6 DEF AcsInv, TrackerInv, LoginInv, OneLoginPerRequest
  <1>11. QED
    BY <1>7, <1>8, <1>9, <1>10 DEF AcsInv

LEMMA CorrelateKeeps ==
  ASSUME AcsInv, NEW h \in Handlers, Correlate(h)
  PROVE  AcsInv'
  <1> DEFINE irt == job[h].response.irt
             cookie == job[h].cookie
  <1>1. /\ pc[h] = "correlate" /\ pc' = [pc EXCEPT ![h] = "stamp"]
        /\ UNCHANGED <<responses, logins>>
    BY DEF Correlate
  <1>2. irt \in RequestIds \union {NoRequest} /\ job[h].expected = NoRequest
    BY <1>1 DEF AcsInv, AcsTyped, HolderInv, Job, Response
  <1>3. CASE UNCHANGED <<clock, trackerVars, job>>
    <2>1. AcsTyped'
      BY <1>1, <1>3 DEF AcsInv, AcsTyped, trackerVars
    <2>2. TrackerInv' /\ LoginInv'
      BY <1>1, <1>3 DEF AcsInv, TrackerInv, LoginInv, OneLoginPerRequest, trackerVars
    <2>3. HolderInv'
      BY <1>1, <1>2, <1>3 DEF AcsInv, AcsTyped, HolderInv, trackerVars
    <2>4. QED
      BY <2>1, <2>2, <2>3 DEF AcsInv
  <1>4. CASE /\ irt # NoRequest /\ Tracker!ConsumeFails(irt, cookie) /\ UNCHANGED job
    <2>1. /\ UNCHANGED <<clock, sent, spent>> /\ DOMAIN ids' \subseteq DOMAIN ids
          /\ \A i \in DOMAIN ids' : ids'[i] = ids[i]
      BY <1>4 DEF Tracker!ConsumeFails, Tracker!Without
    <2>2. AcsTyped'
      BY <1>1, <1>4, <2>1 DEF AcsInv, AcsTyped
    <2>3. TrackerInv' /\ LoginInv'
      BY <1>1, <2>1 DEF AcsInv, TrackerInv, LoginInv, OneLoginPerRequest
    <2>4. HolderInv'
      BY <1>1, <1>2, <1>4, <2>1 DEF AcsInv, AcsTyped, HolderInv
    <2>5. QED
      BY <2>2, <2>3, <2>4 DEF AcsInv
  <1>5. CASE /\ irt # NoRequest /\ Tracker!ConsumeOk(irt, cookie)
             /\ job' = [job EXCEPT ![h].expected = irt]
    <2>1. /\ irt \in DOMAIN ids /\ ids[irt].browser = cookie
          /\ DOMAIN ids' = DOMAIN ids \ {irt}
          /\ \A i \in DOMAIN ids' : ids'[i] = ids[i]
          /\ spent' = spent \union {irt} /\ UNCHANGED <<clock, sent>>
      BY <1>5 DEF Tracker!ConsumeOk, Tracker!Consumable, Tracker!Without
    <2>2. irt \notin spent /\ irt \in DOMAIN sent /\ sent[irt].browser = cookie
      BY <2>1 DEF AcsInv, TrackerInv
    <2>3. [job[h] EXCEPT !.expected = irt] \in Job
      BY <1>2 DEF AcsInv, AcsTyped, Job
    <2>4. job' = [job EXCEPT ![h] = [job[h] EXCEPT !.expected = irt]]
      BY <1>5
    <2>5. AcsTyped'
      BY <1>1, <2>1, <2>3, <2>4 DEF AcsInv, AcsTyped
    <2>6. TrackerInv'
      BY <2>1, <2>2 DEF AcsInv, TrackerInv
    <2>7. LoginInv'
      BY <1>1, <2>1 DEF AcsInv, LoginInv, OneLoginPerRequest
    <2>8. /\ job'[h].expected = irt /\ job'[h].cookie = cookie
          /\ \A k \in Handlers : k # h => job'[k] = job[k]
      BY <2>4 DEF AcsInv, AcsTyped, Job
    <2>9. \A l \in logins : l.request # irt
      BY <1>5, <2>2 DEF AcsInv, LoginInv
    <2>10. \A k \in Handlers : k # h => job[k].expected # irt
      BY <1>5, <2>2 DEF AcsInv, HolderInv
    <2>11. HolderInv'
      <3>1. pc'[h] = "stamp" /\ \A k \in Handlers : k # h => pc'[k] = pc[k]
        BY <1>1 DEF AcsInv, AcsTyped
      <3>2. ASSUME NEW k \in Handlers, job'[k].expected # NoRequest
            PROVE  /\ job'[k].expected \in spent'
                   /\ sent'[job'[k].expected].browser = job'[k].cookie
                   /\ \A l \in logins' : l.request # job'[k].expected
                   /\ pc'[k] \in {"stamp", "validate"}
        BY <1>1, <2>1, <2>2, <2>8, <2>9, <3>1, <3>2 DEF AcsInv, HolderInv
      <3>3. ASSUME NEW j \in Handlers, NEW k \in Handlers,
                   job'[j].expected = job'[k].expected, job'[j].expected # NoRequest
            PROVE  j = k
        BY <2>8, <2>10, <3>3 DEF AcsInv, HolderInv
      <3>4. QED
        BY <3>2, <3>3 DEF HolderInv
    <2>12. QED
      BY <2>5, <2>6, <2>7, <2>11 DEF AcsInv
  <1>6. QED
    BY <1>3, <1>4, <1>5 DEF Correlate

\* A step that leaves the tracker and the logins alone, and gives one handler a
\* job that holds what it held before, or nothing.
LEMMA JobStepKeeps ==
  ASSUME AcsInv, NEW h \in Handlers, NEW next \in Job,
         NEW call \in {"idle", "correlate", "stamp", "validate"},
         pc' = [pc EXCEPT ![h] = call], job' = [job EXCEPT ![h] = next],
         \/ next.expected = NoRequest
         \/ /\ next.expected = job[h].expected /\ next.cookie = job[h].cookie
            /\ call = "validate",
         UNCHANGED <<clock, trackerVars, responses, logins>>
  PROVE  AcsInv'
  <1>1. AcsTyped'
    BY DEF AcsInv, AcsTyped, trackerVars
  <1>2. TrackerInv' /\ LoginInv'
    BY DEF AcsInv, TrackerInv, LoginInv, OneLoginPerRequest, trackerVars
  <1>3. /\ job'[h] = next /\ pc'[h] = call
        /\ \A k \in Handlers : k # h => job'[k] = job[k] /\ pc'[k] = pc[k]
    BY DEF AcsInv, AcsTyped
  <1>4. HolderInv'
    BY <1>3 DEF AcsInv, HolderInv, trackerVars
  <1>5. QED
    BY <1>1, <1>2, <1>4 DEF AcsInv

\* The handler ends, with a login or without.
LEMMA FinishKeeps ==
  ASSUME AcsInv, NEW h \in Handlers, NEW valid \in BOOLEAN, Finish(h, valid),
         valid => InResponseToOk(h),
         UNCHANGED <<clock, trackerVars, responses>>
  PROVE  AcsInv'
  <1> DEFINE irt == job[h].response.irt
             l0 == [number |-> Cardinality(logins) + 1, browser |-> job[h].cookie,
                    request |-> irt, assertions |-> job[h].response.assertions]
  <1>1. CASE ~valid
    <2>1. logins' = logins
      BY <1>1 DEF Finish
    <2>2. NoJob.expected = NoRequest
      BY DEF NoJob
    <2>3. pc' = [pc EXCEPT ![h] = "idle"] /\ job' = [job EXCEPT ![h] = NoJob]
      BY DEF Finish
    <2>4. QED
      BY <2>1, <2>2, <2>3, NoJobTyped, JobStepKeeps
  <1>2. CASE valid
    <2>1. logins' = logins \union {l0}
      BY <1>2 DEF Finish
    <2>2. irt # NoRequest => /\ job[h].expected = irt /\ irt \in spent
                             /\ sent[irt].browser = job[h].cookie
                             /\ \A l \in logins : l.request # irt
      BY <1>2 DEF InResponseToOk, AcsInv, HolderInv
    <2>3. AcsTyped' /\ TrackerInv'
      BY NoJobTyped DEF Finish, AcsInv, AcsTyped, TrackerInv, trackerVars
    <2>4. /\ l0.request = irt /\ l0.browser = job[h].cookie
      OBVIOUS
    <2> HIDE DEF l0
    <2>5. LoginInv'
      BY <2>1, <2>2, <2>4 DEF AcsInv, LoginInv, OneLoginPerRequest, trackerVars
    <2>6. /\ job'[h] = NoJob
          /\ \A k \in Handlers : k # h => job'[k] = job[k] /\ pc'[k] = pc[k]
      BY DEF Finish, AcsInv, AcsTyped
    <2>7. NoJob.expected = NoRequest
      BY DEF NoJob
    <2>8. \A k \in Handlers : k # h /\ job[k].expected # NoRequest => job[k].expected # irt
      BY <2>2 DEF AcsInv, HolderInv
    <2>9. HolderInv'
      BY <2>1, <2>4, <2>6, <2>7, <2>8 DEF AcsInv, HolderInv, trackerVars
    <2>10. QED
      BY <2>3, <2>5, <2>9 DEF AcsInv
  <1>3. QED
    BY <1>1, <1>2

LEMMA ValidateKeeps ==
  ASSUME AcsInv, NEW h \in Handlers, Validate(h)
  PROVE  AcsInv'
  <1>1. PICK a \in job[h].todo :
          LET rest == job[h].todo \ {a}
              Conclude(fresh) ==
                LET valid == /\ job[h].valid /\ fresh
                             /\ InWindow(a, job[h].stamp) /\ InResponseToOk(h)
                IN IF rest = {} THEN Finish(h, valid)
                   ELSE /\ job' = [job EXCEPT ![h].todo = rest, ![h].valid = valid]
                        /\ UNCHANGED <<pc, logins>>
          IN \/ Accept(a, ReplayExpiry(a, job[h].stamp)) /\ Conclude(TRUE)
             \/ Refuse(a) /\ Conclude(FALSE)
    BY DEF Validate
  <1> DEFINE rest == job[h].todo \ {a}
             verdict(fresh) == /\ job[h].valid /\ fresh
                               /\ InWindow(a, job[h].stamp) /\ InResponseToOk(h)
  <1>2. PICK fresh \in BOOLEAN :
          IF rest = {} THEN Finish(h, verdict(fresh))
          ELSE /\ job' = [job EXCEPT ![h].todo = rest, ![h].valid = verdict(fresh)]
               /\ UNCHANGED <<pc, logins>>
    BY <1>1
  <1> DEFINE valid == verdict(fresh)
  <1>3. UNCHANGED <<clock, trackerVars, responses>>
    BY <1>1 DEF Validate, Accept, Refuse
  <1>4. valid \in BOOLEAN /\ (valid => InResponseToOk(h))
    OBVIOUS
  <1>5. pc[h] = "validate"
    BY DEF Validate
  <1> HIDE DEF valid, verdict
  <1>6. CASE rest = {}
    BY <1>2, <1>3, <1>4, <1>6, FinishKeeps DEF valid
  <1>7. CASE rest # {}
    <2> DEFINE next == [job[h] EXCEPT !.todo = rest, !.valid = valid]
    <2>1. job[h] \in Job /\ rest \in SUBSET Assertions
      BY DEF AcsInv, AcsTyped, Job
    <2>2. next \in Job
      BY <1>4, <2>1 DEF Job
    <2>3. next.expected = job[h].expected /\ next.cookie = job[h].cookie
      BY <2>1 DEF Job
    <2>4. job' = [job EXCEPT ![h] = next]
      BY <1>2, <1>7, <2>1 DEF valid, AcsInv, AcsTyped, Job
    <2>5. pc' = [pc EXCEPT ![h] = "validate"] /\ logins' = logins
      BY <1>2, <1>5, <1>7 DEF AcsInv, AcsTyped
    <2>6. QED
      BY <1>3, <2>2, <2>3, <2>4, <2>5, JobStepKeeps
  <1>8. QED
    BY <1>6, <1>7

-----------------------------------------------------------------------------

\* The invariant holds whatever responses circulate, however copies of them are
\* delivered and however the handlers interleave.
THEOREM AcsInvariant == Spec => []AcsInv
  <1>1. Init => AcsInv
    <2> SUFFICES ASSUME Init PROVE AcsInv
      OBVIOUS
    <2>1. AcsTyped
      BY NoJobTyped, ReplayAssumption DEF Init, AcsTyped, ReplayInit, Tracker!TrackerInit
    <2>2. TrackerInv /\ LoginInv
      BY DEF Init, Tracker!TrackerInit, TrackerInv, LoginInv, OneLoginPerRequest
    <2>3. HolderInv
      BY DEF Init, HolderInv, NoJob
    <2>4. QED
      BY <2>1, <2>2, <2>3 DEF AcsInv
  <1>2. AcsInv /\ [Next]_vars => AcsInv'
    <2> SUFFICES ASSUME AcsInv, [Next]_vars PROVE AcsInv'
      OBVIOUS
    <2>1. ASSUME NEW b \in Browsers, SpLogin(b) PROVE AcsInv'
      BY <2>1, SpLoginKeeps
    <2>2. CASE IdpRespond
      <3>1. PICK i \in DOMAIN sent \union {NoRequest}, as \in SUBSET Assertions,
                 ok \in BOOLEAN :
              responses' = responses \union {[irt |-> i, assertions |-> as, success |-> ok]}
        BY <2>2 DEF IdpRespond
      <3>2. UNCHANGED <<clock, trackerVars, pc, job, logins>>
        BY <2>2 DEF IdpRespond
      <3>3. [irt |-> i, assertions |-> as, success |-> ok] \in Response
        BY DEF Response, AcsInv, AcsTyped
      <3>4. responses' \subseteq Response
        BY <3>1, <3>3 DEF AcsInv, AcsTyped
      <3>5. AcsTyped'
        BY <3>2, <3>4 DEF AcsInv, AcsTyped, trackerVars
      <3>6. TrackerInv' /\ HolderInv' /\ LoginInv'
        BY <3>2 DEF AcsInv, TrackerInv, HolderInv, LoginInv, OneLoginPerRequest, trackerVars
      <3>7. QED
        BY <3>5, <3>6 DEF AcsInv
    <2>3. ASSUME NEW h \in Handlers, Deliver(h) PROVE AcsInv'
      <3>1. PICK m \in responses, c \in Browsers \union {NoCookie} :
              job' = [job EXCEPT ![h] = [NoJob EXCEPT !.response = m, !.cookie = c,
                                                      !.todo = m.assertions]]
        BY <2>3 DEF Deliver
      <3> DEFINE next == [NoJob EXCEPT !.response = m, !.cookie = c, !.todo = m.assertions]
      <3>2. m \in Response /\ m.assertions \in SUBSET Assertions
        BY DEF AcsInv, AcsTyped, Response
      <3>3. next \in Job
        BY <3>2, NoJobTyped DEF Job
      <3>4. next.expected = NoRequest
        BY DEF NoJob
      <3>5. QED
        BY <2>3, <3>1, <3>3, <3>4, JobStepKeeps DEF Deliver
    <2>4. ASSUME NEW h \in Handlers, Correlate(h) PROVE AcsInv'
      BY <2>4, CorrelateKeeps
    <2>5. ASSUME NEW h \in Handlers, Stamp(h) PROVE AcsInv'
      <3>1. CASE pc' = [pc EXCEPT ![h] = "validate"]
                 /\ job' = [job EXCEPT ![h] = [job[h] EXCEPT !.stamp = clock]]
        <4> DEFINE next == [job[h] EXCEPT !.stamp = clock]
        <4>1. next \in Job /\ next.expected = job[h].expected /\ next.cookie = job[h].cookie
          BY DEF AcsInv, AcsTyped, Job
        <4>2. QED
          BY <2>5, <3>1, <4>1, JobStepKeeps DEF Stamp
      <3>2. CASE pc' = [pc EXCEPT ![h] = "idle"] /\ job' = [job EXCEPT ![h] = NoJob]
        <4>1. NoJob.expected = NoRequest
          BY DEF NoJob
        <4>2. QED
          BY <2>5, <3>2, <4>1, NoJobTyped, JobStepKeeps DEF Stamp
      <3>3. QED
        BY <2>5, <3>1, <3>2 DEF Stamp
    <2>6. ASSUME NEW h \in Handlers, Validate(h) PROVE AcsInv'
      BY <2>6, ValidateKeeps
    <2>7. CASE Elapse
      <3>1. clock' \in 0..MaxTime
        BY <2>7, ReplayAssumption DEF Elapse, AcsInv, AcsTyped
      <3>2. QED
        BY <2>7, <3>1 DEF Elapse, AcsInv, AcsTyped, TrackerInv, HolderInv, LoginInv,
                          OneLoginPerRequest, trackerVars
    <2>8. CASE Sweep
      BY <2>8 DEF Sweep, Cleanup, AcsInv, AcsTyped, TrackerInv, HolderInv, LoginInv,
                  OneLoginPerRequest, trackerVars
    <2>9. CASE UNCHANGED vars
      BY <2>9 DEF vars, AcsInv, AcsTyped, TrackerInv, HolderInv, LoginInv, OneLoginPerRequest
    <2>10. QED
      BY <2>1, <2>2, <2>3, <2>4, <2>5, <2>6, <2>7, <2>8, <2>9 DEF Next
  <1>3. QED
    BY <1>1, <1>2, PTL DEF Spec

\* One AuthnRequest opens at most one login: of any handlers that process
\* responses to it at once, one consumes the request ID.
THEOREM RequestsAreSpentOnce == Spec => []OneLoginPerRequest
  <1>1. AcsInv => OneLoginPerRequest
    BY DEF AcsInv, LoginInv
  <1>2. QED
    BY <1>1, AcsInvariant, PTL

\* A solicited login belongs to the browser that started it: no delivery with
\* another browser's cookie, or none, completes it.
THEOREM LoginsStayWithTheirBrowser == Spec => []LoginBoundToBrowser
  <1>1. AcsInv => LoginBoundToBrowser
    BY DEF AcsInv, LoginInv, TrackerInv, LoginBoundToBrowser
  <1>2. QED
    BY <1>1, AcsInvariant, PTL

-----------------------------------------------------------------------------
(* The two together: the cache outlives the window of the validator.        *)

\* The first instant at which no handler finds the assertion in its window.
FullExpiry(a) == Lesser(issued[a] + Life + Skew, issued[a] + MaxAge + 1)

\* While some handler could still find the assertion in its window, the cache
\* was told to remember it for that long.
Burnt(a) == clock < FullExpiry(a) => a \in DOMAIN uses /\ uses[a] = FullExpiry(a)

\* The assertions a handler has accepted so far, if it has found no fault.
Passed(h) == IF job[h].valid THEN job[h].response.assertions \ job[h].todo ELSE {}

IssuedInv ==
  /\ \A a \in DOMAIN issued : issued[a] \in Nat
  /\ \A m \in responses : m.assertions \subseteq DOMAIN issued
  /\ \A h \in Handlers : /\ job[h].response.assertions \subseteq DOMAIN issued
                         /\ job[h].todo \subseteq job[h].response.assertions
                         /\ pc[h] = "validate" => job[h].stamp = clock

\* No assertion is in two logins, in two handlers without a fault, or in one of
\* each.
ApartInv ==
  /\ \A h \in Handlers : \A a \in Passed(h) : Burnt(a)
  /\ \A l \in logins : \A a \in l.assertions : a \in DOMAIN issued /\ Burnt(a)
  /\ \A h, k \in Handlers : Passed(h) \intersect Passed(k) # {} => h = k
  /\ \A h \in Handlers, l \in logins : Passed(h) \intersect l.assertions = {}
  /\ AssertionSingleUse

OnceInv == CacheInv /\ IssuedInv /\ ApartInv

LEMMA ExpiryCoversWindow ==
  ASSUME NEW a, issued[a] \in Nat, NEW t \in Nat
  PROVE  /\ FullExpiry(a) \in Nat /\ ReplayExpiry(a, t) \in Nat
         /\ InWindow(a, t) => t < FullExpiry(a) /\ ReplayExpiry(a, t) = FullExpiry(a)
  BY SpAcsAssumption DEF FullExpiry, ReplayExpiry, InWindow, Lesser

\* Nothing is forgotten of an assertion as time passes and others are used.
LEMMA BurntKept ==
  ASSUME NEW a \in DOMAIN issued, Burnt(a), issued[a] \in Nat, issued'[a] = issued[a],
         clock \in Nat, clock' \in Nat, clock' >= clock,
         a \in DOMAIN uses => a \in DOMAIN uses' /\ uses'[a] = uses[a]
  PROVE  Burnt(a)'
  BY ExpiryCoversWindow DEF Burnt, FullExpiry, Lesser

\* Steps that use no assertion and give no handler one.
LEMMA UnusedKeeps ==
  ASSUME AcsTyped, OnceInv, CacheInv', IssuedInv',
         \A a \in DOMAIN issued : a \in DOMAIN issued' /\ issued'[a] = issued[a],
         UNCHANGED <<uses, logins>>, clock' \in Nat, clock' >= clock,
         \A h \in Handlers : Passed(h)' \subseteq Passed(h)
  PROVE  OnceInv'
  <1>1. clock \in Nat
    BY ReplayAssumption DEF AcsTyped
  <1>2. \A a \in DOMAIN issued : Burnt(a) => Burnt(a)'
    BY <1>1, BurntKept DEF OnceInv, IssuedInv
  <1>3. \A h \in Handlers : Passed(h) \subseteq DOMAIN issued
    BY DEF OnceInv, IssuedInv, Passed
  <1>4. /\ \A h \in Handlers : \A a \in Passed(h)' : Burnt(a)'
        /\ \A l \in logins' : \A a \in l.assertions : a \in DOMAIN issued' /\ Burnt(a)'
    BY <1>2, <1>3 DEF OnceInv, ApartInv
  <1>5. /\ \A h, k \in Handlers : Passed(h)' \intersect Passed(k)' # {} => h = k
        /\ \A h \in Handlers, l \in logins' : Passed(h)' \intersect l.assertions = {}
    BY DEF OnceInv, ApartInv
  <1>6. AssertionSingleUse'
    BY DEF OnceInv, ApartInv, AssertionSingleUse
  <1>7. ApartInv'
    BY <1>4, <1>5, <1>6 DEF ApartInv
  <1>8. QED
    BY <1>7 DEF OnceInv

\* An assertion in its window that the cache takes has been in no login and in
\* no other handler without a fault.
LEMMA FreshIsUnused ==
  ASSUME AcsTyped, OnceInv, NEW a \in DOMAIN issued, Fresh(a), InWindow(a, clock)
  PROVE  /\ \A k \in Handlers : a \notin Passed(k)
         /\ \A l \in logins : a \notin l.assertions
  <1>1. issued[a] \in Nat /\ clock \in Nat
    BY ReplayAssumption DEF OnceInv, IssuedInv, AcsTyped
  <1>2. clock < FullExpiry(a)
    BY <1>1, ExpiryCoversWindow
  <1>3. ~Burnt(a)
    <2> SUFFICES ASSUME Burnt(a) PROVE FALSE
      OBVIOUS
    <2>1. a \in DOMAIN uses /\ uses[a] > clock
      BY <1>1, <1>2, ExpiryCoversWindow DEF Burnt
    <2>2. a \in DOMAIN entries /\ entries[a] > clock
      BY <2>1, <1>1 DEF OnceInv, CacheInv, Kept, CacheTyped
    <2>3. QED
      BY <2>2, ScannedKeepsLive DEF Fresh
  <1>4. QED
    BY <1>3 DEF OnceInv, ApartInv

\* What a handler has accepted once it has accepted this assertion too.
LEMMA AcceptanceKeeps ==
  ASSUME AcsTyped, OnceInv, NEW h \in Handlers, pc[h] = "validate",
         NEW a \in job[h].todo, UNCHANGED <<issued, responses>>,
         Accept(a, ReplayExpiry(a, job[h].stamp)) \/ Refuse(a)
  PROVE  /\ CacheInv' /\ clock' = clock
         /\ \A b \in DOMAIN issued : Burnt(b) => Burnt(b)'
         /\ Accept(a, ReplayExpiry(a, job[h].stamp)) /\ InWindow(a, job[h].stamp) => Burnt(a)'
  <1>1. /\ a \in DOMAIN issued /\ issued[a] \in Nat /\ clock \in Nat /\ job[h].stamp = clock
    BY ReplayAssumption DEF OnceInv, IssuedInv, AcsTyped
  <1>2. CASE Refuse(a)
    <2>1. CacheInv'
      BY <1>2, ScanKeeps DEF OnceInv, Refuse
    <2>2. UNCHANGED <<clock, uses>> /\ Fresh(a) # TRUE
      BY <1>2 DEF Refuse
    <2>3. \A b \in DOMAIN issued : Burnt(b) => Burnt(b)'
      BY <2>2 DEF Burnt, FullExpiry
    <2>4. ~Accept(a, ReplayExpiry(a, job[h].stamp))
      BY <2>2 DEF Accept
    <2>5. QED
      BY <2>1, <2>2, <2>3, <2>4
  <1>3. CASE Accept(a, ReplayExpiry(a, job[h].stamp))
    <2> DEFINE e == ReplayExpiry(a, job[h].stamp)
    <2>1. e \in Nat /\ (InWindow(a, clock) => e = FullExpiry(a))
      BY <1>1, ExpiryCoversWindow
    <2>2. CacheInv'
      BY <1>3, <2>1, AcceptKeeps DEF OnceInv
    <2>3. /\ clock' = clock /\ DOMAIN uses' = DOMAIN uses \union {a} /\ uses'[a] = e
          /\ \A b \in DOMAIN uses : b # a => uses'[b] = uses[b]
          /\ Fresh(a)
      BY <1>3 DEF Accept, Put
    <2> HIDE DEF e
    <2>4. Burnt(a) => clock >= FullExpiry(a)
      <3> SUFFICES ASSUME Burnt(a), clock < FullExpiry(a) PROVE FALSE
        BY <1>1, ExpiryCoversWindow
      <3>1. a \in DOMAIN uses /\ uses[a] > clock
        BY <1>1, ExpiryCoversWindow DEF Burnt
      <3>2. a \in DOMAIN entries /\ entries[a] > clock
        BY <1>1, <3>1 DEF OnceInv, CacheInv, Kept, CacheTyped
      <3>3. QED
        BY <2>3, <3>2, ScannedKeepsLive DEF Fresh
    <2>5. \A b \in DOMAIN issued : FullExpiry(b)' = FullExpiry(b)
      BY DEF FullExpiry
    <2>6. ASSUME NEW b \in DOMAIN issued, Burnt(b) PROVE Burnt(b)'
      <3>1. CASE b = a
        <4>1. ~(clock < FullExpiry(a))
          BY <1>1, <2>4, <2>6, <3>1, ExpiryCoversWindow
        <4>2. QED
          BY <2>3, <2>5, <3>1, <4>1 DEF Burnt
      <3>2. CASE b # a
        BY <2>3, <2>5, <2>6, <3>2 DEF Burnt
      <3>3. QED
        BY <3>1, <3>2
    <2>7. InWindow(a, job[h].stamp) => Burnt(a)'
      BY <1>1, <2>1, <2>3, <2>5 DEF Burnt
    <2>8. QED
      BY <2>2, <2>3, <2>6, <2>7
  <1>4. QED
    BY <1>2, <1>3

LEMMA ValidateKeepsOnce ==
  ASSUME AcsTyped, OnceInv, NEW h \in Handlers, Validate(h)
  PROVE  OnceInv'
  <1>1. PICK a \in job[h].todo :
          LET rest == job[h].todo \ {a}
              Conclude(fresh) ==
                LET valid == /\ job[h].valid /\ fresh
                             /\ InWindow(a, job[h].stamp) /\ InResponseToOk(h)
                IN IF rest = {} THEN Finish(h, valid)
                   ELSE /\ job' = [job EXCEPT ![h].todo = rest, ![h].valid = valid]
                        /\ UNCHANGED <<pc, logins>>
          IN \/ Accept(a, ReplayExpiry(a, job[h].stamp)) /\ Conclude(TRUE)
             \/ Refuse(a) /\ Conclude(FALSE)
    BY DEF Validate
  <1> DEFINE all == job[h].response.assertions
             rest == job[h].todo \ {a}
             took == Accept(a, ReplayExpiry(a, job[h].stamp))
  <1>2. PICK valid \in BOOLEAN :
          /\ valid => job[h].valid /\ took /\ InWindow(a, job[h].stamp)
          /\ IF rest = {} THEN Finish(h, valid)
             ELSE /\ job' = [job EXCEPT ![h].todo = rest, ![h].valid = valid]
                  /\ UNCHANGED <<pc, logins>>
    <2>1. CASE took /\ ~Refuse(a)
      BY <1>1, <2>1
    <2>2. CASE Refuse(a) /\ ~took
      BY <1>1, <2>2
    <2>3. ~(took /\ Refuse(a))
      BY DEF Accept, Refuse
    <2>4. QED
      BY <1>1, <2>1, <2>2, <2>3
  <1>3. pc[h] = "validate" /\ UNCHANGED <<issued, responses>> /\ (took \/ Refuse(a))
    BY <1>1 DEF Validate
  <1>4. /\ CacheInv' /\ clock' = clock
        /\ \A b \in DOMAIN issued : Burnt(b) => Burnt(b)'
        /\ took /\ InWindow(a, job[h].stamp) => Burnt(a)'
    BY <1>3, AcceptanceKeeps
  <1>5. /\ a \in DOMAIN issued /\ all \subseteq DOMAIN issued /\ a \in all
        /\ job[h].todo \subseteq all /\ job[h].stamp = clock
    BY <1>3 DEF OnceInv, IssuedInv
  <1>6. valid => /\ Fresh(a) /\ InWindow(a, clock) /\ job[h].valid
                 /\ \A k \in Handlers : a \notin Passed(k)
                 /\ \A l \in logins : a \notin l.assertions
    BY <1>2, <1>5, FreshIsUnused DEF Accept
  <1>7. valid => \A b \in (all \ rest) : Burnt(b)'
    <2> SUFFICES ASSUME valid, NEW b \in all \ rest PROVE Burnt(b)'
      OBVIOUS
    <2>1. CASE b = a
      BY <1>2, <1>4, <2>1
    <2>2. CASE b # a
      <3>1. b \in Passed(h)
        BY <1>2, <2>2 DEF Passed
      <3>2. Burnt(b)
        BY <3>1 DEF OnceInv, ApartInv
      <3>3. QED
        BY <1>4, <1>5, <3>2
    <2>3. QED
      BY <2>1, <2>2
  <1>8. valid => /\ \A k \in Handlers : k # h => Passed(k) \intersect (all \ rest) = {}
                 /\ \A l \in logins : l.assertions \intersect (all \ rest) = {}
    <2> SUFFICES ASSUME valid
                 PROVE  /\ \A k \in Handlers : k # h => Passed(k) \intersect (all \ rest) = {}
                        /\ \A l \in logins : l.assertions \intersect (all \ rest) = {}
      OBVIOUS
    <2>1. all \ rest \subseteq Passed(h) \union {a}
      BY <1>2 DEF Passed
    <2>2. QED
      BY <1>6, <2>1 DEF OnceInv, ApartInv
  <1> HIDE DEF took
  <1>9. \A l \in logins : \A b \in l.assertions : b \in DOMAIN issued' /\ Burnt(b)'
    BY <1>3, <1>4 DEF OnceInv, ApartInv
  <1>10. \A k \in Handlers : \A b \in Passed(k) : Burnt(b)'
    <2>1. \A k \in Handlers : Passed(k) \subseteq DOMAIN issued
      BY DEF OnceInv, IssuedInv, Passed
    <2>2. QED
      BY <1>4, <2>1 DEF OnceInv, ApartInv
  <1>11. CASE rest = {}
    <2> DEFINE l0 == [number |-> Cardinality(logins) + 1, browser |-> job[h].cookie,
                      request |-> job[h].response.irt, assertions |-> all]
    <2>1. /\ pc' = [pc EXCEPT ![h] = "idle"] /\ job' = [job EXCEPT ![h] = NoJob]
          /\ logins' = IF valid THEN logins \union {l0} ELSE logins
      BY <1>2, <1>11 DEF Finish
    <2>2. l0.assertions = all
      OBVIOUS
    <2> HIDE DEF l0
    <2>3. /\ job'[h] = NoJob /\ pc'[h] = "idle"
          /\ \A k \in Handlers : k # h => job'[k] = job[k] /\ pc'[k] = pc[k]
      BY <2>1 DEF AcsTyped
    <2>4. /\ Passed(h)' = {} /\ \A k \in Handlers : k # h => Passed(k)' = Passed(k)
      <3>1. Passed(h)' = {}
        BY <2>3 DEF Passed, NoJob
      <3>2. ASSUME NEW k \in Handlers, k # h PROVE Passed(k)' = Passed(k)
        <4>1. job'[k] = job[k]
          BY <2>3, <3>2
        <4>2. QED
          BY <4>1 DEF Passed
      <3>3. QED
        BY <3>1, <3>2
    <2>5. IssuedInv'
      BY <1>3, <1>4, <2>3 DEF OnceInv, IssuedInv, NoJob
    <2>6. /\ \A k \in Handlers : \A b \in Passed(k)' : Burnt(b)'
          /\ \A j, k \in Handlers : Passed(j)' \intersect Passed(k)' # {} => j = k
      BY <1>10, <2>4 DEF OnceInv, ApartInv
    <2>7. CASE ~valid
      <3>1. logins' = logins
        BY <2>1, <2>7
      <3>2. ApartInv'
        BY <1>9, <2>4, <2>6, <3>1 DEF OnceInv, ApartInv, AssertionSingleUse
      <3>3. QED
        BY <1>4, <2>5, <3>2 DEF OnceInv
    <2>8. CASE valid
      <3>1. logins' = logins \union {l0} /\ all \ rest = all
        BY <1>11, <2>1, <2>8
      <3>2. \A l \in logins' : \A b \in l.assertions : b \in DOMAIN issued' /\ Burnt(b)'
        BY <1>3, <1>5, <1>7, <1>9, <2>2, <2>8, <3>1
      <3>3. \A k \in Handlers, l \in logins' : Passed(k)' \intersect l.assertions = {}
        BY <1>8, <2>2, <2>4, <2>8, <3>1 DEF OnceInv, ApartInv
      <3>4. AssertionSingleUse'
        BY <1>8, <2>2, <2>8, <3>1 DEF OnceInv, ApartInv, AssertionSingleUse
      <3>5. QED
        BY <1>4, <2>5, <2>6, <3>2, <3>3, <3>4 DEF OnceInv, ApartInv
    <2>9. QED
      BY <2>7, <2>8
  <1>12. CASE rest # {}
    <2>1. /\ job' = [job EXCEPT ![h].todo = rest, ![h].valid = valid]
          /\ UNCHANGED <<pc, logins>>
      BY <1>2, <1>12
    <2>2. /\ job'[h].response = job[h].response /\ job'[h].stamp = job[h].stamp
          /\ job'[h].todo = rest /\ job'[h].valid = valid
          /\ \A k \in Handlers : k # h => job'[k] = job[k]
      BY <2>1 DEF AcsTyped, Job
    <2>3. /\ Passed(h)' = IF valid THEN all \ rest ELSE {}
          /\ \A k \in Handlers : k # h => Passed(k)' = Passed(k)
      BY <2>2 DEF Passed
    <2>4. IssuedInv'
      BY <1>3, <1>4, <1>5, <2>1, <2>2 DEF OnceInv, IssuedInv
    <2>5. \A k \in Handlers : \A b \in Passed(k)' : Burnt(b)'
      BY <1>7, <1>10, <2>3
    <2>6. \A j, k \in Handlers : Passed(j)' \intersect Passed(k)' # {} => j = k
      BY <1>8, <2>3 DEF OnceInv, ApartInv
    <2>7. \A k \in Handlers, l \in logins' : Passed(k)' \intersect l.assertions = {}
      BY <1>8, <2>1, <2>3 DEF OnceInv, ApartInv
    <2>8. ApartInv'
      BY <1>9, <2>1, <2>5, <2>6, <2>7 DEF OnceInv, ApartInv, AssertionSingleUse
    <2>9. QED
      BY <1>4, <2>4, <2>8 DEF OnceInv
  <1>13. QED
    BY <1>11, <1>12

\* An assertion logs somebody in at most once, whatever its window, the skew, the
\* age limit and the number of copies and handlers, as long as a handler looks
\* the assertion up in the cache at the instant at which it read the clock.
THEOREM AssertionsAreSingleUse ==
  ASSUME PromptValidation
  PROVE  Spec => []AssertionSingleUse
  <1>1. Init => OnceInv
    <2> SUFFICES ASSUME Init PROVE OnceInv
      OBVIOUS
    <2>1. CacheInv
      BY DEF Init, ReplayInit, CacheInv, CacheTyped, Kept
    <2>2. IssuedInv
      BY DEF Init, IssuedInv, NoJob
    <2>3. ApartInv
      BY DEF Init, ApartInv, Passed, NoJob, AssertionSingleUse
    <2>4. QED
      BY <2>1, <2>2, <2>3 DEF OnceInv
  <1>2. AcsTyped /\ AcsTyped' /\ OnceInv /\ [Next]_vars => OnceInv'
    <2> SUFFICES ASSUME AcsTyped, AcsTyped', OnceInv, [Next]_vars PROVE OnceInv'
      OBVIOUS
    <2>1. clock \in Nat /\ clock' \in Nat
      BY ReplayAssumption DEF AcsTyped
    <2>2. ASSUME UNCHANGED <<clock, cacheVars, issued, responses, pc, job, logins>>
          PROVE  OnceInv'
      BY <2>2 DEF cacheVars, OnceInv, CacheInv, CacheTyped, Kept, IssuedInv, ApartInv, Passed,
                  Burnt, FullExpiry, AssertionSingleUse
    <2>3. ASSUME NEW b \in Browsers, SpLogin(b) PROVE OnceInv'
      <3>1. clock' = clock
        BY <2>3 DEF SpLogin, Tracker!StoreBound, Tracker!Insert
      <3>2. QED
        BY <2>2, <2>3, <3>1 DEF SpLogin
    <2>4. CASE IdpRespond
      <3>1. PICK i \in DOMAIN sent \union {NoRequest}, as \in SUBSET Assertions,
                 ok \in BOOLEAN, lead \in 0..MaxLead :
              /\ Cardinality(as) <= MaxPerResponse
              /\ (as = {}) <=> ~ok
              /\ as \intersect DOMAIN issued = {}
              /\ responses' = responses \union {[irt |-> i, assertions |-> as, success |-> ok]}
              /\ issued' = [a \in DOMAIN issued \union as |->
                              IF a \in as THEN clock + lead ELSE issued[a]]
        BY <2>4, Zenon DEF IdpRespond
      <3>2. UNCHANGED <<clock, cacheVars, pc, job, logins>>
        BY <2>4 DEF IdpRespond
      <3>3. clock + lead \in Nat
        BY <2>1, SpAcsAssumption
      <3>4. /\ DOMAIN issued' = DOMAIN issued \union as
            /\ \A a \in DOMAIN issued' : issued'[a] = IF a \in as THEN clock + lead ELSE issued[a]
            /\ \A a \in DOMAIN issued : a \in DOMAIN issued' /\ issued'[a] = issued[a]
            /\ \A m \in responses' : m \in responses \/ m.assertions = as
        <4>1. as \intersect DOMAIN issued = {}
          BY <3>1, Zenon
        <4>2. responses' = responses \union {[irt |-> i, assertions |-> as, success |-> ok]}
          BY <3>1, Zenon
        <4>3. issued' = [a \in DOMAIN issued \union as |->
                           IF a \in as THEN clock + lead ELSE issued[a]]
          BY <3>1, Zenon
        <4>4. /\ DOMAIN issued' = DOMAIN issued \union as
              /\ \A a \in DOMAIN issued' :
                   issued'[a] = IF a \in as THEN clock + lead ELSE issued[a]
          BY <4>3
        <4>5. \A a \in DOMAIN issued : a \in DOMAIN issued' /\ issued'[a] = issued[a]
          BY <4>1, <4>4
        <4>6. \A m \in responses' : m \in responses \/ m.assertions = as
          <5> DEFINE m0 == [irt |-> i, assertions |-> as, success |-> ok]
          <5>1. m0.assertions = as
            OBVIOUS
          <5> HIDE DEF m0
          <5>2. responses' = responses \union {m0}
            BY <4>2 DEF m0
          <5>3. QED
            BY <5>1, <5>2
        <4>7. QED
          BY <4>4, <4>5, <4>6
      <3>5. IssuedInv'
        <4>1. \A a \in DOMAIN issued' : issued'[a] \in Nat
          BY <3>3, <3>4 DEF OnceInv, IssuedInv
        <4>2. \A m \in responses' : m.assertions \subseteq DOMAIN issued'
          BY <3>4 DEF OnceInv, IssuedInv
        <4>3. QED
          BY <3>2, <3>4, <4>1, <4>2 DEF OnceInv, IssuedInv
      <3>6. CacheInv' /\ \A h \in Handlers : Passed(h)' = Passed(h)
        BY <3>2 DEF OnceInv, CacheInv, CacheTyped, Kept, Passed, cacheVars
      <3>7. UNCHANGED <<uses, logins, clock>>
        BY <3>2 DEF cacheVars
      <3>8. clock' >= clock /\ \A h \in Handlers : Passed(h)' \subseteq Passed(h)
        BY <2>1, <3>6, <3>7
      <3>9. QED
        BY <2>1, <3>4, <3>5, <3>6, <3>7, <3>8, UnusedKeeps
    <2>5. ASSUME NEW h \in Handlers, Deliver(h) PROVE OnceInv'
      <3>1. PICK m \in responses, c \in Browsers \union {NoCookie} :
              job' = [job EXCEPT ![h] = [NoJob EXCEPT !.response = m, !.cookie = c,
                                                      !.todo = m.assertions]]
        BY <2>5 DEF Deliver
      <3>2. /\ job'[h].response = m /\ job'[h].todo = m.assertions /\ pc'[h] = "correlate"
            /\ \A k \in Handlers : k # h => job'[k] = job[k] /\ pc'[k] = pc[k]
        BY <2>5, <3>1 DEF Deliver, AcsTyped, NoJob
      <3>3. UNCHANGED <<clock, cacheVars, issued, responses, logins>>
        BY <2>5 DEF Deliver
      <3>4. /\ Passed(h)' = {} /\ \A k \in Handlers : k # h => Passed(k)' = Passed(k)
        BY <3>2 DEF Passed
      <3>5. IssuedInv'
        BY <3>2, <3>3 DEF OnceInv, IssuedInv
      <3>6. CacheInv'
        BY <3>3 DEF OnceInv, CacheInv, CacheTyped, Kept, cacheVars
      <3>7. QED
        BY <2>1, <3>3, <3>4, <3>5, <3>6, UnusedKeeps DEF cacheVars
    <2>6. ASSUME NEW h \in Handlers, Correlate(h) PROVE OnceInv'
      <3>1. UNCHANGED <<clock, cacheVars, issued, responses, logins>>
        BY <2>6 DEF Correlate, Tracker!ConsumeOk, Tracker!ConsumeFails
      <3>2. /\ job' = job \/ job' = [job EXCEPT ![h].expected = job[h].response.irt]
            /\ pc' = [pc EXCEPT ![h] = "stamp"]
        BY <2>6 DEF Correlate
      <3>3. \A k \in Handlers : /\ job'[k].response = job[k].response /\ job'[k].todo = job[k].todo
                                /\ job'[k].valid = job[k].valid /\ job'[k].stamp = job[k].stamp
                                /\ pc'[k] = "validate" => pc[k] = "validate"
        BY <3>2 DEF AcsTyped, Job
      <3>4. IssuedInv'
        BY <3>1, <3>3 DEF OnceInv, IssuedInv
      <3>5. CacheInv' /\ \A k \in Handlers : Passed(k)' = Passed(k)
        BY <3>1, <3>3 DEF OnceInv, CacheInv, CacheTyped, Kept, Passed, cacheVars
      <3>6. QED
        BY <2>1, <3>1, <3>4, <3>5, UnusedKeeps DEF cacheVars
    <2>7. ASSUME NEW h \in Handlers, Stamp(h) PROVE OnceInv'
      <3>1. UNCHANGED <<clock, cacheVars, issued, responses, logins>>
        BY <2>7 DEF Stamp
      <3>2. /\ \/ pc'[h] = "idle" /\ job'[h] = NoJob
               \/ job'[h] = [job[h] EXCEPT !.stamp = clock]
            /\ \A k \in Handlers : k # h => job'[k] = job[k] /\ pc'[k] = pc[k]
        BY <2>7 DEF Stamp, AcsTyped
      <3>3. \/ pc'[h] = "idle" /\ job'[h] = NoJob
            \/ /\ job'[h].response = job[h].response /\ job'[h].todo = job[h].todo
               /\ job'[h].valid = job[h].valid /\ job'[h].stamp = clock
        BY <3>2 DEF AcsTyped, Job
      <3>4. IssuedInv'
        BY <3>1, <3>2, <3>3 DEF OnceInv, IssuedInv, NoJob
      <3>5. CacheInv'
        BY <3>1 DEF OnceInv, CacheInv, CacheTyped, Kept, cacheVars
      <3>6. \A k \in Handlers : Passed(k)' \subseteq Passed(k)
        BY <3>2, <3>3 DEF Passed, NoJob
      <3>7. QED
        BY <2>1, <3>1, <3>4, <3>5, <3>6, UnusedKeeps DEF cacheVars
    <2>8. ASSUME NEW h \in Handlers, Validate(h) PROVE OnceInv'
      BY <2>8, ValidateKeepsOnce
    <2>9. CASE Elapse
      <3>1. /\ clock' = clock + 1 /\ \A h \in Handlers : pc[h] # "validate"
            /\ UNCHANGED <<cacheVars, issued, responses, pc, job, logins>>
        BY <2>9 DEF Elapse
      <3>2. IssuedInv' /\ \A h \in Handlers : Passed(h)' = Passed(h)
        BY <3>1 DEF OnceInv, IssuedInv, Passed
      <3>3. CacheInv'
        BY <2>1, <3>1 DEF OnceInv, CacheInv, CacheTyped, Kept, cacheVars
      <3>4. QED
        BY <2>1, <3>1, <3>2, <3>3, UnusedKeeps DEF cacheVars
    <2>10. CASE Sweep
      <3>1. UNCHANGED <<clock, uses, issued, responses, pc, job, logins>> /\ entries' = Unexpired
        BY <2>10 DEF Sweep, Cleanup
      <3>2. CacheInv'
        BY <3>1, ScanKeeps DEF OnceInv
      <3>3. IssuedInv' /\ \A h \in Handlers : Passed(h)' = Passed(h)
        BY <3>1 DEF OnceInv, IssuedInv, Passed
      <3>4. QED
        BY <2>1, <3>1, <3>2, <3>3, UnusedKeeps
    <2>11. CASE UNCHANGED vars
      BY <2>2, <2>11 DEF vars, cacheVars
    <2>12. QED
      BY <2>3, <2>4, <2>5, <2>6, <2>7, <2>8, <2>9, <2>10, <2>11 DEF Next
  <1>3. OnceInv => AssertionSingleUse
    BY DEF OnceInv, ApartInv
  <1>4. AcsInv => AcsTyped
    BY DEF AcsInv
  <1>5. QED
    BY <1>1, <1>2, <1>3, <1>4, AcsInvariant, PTL DEF Spec
=============================================================================
