--------------------------- MODULE IdentDbProofs ---------------------------
(***************************************************************************)
(* Proofs about the identity database, for any users, values, threads and   *)
(* request mix.  Lemmas about the store's operations come first, then the   *)
(* inductive typing invariant, then the properties.                         *)
(***************************************************************************)
EXTENDS IdentDb, TLAPS

-----------------------------------------------------------------------------
(* The store's writes keep its constraints.                                 *)

\* The constraint over any set of records.
Unique(rs) ==
  \A r, s \in rs :
    \/ r = s
    \/ /\ r.nid.value # s.nid.value
       /\ r.user = s.user => ~SameSlot(r.nid, s.nid)

\* Two NameIDs share a durable slot in either order.
LEMMA SameSlotSymmetric ==
  ASSUME NEW n, NEW m, SameSlot(n, m)
  PROVE  SameSlot(m, n)
  BY DEF SameSlot, DurableMatch

\* Inserting a record whose value and slot are free keeps both constraints.
LEMMA InsertUnique ==
  ASSUME NEW rs, NEW u, NEW n, Unique(rs),
         ~ValueTaken(rs, n.value),
         \A r \in rs : r.user = u => ~SameSlot(r.nid, n)
  PROVE  Unique(Insert(rs, u, n))
  <1> DEFINE new == [user |-> u, nid |-> n]
  <1>1. SUFFICES ASSUME NEW r \in Insert(rs, u, n), NEW s \in Insert(rs, u, n), r # s
                 PROVE  /\ r.nid.value # s.nid.value
                        /\ r.user = s.user => ~SameSlot(r.nid, s.nid)
    BY DEF Unique
  <1>2. CASE r \in rs /\ s \in rs
    BY <1>1, <1>2 DEF Unique
  <1>3. CASE r \in rs /\ s = new
    BY <1>1, <1>3 DEF ValueTaken
  <1>4. CASE r = new /\ s \in rs
    BY <1>1, <1>4, SameSlotSymmetric DEF ValueTaken
  <1>5. QED
    BY <1>1, <1>2, <1>3, <1>4 DEF Insert

\* Taking records away keeps both constraints.
LEMMA SubsetUnique ==
  ASSUME NEW rs, NEW qs, qs \subseteq rs, Unique(rs)
  PROVE  Unique(qs)
  BY DEF Unique

\* Every write of a durable or transient NameID through replace keeps both
\* constraints.
LEMMA ReplaceUnique ==
  ASSUME NEW rs, NEW u, NEW n, Unique(rs), ReplaceVerdict(rs, u, n) = "Ok"
  PROVE  Unique(Replace(rs, u, n))
  <1> DEFINE rest == Remove(rs, n.value)
  <1>1. Unique(rest)
    BY SubsetUnique DEF Remove
  <1>2. ~DurableTupleTaken(rs, u, n)
    BY DEF ReplaceVerdict
  <1>3. \A r \in rest : r.user = u => ~SameSlot(r.nid, n)
    BY <1>2 DEF DurableTupleTaken, Remove
  <1>4. ~ValueTaken(rest, n.value)
    BY DEF ValueTaken, Remove
  <1>5. Replace(rs, u, n) = Insert(rest, u, n)
    BY DEF Replace, Insert, Remove
  <1>6. QED
    BY <1>1, <1>3, <1>4, <1>5, InsertUnique

\* A replace that succeeds leaves the owner of every value as it was.
LEMMA ReplaceKeepsOwners ==
  ASSUME NEW rs, NEW u, NEW n, Unique(rs), ReplaceVerdict(rs, u, n) = "Ok",
         NEW r \in rs, NEW s \in Replace(rs, u, n), r.nid.value = s.nid.value
  PROVE  r.user = s.user
  <1>1. ~ValueTakenByOther(rs, u, n.value)
    BY DEF ReplaceVerdict
  <1>2. CASE s \in rs
    BY <1>2 DEF Unique
  <1>3. CASE s = [user |-> u, nid |-> n]
    BY <1>1, <1>3 DEF ValueTakenByOther
  <1>4. QED
    BY <1>2, <1>3 DEF Replace

-----------------------------------------------------------------------------
(* The constraints hold in every reachable state.                           *)

\* What a step does to the store: nothing, an insert of a free value in a free
\* slot, a replace that was let through, or a removal.
RemovalStep == records' \subseteq records

InsertStep ==
  \E u, n : /\ ~ValueTaken(records, n.value)
            /\ \A r \in records : r.user = u => ~SameSlot(r.nid, n)
            /\ records' = Insert(records, u, n)

ReplaceStep ==
  \E u, n : /\ ReplaceVerdict(records, u, n) = "Ok"
            /\ records' = Replace(records, u, n)

RecordsStep == RemovalStep \/ InsertStep \/ ReplaceStep

\* Every action of the database is one of those writes.
LEMMA NextIsRecordsStep ==
  ASSUME [Next]_vars
  PROVE  RecordsStep
  <1>1. CASE UNCHANGED vars
    BY <1>1 DEF vars, RecordsStep, RemovalStep, InsertStep, ReplaceStep
  <1>2. ASSUME NEW t \in Threads, StartConstruct(t) \/ RefuseNoFormat(t)
                                  \/ StartMapping(t) \/ StartManage(t) \/ StoreOutage(t)
        PROVE  RecordsStep
    BY <1>2 DEF StartConstruct, RefuseNoFormat, StartMapping, StartManage, StoreOutage,
                Start, RecordsStep, RemovalStep, InsertStep, ReplaceStep
  <1>3. ASSUME NEW t \in Threads, Step(t)
        PROVE  RecordsStep
    <2>1. CASE FindSlot(t) \/ VerifyRecord(t) \/ CreateId(t) \/ LocalUser(t)
               \/ ConfirmLocalUser(t) \/ Search(t) \/ VerifyFound(t)
      BY <2>1 DEF FindSlot, VerifyRecord, CreateId, LocalUser, ConfirmLocalUser, Search,
                  VerifyFound, RecordsStep, RemovalStep, InsertStep, ReplaceStep
    <2>2. CASE GetOrInsertDurable(t)
      <3> DEFINE u == loc[t].user
                 n == loc[t].nid
                 own == Existing(u, n)
      <3>1. CASE own = {} /\ ~ValueTaken(records, n.value) /\ records' = Insert(records, u, n)
        <4>1. \A r \in records : r.user = u => ~SameSlot(r.nid, n)
          BY <3>1 DEF Existing, FindDurable, ForUser, SameSlot
        <4>2. QED
          BY <3>1, <4>1 DEF RecordsStep, RemovalStep, InsertStep, ReplaceStep
      <3>2. CASE UNCHANGED records
        BY <3>2 DEF RecordsStep, RemovalStep, InsertStep, ReplaceStep
      <3>3. QED
        BY <2>2, <3>1, <3>2 DEF GetOrInsertDurable
    <2>3. CASE InsertTransient(t)
      <3> DEFINE u == loc[t].user
                 n == loc[t].nid
      <3>1. CASE InsertVerdict(records, u, n) = "Ok" /\ records' = Insert(records, u, n)
        <4>1. ~ValueTaken(records, n.value) /\ ~DurableTupleTaken(records, u, n)
          BY <3>1 DEF InsertVerdict
        <4>2. \A r \in records : r.user = u => ~SameSlot(r.nid, n)
          BY <4>1 DEF ValueTaken, DurableTupleTaken
        <4>3. QED
          BY <3>1, <4>1, <4>2 DEF RecordsStep, RemovalStep, InsertStep, ReplaceStep
      <3>2. CASE UNCHANGED records
        BY <3>2 DEF RecordsStep, RemovalStep, InsertStep, ReplaceStep
      <3>3. QED
        BY <2>3, <3>1, <3>2 DEF InsertTransient
    <2>4. CASE ReplaceRecord(t)
      BY <2>4 DEF ReplaceRecord, RecordsStep, RemovalStep, InsertStep, ReplaceStep
    <2>5. CASE RemoveRecord(t)
      BY <2>5 DEF RemoveRecord, Remove, RecordsStep, RemovalStep, InsertStep, ReplaceStep
    <2>6. QED
      BY <1>3, <2>1, <2>2, <2>3, <2>4, <2>5 DEF Step
  <1>4. ASSUME NEW u \in Users, NEW n \in AppNameIds, StoreNameId(u, n)
        PROVE  RecordsStep
    BY <1>4 DEF StoreNameId, RecordsStep, RemovalStep, InsertStep, ReplaceStep
  <1>5. ASSUME NEW v \in Values, RemoveRemote(v)
        PROVE  RecordsStep
    BY <1>5 DEF RemoveRemote, Remove, RecordsStep, RemovalStep, InsertStep, ReplaceStep
  <1>6. ASSUME NEW u \in Users, RemoveLocal(u)
        PROVE  RecordsStep
    BY <1>6 DEF RemoveLocal, RemoveAll, RecordsStep, RemovalStep, InsertStep, ReplaceStep
  <1>7. QED
    BY <1>1, <1>2, <1>3, <1>4, <1>5, <1>6 DEF Next

\* One record per value and one durable record per user and slot, for every
\* interleaving of requests, retries, removals and outages: the invariant that
\* the duplicate checks of the store's writes maintain.
THEOREM StoreStaysUnique == Spec => []StoreUnique
  <1>1. Init => StoreUnique
    BY DEF Init, StoreUnique
  <1>2. StoreUnique /\ [Next]_vars => StoreUnique'
    <2> SUFFICES ASSUME StoreUnique, [Next]_vars
                 PROVE  Unique(records')
      BY DEF StoreUnique, Unique
    <2>1. Unique(records)
      BY DEF StoreUnique, Unique
    <2>2. RecordsStep
      BY NextIsRecordsStep
    <2>3. CASE RemovalStep
      BY <2>1, <2>3, SubsetUnique DEF RemovalStep
    <2>4. CASE InsertStep
      <3>1. PICK u, n : /\ ~ValueTaken(records, n.value)
                        /\ \A r \in records : r.user = u => ~SameSlot(r.nid, n)
                        /\ records' = Insert(records, u, n)
        BY <2>4 DEF InsertStep
      <3>2. QED
        BY <2>1, <3>1, InsertUnique
    <2>5. CASE ReplaceStep
      <3>1. PICK u, n : /\ ReplaceVerdict(records, u, n) = "Ok"
                        /\ records' = Replace(records, u, n)
        BY <2>5 DEF ReplaceStep
      <3>2. Unique(Replace(records, u, n))
        BY <2>1, <3>1, ReplaceUnique
      <3>3. QED
        BY <3>1, <3>2
    <2>6. QED
      BY <2>2, <2>3, <2>4, <2>5 DEF RecordsStep
  <1>3. QED
    BY <1>1, <1>2, PTL DEF Spec

\* No single step changes the owner of a value.
LEMMA OwnersStay ==
  ASSUME StoreUnique, [Next]_vars,
         NEW r \in records, NEW s \in records', r.nid.value = s.nid.value
  PROVE  r.user = s.user
  <1>1. Unique(records)
    BY DEF StoreUnique, Unique
  <1>2. CASE RemovalStep
    BY <1>1, <1>2 DEF RemovalStep, Unique
  <1>3. CASE InsertStep
    <2>1. PICK u, n : /\ ~ValueTaken(records, n.value)
                      /\ records' = Insert(records, u, n)
      BY <1>3 DEF InsertStep
    <2>2. QED
      BY <1>1, <2>1 DEF Insert, ValueTaken, Unique
  <1>4. CASE ReplaceStep
    <2>1. PICK u, n : /\ ReplaceVerdict(records, u, n) = "Ok"
                      /\ records' = Replace(records, u, n)
      BY <1>4 DEF ReplaceStep
    <2>2. s \in Replace(records, u, n)
      BY <2>1
    <2>3. QED
      BY <1>1, <2>1, <2>2, ReplaceKeepsOwners
  <1>5. RecordsStep
    BY NextIsRecordsStep
  <1>6. QED
    BY <1>2, <1>3, <1>4, <1>5 DEF RecordsStep

\* A NameID value is never moved from one user to another by any single step:
\* the account-takeover hazard named in the doc of replace.
THEOREM ValuesNeverReassigned == Spec => NeverReassigned
  <1> DEFINE Keeps == \A r \in records, s \in records' :
                        r.nid.value = s.nid.value => r.user = s.user
  <1>1. StoreUnique /\ [Next]_vars => [Keeps]_vars
    BY OwnersStay
  <1>2. QED
    BY <1>1, StoreStaysUnique, PTL DEF Spec, NeverReassigned

-----------------------------------------------------------------------------
(* Typing.  TypeOK alone is not inductive: that a handler only hands out or  *)
(* stores NameIDs of real users depends on where it is in its request.       *)

ThreadOK(t) ==
  /\ pc[t] \notin {"idle", "localUser"} => loc[t].user \in Users
  /\ pc[t] \in {"verify", "insert"} => loc[t].nid \in NameId
  /\ pc[t] \in {"localUser", "localConfirm", "replace", "remove"} => req[t].name \in NameId

TypeInv == TypeOK /\ \A t \in Threads : ThreadOK(t)

StoreTyped == records' \subseteq Record /\ removed' \subseteq Values

\* A handler that goes on to its next store call keeps the invariant when it
\* carries what that call needs.
LEMMA GotoTyped ==
  ASSUME TypeInv, StoreTyped, NEW t \in Threads, NEW call \in Calls, NEW locals \in Locals,
         Goto(t, call, locals),
         call \notin {"idle", "localUser"} => locals.user \in Users,
         call \in {"verify", "insert"} => locals.nid \in NameId,
         call \in {"localUser", "localConfirm", "replace", "remove"} => req[t].name \in NameId
  PROVE  TypeInv'
  <1>1. TypeOK'
    BY DEF TypeInv, TypeOK, StoreTyped, Goto
  <1>2. ASSUME NEW s \in Threads PROVE ThreadOK(s)'
    BY <1>2 DEF TypeInv, TypeOK, ThreadOK, Goto
  <1>3. QED
    BY <1>1, <1>2 DEF TypeInv

\* A handler that returns keeps it when what it hands to an SP is a NameID of a
\* user.
LEMMA ReturnTyped ==
  ASSUME TypeInv, StoreTyped, NEW t \in Threads, NEW kind \in Outcomes,
         NEW n \in NameId \union {NoName}, Return(t, kind, n),
         kind = "ok" => n \in NameId /\ loc[t].user \in Users
  PROVE  TypeInv'
  <1>1. NoRequest \in Request /\ NoLocals \in Locals
    BY FormatAssumption, IdentDbAssumption DEF NoRequest, Request, NoLocals, Locals
  <1>2. issued' \subseteq Users \X NameId
    BY DEF TypeInv, TypeOK, Return
  <1>3. outcome' \in [Threads -> [kind : Outcomes, user : Users \union {NoName},
                                  nid : NameId \union {NoName}]]
    <2>1. [kind |-> kind, user |-> loc[t].user, nid |-> n]
            \in [kind : Outcomes, user : Users \union {NoName}, nid : NameId \union {NoName}]
      BY DEF TypeInv, TypeOK, Locals
    <2>2. QED
      BY <2>1 DEF TypeInv, TypeOK, Return
  <1>4. TypeOK'
    BY <1>1, <1>2, <1>3 DEF TypeInv, TypeOK, StoreTyped, Return, Calls
  <1>5. ASSUME NEW s \in Threads PROVE ThreadOK(s)'
    BY <1>5 DEF TypeInv, TypeOK, ThreadOK, Return
  <1>6. QED
    BY <1>4, <1>5 DEF TypeInv

LEMMA FailTyped ==
  ASSUME TypeInv, StoreTyped, NEW t \in Threads, NEW kind \in Outcomes \ {"ok"}, Fail(t, kind)
  PROVE  TypeInv'
  BY ReturnTyped DEF Fail

\* The store keeps its type when a step leaves it alone.
LEMMA StoreKept ==
  ASSUME TypeInv, UNCHANGED <<records, removed>>
  PROVE  StoreTyped
  BY DEF TypeInv, TypeOK, StoreTyped

LEMMA HandBackTyped ==
  ASSUME TypeInv, StoreTyped, NEW t \in Threads, NEW n \in NameId,
         loc[t].user \in Users, HandBack(t, n)
  PROVE  TypeInv'
  <1>1. CASE Return(t, "ok", n)
    BY <1>1, ReturnTyped DEF Outcomes
  <1>2. CASE Goto(t, "verify", [loc[t] EXCEPT !.nid = n])
    <2>1. [loc[t] EXCEPT !.nid = n] \in Locals
      BY DEF TypeInv, TypeOK, Locals
    <2>2. [loc[t] EXCEPT !.nid = n].user \in Users /\ [loc[t] EXCEPT !.nid = n].nid \in NameId
      BY DEF TypeInv, TypeOK, Locals
    <2>3. QED
      BY <1>2, <2>1, <2>2, GotoTyped DEF Calls
  <1>3. CASE Fail(t, "StoreError")
    BY <1>3, FailTyped DEF Outcomes
  <1>4. QED
    BY <1>1, <1>2, <1>3 DEF HandBack

\* Retrying a draw or a mint keeps the counters within MaxMintAttempts.
LEMMA RetryTyped ==
  ASSUME TypeInv, StoreTyped, NEW t \in Threads, loc[t].user \in Users,
         AfterCollision(t) \/ RetryMint(t)
  PROVE  TypeInv'
  <1> DEFINE drawn == [loc[t] EXCEPT !.draws = @ + 1]
             tried == [loc[t] EXCEPT !.nid = NoName, !.tries = @ + 1]
  <1>1. loc[t] \in Locals
    BY DEF TypeInv, TypeOK
  <1>2. ASSUME loc[t].draws + 1 < MaxMintAttempts, Goto(t, "mint", drawn)
        PROVE  TypeInv'
    <2>1. loc[t].draws \in 0..MaxMintAttempts
      BY <1>1 DEF Locals
    <2>2. loc[t].draws + 1 \in 0..MaxMintAttempts
      BY <1>2, <2>1, IdentDbAssumption
    <2>3. drawn \in Locals
      BY <1>1, <2>2 DEF Locals
    <2>4. drawn.user \in Users
      BY <1>1 DEF Locals
    <2>5. QED
      BY <1>2, <2>3, <2>4, GotoTyped DEF Calls
  <1>3. ASSUME loc[t].tries + 1 < MaxMintAttempts, Goto(t, "mint", tried)
        PROVE  TypeInv'
    <2>1. loc[t].tries \in 0..MaxMintAttempts
      BY <1>1 DEF Locals
    <2>2. loc[t].tries + 1 \in 0..MaxMintAttempts
      BY <1>3, <2>1, IdentDbAssumption
    <2>3. tried \in Locals
      BY <1>1, <2>2 DEF Locals
    <2>4. tried.user \in Users
      BY <1>1 DEF Locals
    <2>5. QED
      BY <1>3, <2>3, <2>4, GotoTyped DEF Calls
  <1>4. CASE Fail(t, "StoreError")
    BY <1>4, FailTyped DEF Outcomes
  <1>5. QED
    BY <1>2, <1>3, <1>4 DEF AfterCollision, RetryMint

\* What the handler does with the local user of the NameID in the request.
LEMMA AfterLocalIdTyped ==
  ASSUME TypeInv, StoreTyped, NEW t \in Threads, NEW u \in Users,
         req[t].name \in NameId, AfterLocalId(t, u)
  PROVE  TypeInv'
  <1> DEFINE found == [loc[t] EXCEPT !.user = u]
  <1>1. found \in Locals /\ found.user \in Users
    BY DEF TypeInv, TypeOK, Locals
  <1>2. ASSUME NEW call \in {"search", "replace", "remove"}, Goto(t, call, found)
        PROVE  TypeInv'
    BY <1>1, <1>2, GotoTyped DEF Calls
  <1>3. CASE Fail(t, "Unsupported")
    BY <1>3, FailTyped DEF Outcomes
  <1>4. QED
    BY <1>2, <1>3 DEF AfterLocalId

\* What the mapping does with the records its search found.
LEMMA MapFromTyped ==
  ASSUME TypeInv, StoreTyped, NEW t \in Threads, NEW batch \in SUBSET NameId,
         loc[t].user \in Users, MapFrom(t, batch)
  PROVE  TypeInv'
  <1> DEFINE cleared == [loc[t] EXCEPT !.batch = {}, !.nid = NoName]
  <1>1. ASSUME NEW n \in Usable(batch), Return(t, "ok", n) PROVE TypeInv'
    BY <1>1, ReturnTyped DEF Usable, Outcomes
  <1>2. CASE Goto(t, GetNameIdCall(t), cleared)
    <2>1. cleared \in Locals /\ cleared.user \in Users
      BY DEF TypeInv, TypeOK, Locals
    <2>2. GetNameIdCall(t) \in {"find", "mint"}
      BY DEF GetNameIdCall
    <2>3. QED
      BY <1>2, <2>1, <2>2, GotoTyped DEF Calls
  <1>3. CASE Fail(t, "CreateNotAllowed")
    BY <1>3, FailTyped DEF Outcomes
  <1>4. QED
    BY <1>1, <1>2, <1>3 DEF MapFrom

\* Every request starts with the arguments its first call needs.
LEMMA StartTyped ==
  ASSUME TypeInv, NEW t \in Threads,
         StartConstruct(t) \/ RefuseNoFormat(t) \/ StartMapping(t) \/ StartManage(t)
  PROVE  TypeInv'
  <1> USE FormatAssumption, IdentDbAssumption
  <1>1. ASSUME NEW request \in Request, NEW call \in Calls, NEW u \in Users \union {NoName},
               Start(t, request, call, u),
               call \in {"match", "mint", "find"} => u \in Users,
               call = "localUser" => request.name \in NameId,
               call \in {"match", "mint", "find", "localUser"}
        PROVE  TypeInv'
    <2>1. [NoLocals EXCEPT !.user = u] \in Locals /\ [NoLocals EXCEPT !.user = u].user = u
      BY DEF NoLocals, Locals
    <2>2. NoOutcome \in [kind : Outcomes, user : Users \union {NoName},
                         nid : NameId \union {NoName}]
      BY DEF NoOutcome, Outcomes
    <2>3. TypeOK'
      BY <1>1, <2>1, <2>2 DEF TypeInv, TypeOK, Start
    <2>4. ASSUME NEW s \in Threads PROVE ThreadOK(s)'
      BY <1>1, <2>1, <2>4 DEF TypeInv, TypeOK, ThreadOK, Start
    <2>5. QED
      BY <2>3, <2>4 DEF TypeInv
  <1>2. CASE StartConstruct(t)
    <2>1. PICK u \in Users, f \in Formats, p \in SPs, allow \in BOOLEAN :
            Start(t, [NoRequest EXCEPT !.op = "construct", !.user = u, !.format = f,
                                       !.spq = p, !.allow = allow],
                  IF f = Persistent THEN "match"
                  ELSE IF f = Transient THEN "mint" ELSE "find", u)
      BY <1>2 DEF StartConstruct
    <2>2. [NoRequest EXCEPT !.op = "construct", !.user = u, !.format = f,
                            !.spq = p, !.allow = allow] \in Request
      BY DEF NoRequest, Request
    <2>3. (IF f = Persistent THEN "match" ELSE IF f = Transient THEN "mint" ELSE "find")
            \in {"match", "mint", "find"}
      OBVIOUS
    <2>4. QED
      BY <2>1, <2>2, <2>3, <1>1 DEF Calls
  <1>3. CASE RefuseNoFormat(t)
    <2>1. [NoOutcome EXCEPT !.kind = "NoFormat"]
            \in [kind : Outcomes, user : Users \union {NoName}, nid : NameId \union {NoName}]
      BY DEF NoOutcome, Outcomes
    <2>2. TypeOK'
      BY <1>3, <2>1 DEF RefuseNoFormat, TypeInv, TypeOK
    <2>3. QED
      BY <1>3, <2>2 DEF RefuseNoFormat, TypeInv, ThreadOK
  <1>4. \A n \in Presentable : n \in NameId
    BY DEF Presentable, TypeInv, TypeOK, NameId
  <1>5. CASE StartMapping(t)
    <2>1. PICK n \in Presentable, f \in Formats \union {NoName}, p \in SPs \union {NoName},
               allow \in BOOLEAN :
            Start(t, [NoRequest EXCEPT !.op = "mapping", !.name = n, !.format = f,
                                       !.spq = p, !.allow = allow], "localUser", NoName)
      BY <1>5 DEF StartMapping
    <2>2. [NoRequest EXCEPT !.op = "mapping", !.name = n, !.format = f,
                            !.spq = p, !.allow = allow] \in Request
      BY <1>4 DEF NoRequest, Request
    <2>3. [NoRequest EXCEPT !.op = "mapping", !.name = n, !.format = f,
                            !.spq = p, !.allow = allow].name \in NameId
      BY <1>4 DEF NoRequest
    <2>4. QED
      BY <2>1, <2>2, <2>3, <1>1 DEF Calls
  <1>6. CASE StartManage(t)
    <2>1. PICK n \in Presentable, op \in {"newid", "newEncryptedId", "terminate"},
               p \in SpIds :
            Start(t, [NoRequest EXCEPT !.op = op, !.name = n, !.spid = p],
                  "localUser", NoName)
      BY <1>6 DEF StartManage
    <2>2. [NoRequest EXCEPT !.op = op, !.name = n, !.spid = p] \in Request
      BY <1>4 DEF NoRequest, Request
    <2>3. [NoRequest EXCEPT !.op = op, !.name = n, !.spid = p].name \in NameId
      BY <1>4 DEF NoRequest
    <2>4. QED
      BY <2>1, <2>2, <2>3, <1>1 DEF Calls
  <1>7. QED
    BY <1>2, <1>3, <1>5, <1>6

\* Every store call is followed by the handler's reaction to a typed answer.
LEMMA StepTyped ==
  ASSUME TypeInv, NEW t \in Threads, Step(t)
  PROVE  TypeInv'
  <1> USE FormatAssumption, IdentDbAssumption
  <1> DEFINE u == loc[t].user
             n == loc[t].nid
  <1>1. pc[t] \notin {"idle", "localUser"} => u \in Users
    BY DEF TypeInv, ThreadOK
  <1>2. pc[t] \in {"verify", "insert"} => n \in NameId
    BY DEF TypeInv, ThreadOK
  <1>3. /\ records \subseteq Record
        /\ loc[t] \in Locals /\ req[t] \in Request
    BY DEF TypeInv, TypeOK
  <1>4. \A r \in records : r.user \in Users /\ r.nid \in NameId /\ r.nid.value \in Values
    BY <1>3 DEF Record, NameId
  <1>5. UNCHANGED <<records, removed>> => StoreTyped
    BY StoreKept
  <1>6. CASE FindSlot(t)
    <2>1. \A r \in Answers(OwnSlot(t)) : r.nid \in NameId
      BY <1>4 DEF Answers, OwnSlot, FindDurable, ForUser
    <2>2. CASE \E r \in Answers(OwnSlot(t)) : HandBack(t, r.nid)
      BY <1>1, <1>5, <1>6, <2>1, <2>2, HandBackTyped DEF FindSlot
    <2>3. CASE Fail(t, "CreateNotAllowed")
      BY <1>5, <1>6, <2>3, FailTyped DEF FindSlot, Outcomes
    <2>4. CASE Goto(t, IF pc[t] = "match" THEN "find" ELSE "mint", loc[t])
      <3>1. (IF pc[t] = "match" THEN "find" ELSE "mint") \in {"find", "mint"}
        OBVIOUS
      <3>2. QED
        BY <1>1, <1>3, <1>5, <1>6, <2>4, <3>1, GotoTyped DEF FindSlot, Calls
    <2>5. QED
      BY <1>6, <2>2, <2>3, <2>4 DEF FindSlot
  <1>7. CASE VerifyRecord(t)
    <2>1. CASE Return(t, "ok", n)
      BY <1>1, <1>2, <1>5, <1>7, <2>1, ReturnTyped DEF VerifyRecord, Outcomes
    <2>2. CASE Fail(t, "StoreError")
      BY <1>5, <1>7, <2>2, FailTyped DEF VerifyRecord, Outcomes
    <2>3. QED
      BY <1>7, <2>1, <2>2 DEF VerifyRecord
  <1>8. CASE CreateId(t)
    <2>1. PICK v \in Drawable :
            LET m == [value |-> v, format |-> WantedFormat(t), spq |-> req[t].spq,
                      nq |-> IdpName, spid |-> NoName]
            IN \/ Return(t, "ok", m)
               \/ Goto(t, "insert", [loc[t] EXCEPT !.nid = m, !.draws = 0])
               \/ AfterCollision(t)
      BY <1>8 DEF CreateId
    <2> DEFINE m == [value |-> v, format |-> WantedFormat(t), spq |-> req[t].spq,
                     nq |-> IdpName, spid |-> NoName]
               filled == [loc[t] EXCEPT !.nid = m, !.draws = 0]
    <2>2. v \in Values
      BY <1>4 DEF Drawable, Live
    <2>3. m \in NameId
      BY <1>3, <2>2 DEF NameId, Request, WantedFormat
    <2>4. u \in Users
      BY <1>1, <1>8 DEF CreateId
    <2>5. CASE Return(t, "ok", m)
      BY <1>5, <1>8, <2>3, <2>4, <2>5, ReturnTyped DEF CreateId, Outcomes
    <2>6. CASE Goto(t, "insert", filled)
      <3>1. 0 \in 0..MaxMintAttempts
        OBVIOUS
      <3>2. filled \in Locals
        BY <1>3, <2>3, <3>1 DEF Locals
      <3>3. filled.user \in Users /\ filled.nid \in NameId
        BY <1>3, <2>3, <2>4 DEF Locals
      <3>4. QED
        BY <1>5, <1>8, <2>6, <3>2, <3>3, GotoTyped DEF CreateId, Calls
    <2>7. CASE AfterCollision(t)
      BY <1>5, <1>8, <2>4, <2>7, RetryTyped DEF CreateId
    <2>8. QED
      BY <2>1, <2>5, <2>6, <2>7
  <1>9. CASE GetOrInsertDurable(t)
    <2>1. u \in Users /\ n \in NameId
      BY <1>1, <1>2, <1>9 DEF GetOrInsertDurable
    <2>2. CASE UNCHANGED records /\ \E m \in Winners(Existing(u, n)) : HandBack(t, m)
      <3>1. \A m \in Winners(Existing(u, n)) : m \in NameId
        BY <1>4 DEF Winners, Answers, Existing, FindDurable, ForUser
      <3>2. QED
        BY <1>5, <1>9, <2>1, <2>2, <3>1, HandBackTyped DEF GetOrInsertDurable
    <2>3. CASE UNCHANGED records /\ RetryMint(t)
      BY <1>5, <1>9, <2>1, <2>3, RetryTyped DEF GetOrInsertDurable
    <2>4. CASE records' = Insert(records, u, n) /\ HandBack(t, n)
      <3>1. StoreTyped
        BY <1>3, <1>9, <2>1, <2>4
           DEF GetOrInsertDurable, StoreTyped, Insert, Record, TypeInv, TypeOK
      <3>2. QED
        BY <2>1, <2>4, <3>1, HandBackTyped
    <2>5. QED
      BY <1>9, <2>2, <2>3, <2>4 DEF GetOrInsertDurable
  <1>10. CASE InsertTransient(t)
    <2>1. u \in Users /\ n \in NameId
      BY <1>1, <1>2, <1>10 DEF InsertTransient
    <2>2. CASE records' = Insert(records, u, n) /\ Return(t, "ok", n)
      <3>1. StoreTyped
        BY <1>3, <1>10, <2>1, <2>2
           DEF InsertTransient, StoreTyped, Insert, Record, TypeInv, TypeOK
      <3>2. QED
        BY <2>1, <2>2, <3>1, ReturnTyped DEF Outcomes
    <2>3. CASE UNCHANGED records /\ RetryMint(t)
      BY <1>5, <1>10, <2>1, <2>3, RetryTyped DEF InsertTransient
    <2>4. QED
      BY <1>10, <2>2, <2>3 DEF InsertTransient
  <1>11. CASE LocalUser(t)
    <2>1. \A w \in UserFor(records, req[t].name.value) : w \in Users
      BY <1>4 DEF UserFor
    <2>2. req[t].name \in NameId
      BY <1>11 DEF LocalUser, TypeInv, ThreadOK
    <2>3. CASE Fail(t, "UnknownNameId")
      BY <1>5, <1>11, <2>3, FailTyped DEF LocalUser, Outcomes
    <2>4. ASSUME NEW w \in Users, Goto(t, "localConfirm", [loc[t] EXCEPT !.user = w])
          PROVE  TypeInv'
      <3>1. [loc[t] EXCEPT !.user = w] \in Locals /\ [loc[t] EXCEPT !.user = w].user \in Users
        BY <1>3 DEF Locals
      <3>2. QED
        BY <1>5, <1>11, <2>2, <2>4, <3>1, GotoTyped DEF LocalUser, Calls
    <2>5. ASSUME NEW w \in Users, AfterLocalId(t, w) PROVE TypeInv'
      BY <1>5, <1>11, <2>2, <2>5, AfterLocalIdTyped DEF LocalUser
    <2>6. QED
      BY <1>11, <2>1, <2>3, <2>4, <2>5 DEF LocalUser
  <1>12. CASE ConfirmLocalUser(t)
    <2>1. req[t].name \in NameId /\ u \in Users
      BY <1>1, <1>12 DEF ConfirmLocalUser, TypeInv, ThreadOK
    <2>2. CASE AfterLocalId(t, u)
      BY <1>5, <1>12, <2>1, <2>2, AfterLocalIdTyped DEF ConfirmLocalUser
    <2>3. CASE Fail(t, "StoreError")
      BY <1>5, <1>12, <2>3, FailTyped DEF ConfirmLocalUser, Outcomes
    <2>4. QED
      BY <1>12, <2>2, <2>3 DEF ConfirmLocalUser
  <1>13. CASE Search(t)
    <2>1. u \in Users
      BY <1>1, <1>13 DEF Search
    <2>2. PICK rs \in SUBSET records :
            LET batch == {r.nid : r \in rs}
            IN \/ MapFrom(t, batch)
               \/ Goto(t, "verifyFound", [loc[t] EXCEPT !.batch = batch, !.todo = batch])
               \/ Fail(t, "StoreError")
      BY <1>13 DEF Search, Find, ForUser
    <2> DEFINE batch == {r.nid : r \in rs}
    <2>3. batch \in SUBSET NameId
      BY <1>4
    <2>4. CASE MapFrom(t, batch)
      BY <1>5, <1>13, <2>1, <2>3, <2>4, MapFromTyped DEF Search
    <2>5. CASE Goto(t, "verifyFound", [loc[t] EXCEPT !.batch = batch, !.todo = batch])
      <3> HIDE DEF batch
      <3>1. /\ [loc[t] EXCEPT !.batch = batch, !.todo = batch] \in Locals
            /\ [loc[t] EXCEPT !.batch = batch, !.todo = batch].user \in Users
        BY <1>3, <2>1, <2>3 DEF Locals
      <3>2. QED
        BY <1>5, <1>13, <2>5, <3>1, GotoTyped DEF Search, Calls
    <2>6. CASE Fail(t, "StoreError")
      BY <1>5, <1>13, <2>6, FailTyped DEF Search, Outcomes
    <2>7. QED
      BY <2>2, <2>4, <2>5, <2>6
  <1>14. CASE VerifyFound(t)
    <2>1. u \in Users /\ loc[t].batch \in SUBSET NameId
      BY <1>1, <1>3, <1>14 DEF VerifyFound, Locals
    <2>2. CASE Fail(t, "StoreError")
      BY <1>5, <1>14, <2>2, FailTyped DEF VerifyFound, Outcomes
    <2>3. CASE MapFrom(t, loc[t].batch)
      BY <1>5, <1>14, <2>1, <2>3, MapFromTyped DEF VerifyFound
    <2>4. ASSUME NEW m, Goto(t, "verifyFound", [loc[t] EXCEPT !.todo = @ \ {m}])
          PROVE  TypeInv'
      <3>1. /\ [loc[t] EXCEPT !.todo = @ \ {m}] \in Locals
            /\ [loc[t] EXCEPT !.todo = @ \ {m}].user \in Users
        BY <1>3, <2>1 DEF Locals
      <3>2. QED
        BY <1>5, <1>14, <2>4, <3>1, GotoTyped DEF VerifyFound, Calls
    <2>5. QED
      BY <1>14, <2>2, <2>3, <2>4 DEF VerifyFound
  <1>15. CASE ReplaceRecord(t)
    <2> DEFINE m == [req[t].name EXCEPT !.spid = req[t].spid]
               verdict == ReplaceVerdict(records, u, m)
    <2>1. req[t].name \in NameId /\ u \in Users
      BY <1>1, <1>15 DEF ReplaceRecord, TypeInv, ThreadOK
    <2>2. m \in NameId
      BY <1>3, <2>1 DEF NameId, Request
    <2>3. CASE records' = Replace(records, u, m) /\ Return(t, "ok", m)
      <3> HIDE DEF m
      <3>1. StoreTyped
        BY <1>3, <1>15, <2>1, <2>2, <2>3
           DEF ReplaceRecord, StoreTyped, Replace, Record, TypeInv, TypeOK
      <3>2. QED
        BY <2>1, <2>2, <2>3, <3>1, ReturnTyped DEF Outcomes
    <2>4. CASE verdict # "Ok" /\ Fail(t, verdict) /\ UNCHANGED records
      <3>1. verdict \in Outcomes \ {"ok"}
        BY <2>4 DEF ReplaceVerdict, Outcomes
      <3>2. QED
        BY <1>5, <1>15, <2>4, <3>1, FailTyped DEF ReplaceRecord
    <2>5. QED
      BY <1>15, <2>3, <2>4 DEF ReplaceRecord
  <1>16. CASE RemoveRecord(t)
    <2>1. req[t].name \in NameId /\ u \in Users
      BY <1>1, <1>16 DEF RemoveRecord, TypeInv, ThreadOK
    <2>2. [req[t].name EXCEPT !.spid = NoName] \in NameId
      BY <2>1 DEF NameId
    <2>3. StoreTyped
      BY <1>3, <1>16, <2>1
         DEF RemoveRecord, StoreTyped, Remove, Record, NameId, TypeInv, TypeOK
    <2>4. QED
      BY <1>16, <2>1, <2>2, <2>3, ReturnTyped DEF RemoveRecord, Outcomes
  <1>17. QED
    BY <1>6, <1>7, <1>8, <1>9, <1>10, <1>11, <1>12, <1>13, <1>14, <1>15, <1>16 DEF Step

LEMMA StepKeepsTypes == TypeInv /\ [Next]_vars => TypeInv'
  <1> SUFFICES ASSUME TypeInv, [Next]_vars PROVE TypeInv'
    OBVIOUS
  <1>1. CASE UNCHANGED vars
    BY <1>1 DEF vars, TypeInv, TypeOK, ThreadOK
  <1>2. ASSUME NEW t \in Threads,
               StartConstruct(t) \/ RefuseNoFormat(t) \/ StartMapping(t) \/ StartManage(t)
        PROVE  TypeInv'
    BY <1>2, StartTyped
  <1>3. ASSUME NEW t \in Threads, Step(t) PROVE TypeInv'
    BY <1>3, StepTyped
  <1>4. ASSUME NEW t \in Threads, StoreOutage(t) PROVE TypeInv'
    BY <1>4, StoreKept, FailTyped DEF StoreOutage, Outcomes
  <1>5. ASSUME UNCHANGED <<pc, req, loc, outcome, issued>>, StoreTyped PROVE TypeInv'
    BY <1>5 DEF TypeInv, TypeOK, ThreadOK, StoreTyped
  <1>6. ASSUME NEW u \in Users, NEW n \in AppNameIds, StoreNameId(u, n) PROVE TypeInv'
    <2>1. n \in NameId
      BY IdentDbAssumption
    <2>2. StoreTyped
      BY <1>6, <2>1 DEF StoreNameId, StoreTyped, Replace, Record, TypeInv, TypeOK
    <2>3. QED
      BY <1>5, <1>6, <2>2 DEF StoreNameId
  <1>7. ASSUME NEW v \in Values, RemoveRemote(v) PROVE TypeInv'
    BY <1>5, <1>7 DEF RemoveRemote, StoreTyped, Remove, TypeInv, TypeOK
  <1>8. ASSUME NEW u \in Users, RemoveLocal(u) PROVE TypeInv'
    <2>1. \A r \in records : r.nid.value \in Values
      BY DEF TypeInv, TypeOK, Record, NameId
    <2>2. StoreTyped
      BY <1>8, <2>1 DEF RemoveLocal, StoreTyped, RemoveAll, ForUser, TypeInv, TypeOK
    <2>3. QED
      BY <1>5, <1>8, <2>2 DEF RemoveLocal
  <1>9. QED
    BY <1>1, <1>2, <1>3, <1>4, <1>6, <1>7, <1>8 DEF Next

LEMMA InitTyped == Init => TypeInv
  BY FormatAssumption, IdentDbAssumption
     DEF Init, TypeInv, TypeOK, ThreadOK, Calls, NoRequest, Request, NoLocals, Locals,
         NoOutcome, Outcomes

\* The database is well typed in every reachable state: no handler ever stores
\* or hands out a NameID on behalf of nobody, whatever the store answered.
THEOREM TypesHold == Spec => []TypeOK
  BY InitTyped, StepKeepsTypes, PTL DEF Spec, TypeInv

-----------------------------------------------------------------------------
(* Where a request may be in its course, and what it has by then.  A request   *)
(* moves by one call to the store at a time; each move is described once, for  *)
(* the invariants below to share.                                            *)

\* The user holds the value, or it has been removed.
Kept(rs, gone, u, v) == v \in gone \/ \E r \in rs : r.user = u /\ r.nid.value = v

Wants(q) == IF q.format = NoName THEN Persistent ELSE q.format

\* A request q about to make a call, with locals l, got there as it may: a durable
\* slot is read for a durable format, and nothing is created against AllowCreate.
ControlOK(call, q, l) ==
  /\ call \in {"match", "find"} => Wants(q) # Transient
  /\ call = "verify" => l.nid.format # Transient
  /\ call = "insert" => l.nid.format = Wants(q)
  /\ call \in {"replace", "remove"} => q.op \in {"newid", "terminate"}
  /\ call \in {"find", "mint", "insert"} /\ (q.op = "mapping" \/ q.format \in {Persistent, NoName})
       => q.allow
  /\ call \in {"verify", "verifyFound"} => VerifyStore

\* What a search returned and is no longer to be verified is the user's.
FoundOK(rs, gone, call, l) ==
  call = "verifyFound" => \A n \in l.batch \ l.todo : Kept(rs, gone, l.user, n.value)

\* The store is verified, or needs no verification.
Trusted == VerifyStore \/ ~FaultyReads

\* A durable NameID that went to an SP is kept for its user.
LedgerInv ==
  /\ \A t \in Threads : /\ ControlOK(pc[t], req[t], loc[t])
                        /\ FoundOK(records, removed, pc[t], loc[t])
  /\ Trusted => \A p \in issued : p[2].format = Transient \/ Kept(records, removed, p[1], p[2].value)

\* NameIDs a request has at hand.
Held(rs, is, l) ==
  {r.nid : r \in rs} \union {p[2] : p \in is} \union ({l.nid} \ {NoName}) \union l.batch

\* A candidate create_id settles on.
Minted(t, n) ==
  /\ pc[t] = "mint" /\ UNCHANGED <<records, removed>>
  /\ n.value \in Drawable /\ UserFor(records, n.value) = {}

Goes(t, call, l) ==
  /\ Goto(t, call, l) /\ ControlOK(call, req[t], l) /\ FoundOK(records, removed, call, l)
  /\ l.batch \subseteq loc[t].batch \union {r.nid : r \in records}
  /\ \/ call = "insert" /\ Minted(t, l.nid)
     \/ call # "insert" /\ l.nid \in Held(records, issued, loc[t]) \union {NoName}

\* What reaches an SP is a transient made for it, or a durable NameID kept.
Answered(t, n) ==
  req[t].op \in {"construct", "mapping"} =>
    /\ n \in Held(records, issued, loc[t]) \/ (pc[t] = "mint" /\ ~PersistTransient)
    /\ Trusted =>
         \/ /\ n.format = Transient
            /\ (pc[t] = "insert" /\ n = loc[t].nid) \/ (pc[t] = "mint" /\ ~PersistTransient)
         \/ /\ n.format # Transient
            /\ \/ Kept(records, removed, loc[t].user, n.value)
               \/ Kept(records', removed', loc[t].user, n.value)

Moved(t) ==
  \/ \E call \in Calls, l \in Locals : Goes(t, call, l)
  \/ \E n \in NameId : Return(t, "ok", n) /\ Answered(t, n)
  \/ \E kind \in Outcomes \ {"ok"} : Fail(t, kind)

LEMMA Going ==
  ASSUME NEW t \in Threads, NEW call \in Calls, NEW l \in Locals, Goes(t, call, l)
  PROVE  Moved(t)
  BY Zenon DEF Moved

LEMMA Ending ==
  ASSUME NEW t \in Threads, NEW n \in NameId, Return(t, "ok", n), Answered(t, n)
  PROVE  Moved(t)
  BY Zenon DEF Moved

LEMMA Failing ==
  ASSUME NEW t \in Threads, NEW kind \in Outcomes \ {"ok"}, Fail(t, kind)
  PROVE  Moved(t)
  BY Zenon DEF Moved

\* A record handed back, verified or about to be.
LEMMA HandBackMoves ==
  ASSUME TypeInv, NEW t \in Threads, NEW n \in NameId, HandBack(t, n),
         n \in Held(records, issued, loc[t]),
         Trusted /\ ~VerifyStore =>
           /\ n.format # Transient
           /\ \/ Kept(records, removed, loc[t].user, n.value)
              \/ Kept(records', removed', loc[t].user, n.value)
  PROVE  Moved(t)
  <1>1. CASE ~VerifyStore /\ Return(t, "ok", n)
    BY <1>1, Ending DEF Answered
  <1>2. CASE /\ VerifyStore /\ DurableMatch(n, WantedFormat(t), req[t].spq, IdpName)
             /\ Goto(t, "verify", [loc[t] EXCEPT !.nid = n])
    <2> DEFINE l == [loc[t] EXCEPT !.nid = n]
    <2>1. l \in Locals /\ l.nid = n /\ l.batch = loc[t].batch
      BY DEF TypeInv, TypeOK, Locals
    <2>2. n.format # Transient
      BY <1>2 DEF DurableMatch
    <2> HIDE DEF l
    <2>3. Goes(t, "verify", l)
      BY <1>2, <2>1, <2>2 DEF Goes, ControlOK, FoundOK, l
    <2>4. QED
      BY <2>1, <2>3, Going DEF Calls
  <1>3. CASE Fail(t, "StoreError")
    BY <1>3, Failing DEF Outcomes
  <1>4. QED
    BY <1>1, <1>2, <1>3 DEF HandBack

\* Drawing or minting again.
LEMMA RetryMoves ==
  ASSUME TypeInv, LedgerInv, NEW t \in Threads, pc[t] \in {"mint", "insert"},
         (AfterCollision(t) /\ pc[t] = "mint") \/ RetryMint(t)
  PROVE  Moved(t)
  <1> DEFINE drawn == [loc[t] EXCEPT !.draws = @ + 1]
             tried == [loc[t] EXCEPT !.nid = NoName, !.tries = @ + 1]
  <1>1. loc[t] \in Locals /\ ControlOK(pc[t], req[t], loc[t])
    BY DEF TypeInv, TypeOK, LedgerInv
  <1>2. ASSUME NEW l \in Locals, Goto(t, "mint", l), l.batch = loc[t].batch,
               l.nid = NoName \/ l.nid = loc[t].nid
        PROVE  Moved(t)
    <2>1. l.nid \in Held(records, issued, loc[t]) \union {NoName}
      BY <1>2 DEF Held
    <2>2. Goes(t, "mint", l)
      BY <1>1, <1>2, <2>1 DEF Goes, ControlOK, FoundOK
    <2>3. QED
      BY <2>2, Going DEF Calls
  <1>3. ASSUME loc[t].draws + 1 < MaxMintAttempts, Goto(t, "mint", drawn)
        PROVE  Moved(t)
    <2>1. loc[t].draws \in 0..MaxMintAttempts
      BY <1>1 DEF Locals
    <2>2. loc[t].draws + 1 \in 0..MaxMintAttempts
      BY <1>3, <2>1, IdentDbAssumption
    <2>3. drawn \in Locals /\ drawn.batch = loc[t].batch /\ drawn.nid = loc[t].nid
      BY <1>1, <2>2 DEF Locals
    <2>4. QED
      BY <1>2, <1>3, <2>3
  <1>4. ASSUME loc[t].tries + 1 < MaxMintAttempts, Goto(t, "mint", tried)
        PROVE  Moved(t)
    <2>1. loc[t].tries \in 0..MaxMintAttempts
      BY <1>1 DEF Locals
    <2>2. loc[t].tries + 1 \in 0..MaxMintAttempts
      BY <1>4, <2>1, IdentDbAssumption
    <2>3. tried \in Locals /\ tried.batch = loc[t].batch /\ tried.nid = NoName
      BY <1>1, <2>2 DEF Locals
    <2>4. QED
      BY <1>2, <1>4, <2>3
  <1>5. CASE Fail(t, "StoreError")
    BY <1>5, Failing DEF Outcomes
  <1>6. QED
    BY <1>3, <1>4, <1>5 DEF AfterCollision, RetryMint

LEMMA AfterLocalIdMoves ==
  ASSUME TypeInv, NEW t \in Threads, NEW u \in Users, AfterLocalId(t, u)
  PROVE  Moved(t)
  <1> DEFINE l == [loc[t] EXCEPT !.user = u]
  <1>1. l \in Locals /\ l.nid = loc[t].nid /\ l.batch = loc[t].batch
    BY DEF TypeInv, TypeOK, Locals
  <1>2. l.nid \in Held(records, issued, loc[t]) \union {NoName}
    BY <1>1 DEF Held
  <1>3. CASE Fail(t, "Unsupported")
    BY <1>3, Failing DEF Outcomes
  <1>4. ASSUME NEW call \in {"search", "replace", "remove"}, Goto(t, call, l),
               call # "search" => req[t].op \in {"newid", "terminate"}
        PROVE  Moved(t)
    <2> HIDE DEF l
    <2>1. Goes(t, call, l)
      BY <1>1, <1>2, <1>4 DEF Goes, ControlOK, FoundOK
    <2>2. QED
      BY <1>1, <2>1, Going DEF Calls
  <1>5. QED
    BY <1>3, <1>4 DEF AfterLocalId

LEMMA MapFromMoves ==
  ASSUME TypeInv, NEW t \in Threads, NEW batch \in SUBSET NameId, MapFrom(t, batch),
         batch \subseteq Held(records, issued, loc[t]),
         Trusted => \A n \in batch : Kept(records, removed, loc[t].user, n.value)
  PROVE  Moved(t)
  <1> DEFINE l == [loc[t] EXCEPT !.batch = {}, !.nid = NoName]
  <1>1. ASSUME NEW n \in Usable(batch), Return(t, "ok", n) PROVE Moved(t)
    <2>1. n \in batch /\ n \in NameId /\ n.format # Transient
      BY DEF Usable
    <2>2. QED
      BY <1>1, <2>1, Ending DEF Answered
  <1>2. CASE req[t].allow /\ Goto(t, GetNameIdCall(t), l)
    <2>1. l \in Locals /\ l.nid = NoName /\ l.batch = {}
      BY DEF TypeInv, TypeOK, Locals
    <2> HIDE DEF l
    <2>2. GetNameIdCall(t) \in {"find", "mint"} /\ (GetNameIdCall(t) = "find" => Wants(req[t]) # Transient)
      BY DEF GetNameIdCall, IsDurable, WantedFormat, Wants
    <2>3. Goes(t, GetNameIdCall(t), l)
      BY <1>2, <2>1, <2>2 DEF Goes, ControlOK, FoundOK
    <2>4. QED
      BY <2>1, <2>2, <2>3, Going DEF Calls
  <1>3. CASE Fail(t, "CreateNotAllowed")
    BY <1>3, Failing DEF Outcomes
  <1>4. QED
    BY <1>1, <1>2, <1>3 DEF MapFrom, MayCreate


LEMMA StepMoves ==
  ASSUME TypeInv, LedgerInv, NEW t \in Threads, Step(t)
  PROVE  Moved(t)
  <1> DEFINE u == loc[t].user
             n == loc[t].nid
  <1>1. /\ loc[t] \in Locals /\ req[t] \in Request /\ records \subseteq Record
        /\ ControlOK(pc[t], req[t], loc[t]) /\ FoundOK(records, removed, pc[t], loc[t])
    BY DEF TypeInv, TypeOK, LedgerInv
  <1>2. /\ pc[t] \notin {"idle", "localUser"} => u \in Users
        /\ pc[t] \in {"verify", "insert"} => n \in NameId /\ n # NoName
    BY IdentDbAssumption DEF TypeInv, ThreadOK
  <1>3. \A r \in records : r.user \in Users /\ r.nid \in NameId
    BY <1>1 DEF Record
  <1>4. n # NoName => n \in Held(records, issued, loc[t])
    BY DEF Held
  <1>5. \A r \in records : r.nid \in Held(records, issued, loc[t])
    BY DEF Held
  <1>6. n \in Held(records, issued, loc[t]) \union {NoName}
    BY DEF Held
  <1>7. IsDurable(t) <=> Wants(req[t]) # Transient
    BY DEF IsDurable, WantedFormat, Wants
  <1>8. WantedFormat(t) = Wants(req[t])
    BY DEF WantedFormat, Wants
  <1>9. CASE FindSlot(t)
    <2>1. ASSUME NEW r \in Answers(OwnSlot(t)), HandBack(t, r.nid) PROVE Moved(t)
      <3>1. r \in records
        BY DEF Answers, OwnSlot, FindDurable, ForUser
      <3>2. Trusted /\ ~VerifyStore => r.user = u /\ r.nid.format # Transient
        BY DEF Trusted, Answers, OwnSlot, FindDurable, ForUser, DurableMatch
      <3>3. Trusted /\ ~VerifyStore => Kept(records, removed, u, r.nid.value)
        BY <3>1, <3>2 DEF Kept
      <3>4. QED
        BY <1>3, <1>5, <2>1, <3>1, <3>2, <3>3, HandBackMoves
    <2>2. ASSUME NEW call \in {"find", "mint"}, Goto(t, call, loc[t]),
                 pc[t] = "match" => call = "find" /\ req[t].allow,
                 pc[t] # "match" => call = "mint"
          PROVE  Moved(t)
      <3>1. pc[t] \in {"match", "find"}
        BY <1>9 DEF FindSlot
      <3>2. Goes(t, call, loc[t])
        BY <1>1, <1>6, <2>2, <3>1 DEF Goes, ControlOK, FoundOK
      <3>3. QED
        BY <1>1, <3>2, Going DEF Calls
    <2>3. CASE Fail(t, "CreateNotAllowed")
      BY <2>3, Failing DEF Outcomes
    <2>4. QED
      BY <1>9, <2>1, <2>2, <2>3 DEF FindSlot
  <1>10. CASE VerifyRecord(t)
    <2>1. ASSUME Attributed(u, n), Return(t, "ok", n), UNCHANGED <<records, removed>>,
                 pc[t] = "verify"
          PROVE  Moved(t)
      <3>1. n.format # Transient
        BY <1>1, <2>1 DEF ControlOK
      <3>2. VerifyStore => Kept(records, removed, u, n.value)
        BY <2>1 DEF Attributed, UserFor, Kept
      <3>3. VerifyStore
        BY <1>1, <2>1 DEF ControlOK
      <3>4. QED
        BY <1>2, <1>4, <2>1, <3>1, <3>2, <3>3, Ending DEF Answered
    <2>2. CASE Fail(t, "StoreError")
      BY <2>2, Failing DEF Outcomes
    <2>3. QED
      BY <1>10, <2>1, <2>2 DEF VerifyRecord
  <1>11. CASE CreateId(t)
    <2>1. PICK v \in Drawable :
            LET m == [value |-> v, format |-> WantedFormat(t), spq |-> req[t].spq,
                      nq |-> IdpName, spid |-> NoName]
            IN \/ ~IsDurable(t) /\ ~PersistTransient /\ Return(t, "ok", m)
               \/ /\ UserFor(records, v) = {}
                  /\ Goto(t, "insert", [loc[t] EXCEPT !.nid = m, !.draws = 0])
               \/ AfterCollision(t)
      BY <1>11 DEF CreateId
    <2> DEFINE m == [value |-> v, format |-> WantedFormat(t), spq |-> req[t].spq,
                     nq |-> IdpName, spid |-> NoName]
               l == [loc[t] EXCEPT !.nid = m, !.draws = 0]
    <2>2. v \in Values
      BY <1>3 DEF Drawable, Live, NameId
    <2>3. m \in NameId /\ m.format = Wants(req[t]) /\ m.value = v
      BY <1>1, <1>8, <2>2, FormatAssumption, IdentDbAssumption DEF NameId, Request, WantedFormat
    <2>4. pc[t] = "mint" /\ UNCHANGED <<records, removed>>
      BY <1>11 DEF CreateId
    <2> HIDE DEF m
    <2>5. CASE ~IsDurable(t) /\ ~PersistTransient /\ Return(t, "ok", m)
      BY <1>7, <2>3, <2>4, <2>5, Ending DEF Answered
    <2>6. CASE UserFor(records, v) = {} /\ Goto(t, "insert", l)
      <3>1. 0 \in 0..MaxMintAttempts
        BY IdentDbAssumption
      <3>2. l \in Locals /\ l.nid = m /\ l.batch = loc[t].batch
        BY <1>1, <2>3, <3>1 DEF Locals
      <3> HIDE DEF l
      <3>3. Minted(t, l.nid)
        BY <2>3, <2>4, <2>6, <3>2 DEF Minted
      <3>4. Goes(t, "insert", l)
        BY <1>1, <2>3, <2>4, <2>6, <3>2, <3>3 DEF Goes, ControlOK, FoundOK
      <3>5. QED
        BY <3>2, <3>4, Going DEF Calls
    <2>7. CASE AfterCollision(t)
      BY <2>4, <2>7, RetryMoves
    <2>8. QED
      BY <2>1, <2>5, <2>6, <2>7 DEF m
  <1>12. CASE GetOrInsertDurable(t)
    <2>1. n \in NameId /\ n # NoName /\ pc[t] = "insert" /\ n.format # Transient
      BY <1>1, <1>2, <1>7, <1>12 DEF GetOrInsertDurable, ControlOK
    <2>2. ASSUME NEW m \in Winners(Existing(u, n)), HandBack(t, m) PROVE Moved(t)
      <3>1. PICK r \in Answers(Existing(u, n)) : r.nid = m
        BY DEF Winners
      <3>2. r \in records
        BY DEF Answers, Existing, FindDurable, ForUser
      <3>3. Trusted /\ ~VerifyStore => r.user = u /\ m.format # Transient
        BY <3>1 DEF Trusted, Answers, Existing, FindDurable, ForUser, DurableMatch
      <3>4. Trusted /\ ~VerifyStore => Kept(records, removed, u, m.value)
        BY <3>1, <3>2, <3>3 DEF Kept
      <3>5. QED
        BY <1>3, <1>5, <2>2, <3>1, <3>2, <3>3, <3>4, HandBackMoves
    <2>3. CASE RetryMint(t)
      BY <2>1, <2>3, RetryMoves
    <2>4. CASE records' = Insert(records, u, n) /\ HandBack(t, n)
      <3> DEFINE r == [user |-> u, nid |-> n]
      <3>1. r \in records' /\ r.user = u /\ r.nid = n
        BY <2>4 DEF Insert
      <3> HIDE DEF r
      <3>2. Kept(records', removed', u, n.value)
        BY <3>1 DEF Kept
      <3>3. QED
        BY <1>4, <2>1, <2>4, <3>2, HandBackMoves
    <2>5. QED
      BY <1>12, <2>2, <2>3, <2>4 DEF GetOrInsertDurable
  <1>13. CASE InsertTransient(t)
    <2>1. n \in NameId /\ n # NoName /\ pc[t] = "insert" /\ n.format = Transient
      BY <1>1, <1>2, <1>7, <1>13 DEF InsertTransient, ControlOK
    <2>2. CASE Return(t, "ok", n)
      BY <1>4, <2>1, <2>2, Ending DEF Answered
    <2>3. CASE RetryMint(t)
      BY <2>1, <2>3, RetryMoves
    <2>4. QED
      BY <1>13, <2>2, <2>3 DEF InsertTransient
  <1>14. CASE LocalUser(t)
    <2>1. \A w \in UserFor(records, req[t].name.value) : w \in Users
      BY <1>3 DEF UserFor
    <2>2. CASE Fail(t, "UnknownNameId")
      BY <2>2, Failing DEF Outcomes
    <2>3. ASSUME NEW w \in Users, Goto(t, "localConfirm", [loc[t] EXCEPT !.user = w])
          PROVE  Moved(t)
      <3> DEFINE l == [loc[t] EXCEPT !.user = w]
      <3>1. l \in Locals /\ l.nid = n /\ l.batch = loc[t].batch
        BY <1>1 DEF Locals
      <3> HIDE DEF l
      <3>2. Goes(t, "localConfirm", l)
        BY <1>6, <2>3, <3>1 DEF Goes, ControlOK, FoundOK, l
      <3>3. QED
        BY <3>1, <3>2, Going DEF Calls
    <2>4. QED
      BY <1>14, <2>1, <2>2, <2>3, AfterLocalIdMoves DEF LocalUser
  <1>15. CASE ConfirmLocalUser(t)
    <2>1. u \in Users
      BY <1>2, <1>15 DEF ConfirmLocalUser
    <2>2. CASE Fail(t, "StoreError")
      BY <2>2, Failing DEF Outcomes
    <2>3. QED
      BY <1>15, <2>1, <2>2, AfterLocalIdMoves DEF ConfirmLocalUser
  <1>16. CASE Search(t)
    <2>1. PICK rs \in SUBSET records :
            LET batch == {r.nid : r \in rs}
            IN /\ FaultyReads \/ rs = Find(records, u, Filter(t))
               /\ \/ (~VerifyStore \/ batch = {}) /\ MapFrom(t, batch)
                  \/ /\ VerifyStore
                     /\ Goto(t, "verifyFound", [loc[t] EXCEPT !.batch = batch, !.todo = batch])
                  \/ Fail(t, "StoreError")
      BY <1>16 DEF Search, Find, ForUser
    <2> DEFINE batch == {r.nid : r \in rs}
    <2>2. batch \in SUBSET NameId /\ batch \subseteq {r.nid : r \in records}
      BY <1>3
    <2>3. CASE (~VerifyStore \/ batch = {}) /\ MapFrom(t, batch)
      <3>1. Trusted => \A m \in batch : Kept(records, removed, u, m.value)
        BY <2>1, <2>3 DEF Trusted, Find, ForUser, Kept
      <3>2. QED
        BY <1>5, <2>2, <2>3, <3>1, MapFromMoves
    <2>4. CASE /\ VerifyStore
               /\ Goto(t, "verifyFound", [loc[t] EXCEPT !.batch = batch, !.todo = batch])
      <3> HIDE DEF batch
      <3> DEFINE l == [loc[t] EXCEPT !.batch = batch, !.todo = batch]
      <3>1. l \in Locals /\ l.nid = n /\ l.batch = batch /\ l.todo = batch
        BY <1>1, <2>2 DEF Locals
      <3> HIDE DEF l
      <3>2. Goes(t, "verifyFound", l)
        BY <1>6, <2>2, <2>4, <3>1 DEF Goes, ControlOK, FoundOK, l
      <3>3. QED
        BY <3>1, <3>2, Going DEF Calls
    <2>5. CASE Fail(t, "StoreError")
      BY <2>5, Failing DEF Outcomes
    <2>6. QED
      BY <2>1, <2>3, <2>4, <2>5
  <1>17. CASE VerifyFound(t)
    <2>1. PICK m \in loc[t].todo :
            IF ~Attributed(u, m)
            THEN Fail(t, "StoreError")
            ELSE IF loc[t].todo = {m}
                 THEN MapFrom(t, loc[t].batch)
                 ELSE Goto(t, "verifyFound", [loc[t] EXCEPT !.todo = @ \ {m}])
      BY <1>17 DEF VerifyFound
    <2>2. VerifyStore /\ \A k \in loc[t].batch \ loc[t].todo : Kept(records, removed, u, k.value)
      BY <1>1, <1>17 DEF VerifyFound, ControlOK, FoundOK
    <2>3. Attributed(u, m) => Kept(records, removed, u, m.value)
      BY <2>2 DEF Attributed, UserFor, Kept
    <2>4. loc[t].batch \in SUBSET NameId /\ loc[t].batch \subseteq Held(records, issued, loc[t])
      BY <1>1 DEF Locals, Held
    <2>5. CASE Attributed(u, m) /\ loc[t].todo = {m} /\ MapFrom(t, loc[t].batch)
      BY <2>2, <2>3, <2>4, <2>5, MapFromMoves
    <2>6. CASE Attributed(u, m) /\ Goto(t, "verifyFound", [loc[t] EXCEPT !.todo = @ \ {m}])
      <3> DEFINE l == [loc[t] EXCEPT !.todo = @ \ {m}]
      <3>1. /\ l \in Locals /\ l.nid = n /\ l.batch = loc[t].batch /\ l.user = u
            /\ l.todo = loc[t].todo \ {m}
        BY <1>1 DEF Locals
      <3> HIDE DEF l
      <3>2. FoundOK(records, removed, "verifyFound", l)
        BY <2>2, <2>3, <2>6, <3>1 DEF FoundOK
      <3>3. Goes(t, "verifyFound", l)
        BY <1>6, <2>2, <2>6, <3>1, <3>2 DEF Goes, ControlOK, l
      <3>4. QED
        BY <3>1, <3>3, Going DEF Calls
    <2>7. CASE Fail(t, "StoreError")
      BY <2>7, Failing DEF Outcomes
    <2>8. QED
      BY <2>1, <2>5, <2>6, <2>7
  <1>18. CASE ReplaceRecord(t)
    <2> DEFINE m == [req[t].name EXCEPT !.spid = req[t].spid]
    <2>1. req[t].name \in NameId /\ req[t].op \notin {"construct", "mapping"}
      BY <1>1, <1>18 DEF ReplaceRecord, TypeInv, ThreadOK, ControlOK
    <2>2. m \in NameId
      BY <1>1, <2>1 DEF NameId, Request
    <2> HIDE DEF m
    <2>3. CASE Return(t, "ok", m)
      BY <2>1, <2>2, <2>3, Ending DEF Answered
    <2>4. ASSUME NEW verdict \in {"ValueTaken", "DurableExists"}, Fail(t, verdict) PROVE Moved(t)
      BY <2>4, Failing DEF Outcomes
    <2>5. ReplaceVerdict(records, u, m) \in {"Ok", "ValueTaken", "DurableExists"}
      BY DEF ReplaceVerdict
    <2>6. QED
      BY <1>18, <2>3, <2>4, <2>5 DEF ReplaceRecord, m
  <1>19. CASE RemoveRecord(t)
    <2>1. req[t].name \in NameId /\ req[t].op \notin {"construct", "mapping"}
      BY <1>1, <1>19 DEF RemoveRecord, TypeInv, ThreadOK, ControlOK
    <2>2. [req[t].name EXCEPT !.spid = NoName] \in NameId
      BY <2>1, FormatAssumption DEF NameId
    <2>3. QED
      BY <1>19, <2>1, <2>2, Ending DEF RemoveRecord, Answered
  <1>20. QED
    BY <1>9, <1>10, <1>11, <1>12, <1>13, <1>14, <1>15, <1>16, <1>17, <1>18, <1>19 DEF Step


\* No step takes a value out of the store without noting its removal.
LEMMA RemovalsAreNoted ==
  ASSUME [Next]_vars
  PROVE  /\ removed \subseteq removed'
         /\ \A r \in records : r.nid.value \in removed'
                               \/ \E s \in records' : s.nid.value = r.nid.value
  <1>1. ASSUME UNCHANGED <<records, removed>>
        PROVE  /\ removed \subseteq removed'
               /\ \A r \in records : \E s \in records' : s.nid.value = r.nid.value
    BY <1>1
  <1>2. ASSUME NEW u, NEW n, records' = Insert(records, u, n), UNCHANGED removed
        PROVE  /\ removed \subseteq removed'
               /\ \A r \in records : \E s \in records' : s.nid.value = r.nid.value
    BY <1>2 DEF Insert
  <1>3. ASSUME NEW u, NEW n, records' = Replace(records, u, n), UNCHANGED removed
        PROVE  /\ removed \subseteq removed'
               /\ \A r \in records : \E s \in records' : s.nid.value = r.nid.value
    <2> DEFINE new == [user |-> u, nid |-> n]
    <2>1. /\ new \in records' /\ new.nid = n
          /\ \A r \in records : r \in records' \/ r.nid.value = n.value
      BY <1>3 DEF Replace
    <2> HIDE DEF new
    <2>2. QED
      BY <1>3, <2>1
  <1>4. ASSUME NEW v, records' = Remove(records, v), removed' = removed \union ({v} \intersect Live)
        PROVE  /\ removed \subseteq removed'
               /\ \A r \in records : r.nid.value \in removed' \/ r \in records'
    BY <1>4 DEF Remove, Live
  <1>5. ASSUME NEW u \in Users, RemoveLocal(u)
        PROVE  /\ removed \subseteq removed'
               /\ \A r \in records : r.nid.value \in removed' \/ r \in records'
    BY <1>5 DEF RemoveLocal, RemoveAll, ForUser
  <1>6. CASE UNCHANGED vars
    BY <1>1, <1>6 DEF vars
  <1>7. ASSUME NEW t \in Threads, Step(t)
        PROVE  /\ removed \subseteq removed'
               /\ \A r \in records : r.nid.value \in removed'
                                     \/ \E s \in records' : s.nid.value = r.nid.value
    <2>1. CASE FindSlot(t) \/ VerifyRecord(t) \/ CreateId(t) \/ LocalUser(t)
               \/ ConfirmLocalUser(t) \/ Search(t) \/ VerifyFound(t)
      BY <1>1, <2>1 DEF FindSlot, VerifyRecord, CreateId, LocalUser, ConfirmLocalUser, Search,
                        VerifyFound
    <2>2. CASE GetOrInsertDurable(t)
      BY <1>1, <1>2, <2>2 DEF GetOrInsertDurable
    <2>3. CASE InsertTransient(t)
      BY <1>1, <1>2, <2>3 DEF InsertTransient
    <2>4. CASE ReplaceRecord(t)
      BY <1>1, <1>3, <2>4 DEF ReplaceRecord
    <2>5. CASE RemoveRecord(t)
      BY <1>4, <2>5 DEF RemoveRecord
    <2>6. QED
      BY <1>7, <2>1, <2>2, <2>3, <2>4, <2>5 DEF Step
  <1>8. ASSUME NEW t \in Threads,
               StartConstruct(t) \/ RefuseNoFormat(t) \/ StartMapping(t) \/ StartManage(t)
                 \/ StoreOutage(t)
        PROVE  UNCHANGED <<records, removed>>
    BY <1>8 DEF StartConstruct, RefuseNoFormat, StartMapping, StartManage, StoreOutage, Start
  <1>9. ASSUME NEW u \in Users, NEW n \in AppNameIds, StoreNameId(u, n)
        PROVE  records' = Replace(records, u, n) /\ UNCHANGED removed
    BY <1>9 DEF StoreNameId
  <1>10. ASSUME NEW v \in Values, RemoveRemote(v)
         PROVE  records' = Remove(records, v) /\ removed' = removed \union ({v} \intersect Live)
    BY <1>10 DEF RemoveRemote
  <1>11. QED
    BY <1>1, <1>3, <1>4, <1>5, <1>6, <1>7, <1>8, <1>9, <1>10 DEF Next

\* What a user keeps, it keeps until the value is removed.
LEMMA KeptStays ==
  ASSUME StoreUnique, [Next]_vars, NEW u, NEW v, Kept(records, removed, u, v)
  PROVE  Kept(records', removed', u, v)
  BY RemovalsAreNoted, OwnersStay DEF Kept

LEMMA FoundStays ==
  ASSUME StoreUnique, [Next]_vars, NEW call, NEW l, FoundOK(records, removed, call, l)
  PROVE  FoundOK(records', removed', call, l)
  BY KeptStays DEF FoundOK

\* A request starts where its kind of request starts.
LEMMA StartsOK ==
  ASSUME NEW t \in Threads, StartConstruct(t) \/ StartMapping(t) \/ StartManage(t), TypeInv
  PROVE  /\ \A s \in Threads \ {t} : pc'[s] = pc[s] /\ req'[s] = req[s] /\ loc'[s] = loc[s]
         /\ ControlOK(pc'[t], req'[t], loc'[t]) /\ pc'[t] \notin {"insert", "verifyFound"}
         /\ loc'[t].nid = NoName /\ loc'[t].batch = {}
         /\ req'[t].name # NoName => req'[t].name \in Presentable
         /\ UNCHANGED <<records, issued, removed>>
  <1> USE FormatAssumption, IdentDbAssumption
  <1>1. ASSUME NEW q, NEW call, NEW u, Start(t, q, call, u)
        PROVE  /\ \A s \in Threads \ {t} : pc'[s] = pc[s] /\ req'[s] = req[s] /\ loc'[s] = loc[s]
               /\ pc'[t] = call /\ req'[t] = q /\ loc'[t].nid = NoName /\ loc'[t].batch = {}
               /\ UNCHANGED <<records, issued, removed>>
    BY <1>1 DEF Start, NoLocals, TypeInv, TypeOK
  <1>2. CASE StartConstruct(t)
    <2>1. PICK u \in Users, f \in Formats, p \in SPs, allow \in BOOLEAN :
            Start(t, [NoRequest EXCEPT !.op = "construct", !.user = u, !.format = f,
                                       !.spq = p, !.allow = allow],
                  IF f = Persistent THEN "match"
                  ELSE IF f = Transient THEN "mint" ELSE "find", u)
      BY <1>2 DEF StartConstruct
    <2> DEFINE q == [NoRequest EXCEPT !.op = "construct", !.user = u, !.format = f,
                                      !.spq = p, !.allow = allow]
               call == IF f = Persistent THEN "match"
                       ELSE IF f = Transient THEN "mint" ELSE "find"
    <2>2. q.op = "construct" /\ q.format = f /\ q.name = NoName
      BY DEF NoRequest
    <2>3. f # NoName /\ Wants(q) = f
      BY <2>2 DEF Wants
    <2>4. Start(t, q, call, u)
      BY <2>1
    <2> HIDE DEF q
    <2>5. \/ call = "match" /\ f = Persistent
          \/ call = "mint" /\ f = Transient
          \/ call = "find" /\ f \notin {Persistent, Transient}
      OBVIOUS
    <2> HIDE DEF call
    <2>6. ControlOK(call, q, loc'[t])
      BY <2>2, <2>3, <2>5 DEF ControlOK
    <2>7. QED
      BY <1>1, <2>2, <2>4, <2>5, <2>6
  <1>3. ASSUME NEW q, q.name \in Presentable, Start(t, q, "localUser", NoName)
        PROVE  /\ \A s \in Threads \ {t} : pc'[s] = pc[s] /\ req'[s] = req[s] /\ loc'[s] = loc[s]
               /\ ControlOK(pc'[t], req'[t], loc'[t]) /\ pc'[t] \notin {"insert", "verifyFound"}
               /\ loc'[t].nid = NoName /\ loc'[t].batch = {}
               /\ req'[t].name \in Presentable
               /\ UNCHANGED <<records, issued, removed>>
    BY <1>1, <1>3 DEF ControlOK
  <1>4. CASE StartMapping(t)
    <2>1. PICK n \in Presentable, f \in Formats \union {NoName}, p \in SPs \union {NoName},
               allow \in BOOLEAN :
            Start(t, [NoRequest EXCEPT !.op = "mapping", !.name = n, !.format = f,
                                       !.spq = p, !.allow = allow], "localUser", NoName)
      BY <1>4 DEF StartMapping
    <2>2. [NoRequest EXCEPT !.op = "mapping", !.name = n, !.format = f,
                            !.spq = p, !.allow = allow].name = n
      BY DEF NoRequest
    <2>3. QED
      BY <1>3, <2>1, <2>2
  <1>5. CASE StartManage(t)
    <2>1. PICK n \in Presentable, op \in {"newid", "newEncryptedId", "terminate"},
               p \in SpIds :
            Start(t, [NoRequest EXCEPT !.op = op, !.name = n, !.spid = p],
                  "localUser", NoName)
      BY <1>5 DEF StartManage
    <2>2. [NoRequest EXCEPT !.op = op, !.name = n, !.spid = p].name = n
      BY DEF NoRequest
    <2>3. QED
      BY <1>3, <2>1, <2>2
  <1>6. QED
    BY <1>2, <1>4, <1>5


LEMMA MovedKeepsLedger ==
  ASSUME TypeInv, StoreUnique, LedgerInv, [Next]_vars, NEW t \in Threads, Moved(t)
  PROVE  LedgerInv'
  <1>1. ASSUME NEW s \in Threads, pc'[s] = pc[s], req'[s] = req[s], loc'[s] = loc[s]
        PROVE  /\ ControlOK(pc'[s], req'[s], loc'[s])
               /\ FoundOK(records', removed', pc'[s], loc'[s])
    BY <1>1, FoundStays DEF LedgerInv
  <1>2. Trusted => \A p \in issued : p[2].format = Transient
                                     \/ Kept(records', removed', p[1], p[2].value)
    BY KeptStays DEF LedgerInv
  <1>3. ASSUME NEW call \in Calls, NEW l \in Locals, Goes(t, call, l) PROVE LedgerInv'
    <2>1. /\ pc' = [pc EXCEPT ![t] = call] /\ loc' = [loc EXCEPT ![t] = l]
          /\ UNCHANGED <<req, issued>>
          /\ ControlOK(call, req[t], l) /\ FoundOK(records, removed, call, l)
      BY <1>3 DEF Goes, Goto
    <2>2. FoundOK(records', removed', call, l)
      BY <2>1, FoundStays
    <2>3. ASSUME NEW s \in Threads
          PROVE  /\ ControlOK(pc'[s], req'[s], loc'[s])
                 /\ FoundOK(records', removed', pc'[s], loc'[s])
      <3>1. CASE s = t
        <4>1. pc'[s] = call /\ req'[s] = req[t] /\ loc'[s] = l
          BY <2>1, <3>1 DEF TypeInv, TypeOK
        <4>2. QED
          BY <2>1, <2>2, <4>1
      <3>2. CASE s # t
        BY <1>1, <2>1, <3>2 DEF TypeInv, TypeOK
      <3>3. QED
        BY <3>1, <3>2
    <2>4. QED
      BY <1>2, <2>1, <2>3 DEF LedgerInv
  <1>4. ASSUME NEW kind, NEW n, Return(t, kind, n), kind = "ok" => Answered(t, n)
        PROVE  LedgerInv'
    <2>1. /\ pc' = [pc EXCEPT ![t] = "idle"] /\ req' = [req EXCEPT ![t] = NoRequest]
          /\ loc' = [loc EXCEPT ![t] = NoLocals]
          /\ \A p \in issued' : \/ p \in issued
                                \/ /\ p = <<loc[t].user, n>> /\ kind = "ok"
                                   /\ req[t].op \in {"construct", "mapping"}
      BY <1>4 DEF Return
    <2>2. ASSUME NEW s \in Threads
          PROVE  /\ ControlOK(pc'[s], req'[s], loc'[s])
                 /\ FoundOK(records', removed', pc'[s], loc'[s])
      <3>1. CASE s = t
        <4>1. pc'[s] = "idle"
          BY <2>1, <3>1 DEF TypeInv, TypeOK
        <4>2. QED
          BY <4>1 DEF ControlOK, FoundOK
      <3>2. CASE s # t
        BY <1>1, <2>1, <3>2 DEF TypeInv, TypeOK
      <3>3. QED
        BY <3>1, <3>2
    <2>3. ASSUME Trusted, NEW p \in issued', p \notin issued
          PROVE  p[2].format = Transient \/ Kept(records', removed', p[1], p[2].value)
      <3>1. p[1] = loc[t].user /\ p[2] = n
        BY <2>1, <2>3
      <3>2. n.format = Transient \/ Kept(records, removed, loc[t].user, n.value)
                                 \/ Kept(records', removed', loc[t].user, n.value)
        BY <1>4, <2>1, <2>3 DEF Answered
      <3>3. QED
        BY <3>1, <3>2, KeptStays
    <2>4. QED
      BY <1>2, <2>2, <2>3 DEF LedgerInv
  <1>5. QED
    BY <1>3, <1>4 DEF Moved, Fail

LEMMA LedgerStep == TypeInv /\ StoreUnique /\ LedgerInv /\ [Next]_vars => LedgerInv'
  <1> SUFFICES ASSUME TypeInv, StoreUnique, LedgerInv, [Next]_vars PROVE LedgerInv'
    OBVIOUS
  <1>1. ASSUME UNCHANGED <<pc, req, loc, issued>> PROVE LedgerInv'
    BY <1>1, KeptStays, FoundStays DEF LedgerInv
  <1>2. ASSUME NEW t \in Threads, StartConstruct(t) \/ StartMapping(t) \/ StartManage(t)
        PROVE  LedgerInv'
    <2>1. /\ \A s \in Threads \ {t} : pc'[s] = pc[s] /\ req'[s] = req[s] /\ loc'[s] = loc[s]
          /\ ControlOK(pc'[t], req'[t], loc'[t]) /\ pc'[t] # "verifyFound"
          /\ UNCHANGED <<records, issued, removed>>
      BY <1>2, StartsOK
    <2>2. FoundOK(records', removed', pc'[t], loc'[t])
      BY <2>1 DEF FoundOK
    <2>3. QED
      BY <2>1, <2>2 DEF LedgerInv
  <1>3. ASSUME NEW t \in Threads, Step(t) PROVE LedgerInv'
    BY <1>3, StepMoves, MovedKeepsLedger
  <1>4. ASSUME NEW t \in Threads, StoreOutage(t) PROVE LedgerInv'
    <2>1. Moved(t)
      BY <1>4, Failing DEF StoreOutage, Outcomes
    <2>2. QED
      BY <2>1, MovedKeepsLedger
  <1>5. QED
    BY <1>1, <1>2, <1>3, <1>4 DEF Next, vars, RefuseNoFormat, StoreNameId, RemoveRemote, RemoveLocal

LEMMA LedgerHolds == Spec => [](TypeInv /\ StoreUnique /\ LedgerInv)
  <1>1. Init => LedgerInv
    BY DEF Init, LedgerInv, ControlOK, FoundOK
  <1>2. QED
    BY <1>1, InitTyped, StepKeepsTypes, LedgerStep, StoreStaysUnique, PTL DEF Spec

\* No two users are ever known by the same durable NameID: not when requests race,
\* when NameIDs are removed, when the application stores NameIDs of its own, when
\* a value is drawn again or an SP presents a NameID altered, nor, if the database
\* verifies its answers, when the store answers with foreign records.
THEOREM AccountsStayBound == ASSUME Trusted PROVE Spec => []AccountBinding
  <1>1. TypeInv /\ StoreUnique /\ LedgerInv => AccountBinding
    <2> SUFFICES ASSUME StoreUnique, LedgerInv,
                        NEW p \in issued, NEW q \in issued, p[2].value = q[2].value,
                        p[2].value \notin removed, p[2].format # Transient, q[2].format # Transient
                 PROVE  p[1] = q[1]
      BY DEF AccountBinding
    <2>1. PICK r \in records : r.user = p[1] /\ r.nid.value = p[2].value
      BY DEF LedgerInv, Kept
    <2>2. PICK s \in records : s.user = q[1] /\ s.nid.value = q[2].value
      BY DEF LedgerInv, Kept
    <2>3. QED
      BY <2>1, <2>2 DEF StoreUnique
  <1>2. QED
    BY <1>1, LedgerHolds, PTL

-----------------------------------------------------------------------------
(* What the names mean.  Where values are drawn once and come back as they    *)
(* were issued, a value stands for one format and one slot everywhere, now     *)
(* and ever, and a candidate is nobody's name yet.                           *)

Twin(n, m) == n.value = m.value /\ n.format = m.format /\ n.spq = m.spq /\ n.nq = m.nq

\* SPs present NameIDs as they were issued, the application stores none of its
\* own, and no value is drawn twice, nor one handed out that is not recorded.
Distinct == FaithfulPeers /\ ~Redraw /\ PersistTransient /\ "store" \notin Ops

At(t) == Held(records, issued, loc[t])

\* The candidate of t is known nowhere else.
Unheard(t) ==
  /\ \A n \in Held(records, issued, [loc[t] EXCEPT !.nid = NoName]) : n.value # loc[t].nid.value
  /\ \A s \in Threads \ {t} : \A n \in At(s) : n.value # loc[t].nid.value

NamesInv ==
  /\ \A s, t \in Threads : \A n \in At(s), m \in At(t) : n.value = m.value => Twin(n, m)
  /\ \A t \in Threads : pc[t] = "insert" => Unheard(t)
  /\ \A t \in Threads : \A n \in loc[t].batch :
       n.value \in removed \/ \E r \in records : r.nid.value = n.value
  /\ \A t \in Threads : req[t].name # NoName => \E p \in issued : p[2] = req[t].name

\* All that a step of t leaves at hand was at hand to t, but for SPProvidedIDs.
Inherits(t) ==
  /\ \A s \in Threads \ {t} : pc'[s] = pc[s] /\ loc'[s] = loc[s]
  /\ \A n \in Held(records', issued', loc'[t]) : \E m \in At(t) : Twin(n, m)

LEMMA ElsewhereInherits ==
  ASSUME NEW t \in Threads, Inherits(t), NEW s \in Threads \ {t},
         NEW n \in Held(records', issued', loc'[s])
  PROVE  n \in At(s) \/ \E m \in At(t) : Twin(n, m)
  <1>1. loc'[s] = loc[s]
    BY DEF Inherits
  <1>2. CASE n \in {r.nid : r \in records'} \union {p[2] : p \in issued'}
    BY <1>2 DEF Inherits, Held
  <1>3. CASE n \in ({loc[s].nid} \ {NoName}) \union loc[s].batch
    BY <1>3 DEF At, Held
  <1>4. QED
    BY <1>1, <1>2, <1>3 DEF Held

\* The locals but for the record at hand.
LEMMA BesideCandidate ==
  ASSUME NEW l \in Locals, NEW rs, NEW is, NEW n
  PROVE  /\ n \in Held(rs, is, [l EXCEPT !.nid = NoName]) <=>
              n \in {r.nid : r \in rs} \union {p[2] : p \in is} \union l.batch
         /\ Held(rs, is, [l EXCEPT !.nid = NoName]) \subseteq Held(rs, is, l)
  BY DEF Held, Locals

LEMMA InheritedKeepsNames ==
  ASSUME TypeInv, TypeInv', NamesInv, NEW t \in Threads, Inherits(t), pc'[t] # "insert"
  PROVE  /\ \A s, q \in Threads : \A n \in At(s)', m \in At(q)' : n.value = m.value => Twin(n, m)
         /\ \A s \in Threads : pc'[s] = "insert" => Unheard(s)'
  <1>1. ASSUME NEW s \in Threads, NEW n \in At(s)'
        PROVE  \E q \in Threads : \E m \in At(q) : Twin(n, m)
    <2>1. Twin(n, n)
      BY DEF Twin
    <2>2. n \in Held(records', issued', loc'[s])
      BY DEF At
    <2>3. CASE s = t
      BY <2>2, <2>3 DEF Inherits
    <2>4. CASE s # t
      BY <2>1, <2>2, <2>4, ElsewhereInherits
    <2>5. QED
      BY <2>3, <2>4
  <1>2. ASSUME NEW s \in Threads, NEW q \in Threads, NEW n \in At(s)', NEW m \in At(q)',
               n.value = m.value
        PROVE  Twin(n, m)
    <2>1. PICK n0 : (\E a \in Threads : n0 \in At(a)) /\ Twin(n, n0)
      BY <1>1
    <2>2. PICK m0 : (\E a \in Threads : m0 \in At(a)) /\ Twin(m, m0)
      BY <1>1
    <2>3. n0.value = m0.value
      BY <1>2, <2>1, <2>2 DEF Twin
    <2>4. Twin(n0, m0)
      BY <2>1, <2>2, <2>3 DEF NamesInv
    <2>5. QED
      BY <2>1, <2>2, <2>4 DEF Twin
  <1>3. ASSUME NEW s \in Threads, pc'[s] = "insert" PROVE Unheard(s)'
    <2> DEFINE c == loc[s].nid.value
    <2>1. s # t /\ pc[s] = "insert" /\ loc'[s] = loc[s] /\ Unheard(s)
      BY <1>3 DEF Inherits, NamesInv
    <2>2. loc[s] \in Locals
      BY DEF TypeInv, TypeOK
    <2>3. \A m \in At(t) : m.value # c
      BY <2>1 DEF Unheard
    <2>4. \A n \in Held(records', issued', loc'[t]) : n.value # c
      BY <2>3 DEF Inherits, Twin
    <2>5. ASSUME NEW n \in Held(records', issued', [loc[s] EXCEPT !.nid = NoName])
          PROVE  n.value # c
      <3>1. CASE n \in {r.nid : r \in records'} \union {p[2] : p \in issued'}
        BY <2>4, <3>1 DEF Held
      <3>2. CASE n \in loc[s].batch
        BY <2>1, <2>2, <3>2, BesideCandidate DEF Unheard
      <3>3. QED
        BY <2>2, <2>5, <3>1, <3>2, BesideCandidate
    <2>6. ASSUME NEW q \in Threads \ {s}, NEW n \in Held(records', issued', loc'[q])
          PROVE  n.value # c
      <3>1. CASE q = t
        BY <2>4, <2>6, <3>1
      <3>2. CASE q # t
        <4>1. n \in At(q) \/ \E m \in At(t) : Twin(n, m)
          BY <2>6, <3>2, ElsewhereInherits
        <4>2. QED
          BY <2>1, <2>3, <4>1 DEF Unheard, Twin
      <3>3. QED
        BY <3>1, <3>2
    <2>7. QED
      BY <2>1, <2>5, <2>6 DEF Unheard, At
  <1>4. QED
    BY <1>2, <1>3

\* What a step of a request writes was at hand to it.
LEMMA WrittenWasHeld ==
  ASSUME TypeInv, NamesInv, NEW t \in Threads, Step(t), NEW r \in records'
  PROVE  \E m \in At(t) : Twin(r.nid, m)
  <1>1. \A n : Twin(n, n)
    BY DEF Twin
  <1>2. CASE r \in records
    BY <1>1, <1>2 DEF At, Held
  <1>3. CASE pc[t] = "insert" /\ records' = Insert(records, loc[t].user, loc[t].nid)
    <2>1. loc[t].nid \in At(t)
      BY <1>3, IdentDbAssumption DEF TypeInv, ThreadOK, At, Held
    <2>2. QED
      BY <1>1, <1>2, <1>3, <2>1 DEF Insert
  <1>4. CASE ReplaceRecord(t)
    <2> DEFINE n == [req[t].name EXCEPT !.spid = req[t].spid]
    <2>1. req[t].name \in NameId /\ req[t].name # NoName
      BY <1>4, IdentDbAssumption DEF ReplaceRecord, TypeInv, ThreadOK
    <2>2. req[t].name \in At(t)
      BY <2>1 DEF NamesInv, At, Held
    <2>3. Twin(n, req[t].name)
      BY <2>1 DEF NameId, Twin
    <2> HIDE DEF n
    <2>4. r \in records \/ r.nid = n
      BY <1>4 DEF ReplaceRecord, Replace, n
    <2>5. QED
      BY <1>2, <2>2, <2>3, <2>4
  <1>5. CASE RemoveRecord(t)
    BY <1>2, <1>5 DEF RemoveRecord, Remove
  <1>6. CASE GetOrInsertDurable(t)
    BY <1>2, <1>3, <1>6 DEF GetOrInsertDurable
  <1>7. CASE InsertTransient(t)
    BY <1>2, <1>3, <1>7 DEF InsertTransient
  <1>8. QED
    BY <1>2, <1>4, <1>5, <1>6, <1>7 DEF Step, FindSlot, VerifyRecord, CreateId, LocalUser,
       ConfirmLocalUser, Search, VerifyFound


\* A value that is drawn, and not taken, is nobody's.
LEMMA MintedIsNew ==
  ASSUME TypeInv, NamesInv, Distinct, NEW t \in Threads, NEW v \in Drawable,
         UserFor(records, v) = {}, NEW s \in Threads, NEW n \in At(s)
  PROVE  n.value # v
  <1>1. \A r \in records : r.nid.value # v
    BY DEF UserFor
  <1>2. v \notin Live
    BY <1>1 DEF Live
  <1>3. v \notin removed /\ v \notin InFlight /\ v \notin IssuedValues
    BY <1>2 DEF Drawable, Distinct
  <1>4. CASE n \in {r.nid : r \in records}
    BY <1>1, <1>4
  <1>5. CASE n \in {p[2] : p \in issued}
    BY <1>3, <1>5 DEF IssuedValues
  <1>6. CASE n = loc[s].nid /\ n # NoName
    BY <1>3, <1>6 DEF InFlight
  <1>7. CASE n \in loc[s].batch
    BY <1>1, <1>3, <1>7 DEF NamesInv
  <1>8. QED
    BY <1>4, <1>5, <1>6, <1>7 DEF At, Held

LEMMA MintKeepsNames ==
  ASSUME TypeInv, TypeInv', NamesInv, Distinct, NEW t \in Threads, NEW l \in Locals,
         Goes(t, "insert", l)
  PROVE  /\ \A s, q \in Threads : \A n \in At(s)', m \in At(q)' : n.value = m.value => Twin(n, m)
         /\ \A s \in Threads : pc'[s] = "insert" => Unheard(s)'
  <1> DEFINE c == l.nid.value
  <1>1. /\ c \in Drawable /\ UserFor(records, c) = {} /\ UNCHANGED <<records, issued>>
        /\ l.batch \subseteq loc[t].batch \union {r.nid : r \in records}
    BY DEF Goes, Minted, Goto
  <1>2. /\ pc'[t] = "insert" /\ loc'[t] = l
        /\ \A s \in Threads \ {t} : pc'[s] = pc[s] /\ loc'[s] = loc[s]
    BY DEF Goes, Goto, TypeInv, TypeOK
  <1>3. \A s \in Threads : \A n \in At(s) : n.value # c
    BY <1>1, MintedIsNew
  <1>4. ASSUME NEW s \in Threads \ {t}, NEW n \in At(s)' PROVE n \in At(s)
    BY <1>1, <1>2, <1>4 DEF At, Held
  <1>5. ASSUME NEW n \in At(t)' PROVE n \in At(t) \/ n = l.nid
    BY <1>1, <1>2, <1>5 DEF At, Held
  <1>6. ASSUME NEW s \in Threads, NEW q \in Threads, NEW n \in At(s)', NEW m \in At(q)',
               n.value = m.value
        PROVE  Twin(n, m)
    <2>1. n \in At(s) \/ n = l.nid
      BY <1>4, <1>5, <1>6
    <2>2. m \in At(q) \/ m = l.nid
      BY <1>4, <1>5, <1>6
    <2>3. CASE n \in At(s) /\ m \in At(q)
      BY <1>6, <2>3 DEF NamesInv
    <2>4. CASE n = l.nid /\ m = l.nid
      BY <2>4 DEF Twin
    <2>5. QED
      BY <1>3, <1>6, <2>1, <2>2, <2>3, <2>4
  <1>7. Unheard(t)'
    <2>1. \A s \in Threads \ {t} : \A n \in At(s)' : n.value # c
      BY <1>3, <1>4
    <2>2. ASSUME NEW n \in Held(records, issued, [l EXCEPT !.nid = NoName]) PROVE n.value # c
      <3>1. n \in {r.nid : r \in records} \union {p[2] : p \in issued} \union l.batch
        BY <2>2, BesideCandidate
      <3>2. n \in At(t)
        BY <1>1, <3>1 DEF At, Held
      <3>3. QED
        BY <1>3, <3>2
    <2>3. QED
      BY <1>1, <1>2, <2>1, <2>2 DEF Unheard
  <1>8. ASSUME NEW s \in Threads \ {t}, pc'[s] = "insert" PROVE Unheard(s)'
    <2>1. pc[s] = "insert" /\ loc'[s] = loc[s] /\ Unheard(s)
      BY <1>2, <1>8 DEF NamesInv
    <2>2. loc[s].nid \in At(s)
      BY <2>1, IdentDbAssumption DEF TypeInv, ThreadOK, At, Held
    <2>3. ASSUME NEW q \in Threads \ {s}, NEW n \in At(q)' PROVE n.value # loc[s].nid.value
      <3>1. n \in At(q) \/ n = l.nid
        BY <1>4, <1>5, <2>3
      <3>2. QED
        BY <1>3, <2>1, <2>2, <3>1 DEF Unheard
    <2>4. QED
      BY <1>1, <2>1, <2>3 DEF Unheard
  <1>9. QED
    BY <1>6, <1>7, <1>8, <1>2

LEMMA MovedKeepsNames ==
  ASSUME TypeInv, TypeInv', NamesInv, Distinct, [Next]_vars, NEW t \in Threads, Moved(t),
         \A r \in records' : \E m \in At(t) : Twin(r.nid, m)
  PROVE  NamesInv'
  <1>1. \A n : Twin(n, n)
    BY DEF Twin
  <1>2. ASSUME NEW v, v \in removed \/ \E r \in records : r.nid.value = v
        PROVE  v \in removed' \/ \E r \in records' : r.nid.value = v
    BY <1>2, RemovalsAreNoted
  <1>3. ASSUME NEW call \in Calls, NEW l \in Locals, Goes(t, call, l) PROVE NamesInv'
    <2>1. /\ UNCHANGED <<req, issued>> /\ pc'[t] = call /\ loc'[t] = l
          /\ \A s \in Threads \ {t} : pc'[s] = pc[s] /\ loc'[s] = loc[s]
          /\ l.batch \subseteq loc[t].batch \union {r.nid : r \in records}
      BY <1>3 DEF Goes, Goto, TypeInv, TypeOK
    <2>2. \A s \in Threads : \A n \in loc'[s].batch :
            n.value \in removed' \/ \E r \in records' : r.nid.value = n.value
      <3>1. ASSUME NEW s \in Threads, NEW n \in loc'[s].batch
            PROVE  n.value \in removed \/ \E r \in records : r.nid.value = n.value
        BY <2>1, <3>1 DEF NamesInv
      <3>2. QED
        BY <1>2, <3>1
    <2>3. CASE call = "insert"
      BY <1>3, <2>1, <2>2, <2>3, MintKeepsNames DEF NamesInv
    <2>4. CASE call # "insert"
      <3>1. l.nid \in At(t) \union {NoName}
        BY <1>3, <2>4 DEF Goes, At
      <3>2. l.batch \subseteq At(t)
        BY <2>1 DEF At, Held
      <3>3. {p[2] : p \in issued'} \subseteq At(t)
        BY <2>1 DEF At, Held
      <3>4. \A n \in Held(records', issued', loc'[t]) : \E m \in At(t) : Twin(n, m)
        BY <1>1, <2>1, <3>1, <3>2, <3>3 DEF Held
      <3>5. Inherits(t)
        BY <2>1, <3>4 DEF Inherits
      <3>6. QED
        BY <2>1, <2>2, <2>4, <3>5, InheritedKeepsNames DEF NamesInv
    <2>5. QED
      BY <2>3, <2>4
  <1>4. ASSUME NEW kind, NEW n, Return(t, kind, n), kind = "ok" => Answered(t, n)
        PROVE  NamesInv'
    <2>1. /\ pc'[t] = "idle" /\ req'[t] = NoRequest /\ loc'[t] = NoLocals
          /\ \A s \in Threads \ {t} : pc'[s] = pc[s] /\ loc'[s] = loc[s] /\ req'[s] = req[s]
          /\ issued \subseteq issued'
          /\ \A p \in issued' : \/ p \in issued
                                \/ /\ p = <<loc[t].user, n>> /\ kind = "ok"
                                   /\ req[t].op \in {"construct", "mapping"}
      BY <1>4 DEF Return, TypeInv, TypeOK
    <2>2. NoLocals.nid = NoName /\ NoLocals.batch = {} /\ NoRequest.name = NoName
      BY DEF NoLocals, NoRequest
    <2>3. \A s \in Threads : \A m \in loc'[s].batch :
            m.value \in removed' \/ \E r \in records' : r.nid.value = m.value
      BY <1>2, <2>1, <2>2 DEF NamesInv
    <2>4. \A p \in issued' : p[2] \in At(t)
      <3>1. \A p \in issued : p[2] \in At(t)
        BY DEF At, Held
      <3>2. ASSUME NEW p \in issued', p \notin issued PROVE p[2] \in At(t)
        <4>1. p[2] = n /\ n \in Held(records, issued, loc[t])
          BY <1>4, <2>1, <3>2 DEF Answered, Distinct
        <4>2. QED
          BY <4>1 DEF At
      <3>3. QED
        BY <3>1, <3>2
    <2>5. \A m \in Held(records', issued', loc'[t]) : \E k \in At(t) : Twin(m, k)
      BY <1>1, <2>1, <2>2, <2>4 DEF Held
    <2>6. Inherits(t)
      BY <2>1, <2>5 DEF Inherits
    <2>7. \A s \in Threads : req'[s].name # NoName => \E p \in issued' : p[2] = req'[s].name
      BY <2>1, <2>2 DEF NamesInv
    <2>8. QED
      BY <2>1, <2>3, <2>6, <2>7, InheritedKeepsNames DEF NamesInv
  <1>5. QED
    BY <1>3, <1>4 DEF Moved, Fail

LEMMA NamesStep ==
  ASSUME TypeInv, TypeInv', LedgerInv, NamesInv, Distinct, [Next]_vars
  PROVE  NamesInv'
  <1>1. \A n : Twin(n, n)
    BY DEF Twin
  <1>2. \A v : (v \in removed \/ \E r \in records : r.nid.value = v)
               => (v \in removed' \/ \E r \in records' : r.nid.value = v)
    BY RemovalsAreNoted
  <1>3. ASSUME UNCHANGED <<pc, req, loc, issued>>, records' \subseteq records PROVE NamesInv'
    <2>1. \A l : Held(records', issued', l) \subseteq Held(records, issued, l)
      BY <1>3 DEF Held
    <2>2. \A t \in Threads : At(t)' \subseteq At(t)
      BY <1>3, <2>1 DEF At
    <2>3. \A t \in Threads : Unheard(t) => Unheard(t)'
      BY <1>3, <2>1, <2>2 DEF Unheard
    <2>4. QED
      BY <1>2, <1>3, <2>2, <2>3 DEF NamesInv
  <1>4. ASSUME NEW t \in Threads, StartConstruct(t) \/ StartMapping(t) \/ StartManage(t)
        PROVE  NamesInv'
    <2>1. /\ \A s \in Threads \ {t} : pc'[s] = pc[s] /\ req'[s] = req[s] /\ loc'[s] = loc[s]
          /\ pc'[t] # "insert" /\ loc'[t].nid = NoName /\ loc'[t].batch = {}
          /\ req'[t].name # NoName => req'[t].name \in Presentable
          /\ UNCHANGED <<records, issued, removed>>
      BY <1>4, StartsOK
    <2>2. req'[t].name # NoName => \E p \in issued : p[2] = req'[t].name
      BY <2>1 DEF Presentable, Distinct
    <2>3. Held(records', issued', loc'[t]) \subseteq At(t)
      BY <2>1 DEF At, Held
    <2>4. Inherits(t)
      BY <1>1, <2>1, <2>3 DEF Inherits
    <2>5. QED
      BY <2>1, <2>2, <2>4, InheritedKeepsNames DEF NamesInv
  <1>5. ASSUME NEW t \in Threads, Step(t) PROVE NamesInv'
    BY <1>5, StepMoves, WrittenWasHeld, MovedKeepsNames
  <1>6. ASSUME NEW t \in Threads, StoreOutage(t) PROVE NamesInv'
    <2>1. Moved(t)
      BY <1>6, Failing DEF StoreOutage, Outcomes
    <2>2. \A r \in records' : r.nid \in At(t)
      BY <1>6 DEF StoreOutage, At, Held
    <2>3. QED
      BY <1>1, <2>1, <2>2, MovedKeepsNames
  <1>7. CASE UNCHANGED vars \/ \E t \in Threads : RefuseNoFormat(t)
    BY <1>3, <1>7 DEF vars, RefuseNoFormat
  <1>8. ASSUME NEW v \in Values, RemoveRemote(v) PROVE NamesInv'
    BY <1>3, <1>8 DEF RemoveRemote, Remove
  <1>9. ASSUME NEW u \in Users, RemoveLocal(u) PROVE NamesInv'
    BY <1>3, <1>9 DEF RemoveLocal, RemoveAll
  <1>10. \A u \in Users, n \in AppNameIds : ~StoreNameId(u, n)
    BY DEF StoreNameId, Distinct
  <1>11. QED
    BY <1>4, <1>5, <1>6, <1>7, <1>8, <1>9, <1>10 DEF Next

DatabaseInv == TypeInv /\ StoreUnique /\ LedgerInv /\ NamesInv

LEMMA NamesHold == ASSUME Distinct PROVE Spec => []DatabaseInv
  <1>1. Init => NamesInv
    BY DEF Init, NamesInv, NoLocals, NoRequest, At, Held
  <1>2. TypeInv /\ TypeInv' /\ LedgerInv /\ NamesInv /\ [Next]_vars => NamesInv'
    BY NamesStep
  <1>3. QED
    BY <1>1, <1>2, LedgerHolds, PTL DEF Spec, DatabaseInv


\* What a user keeps in a state where names have their meaning.
LEMMA RecordedAsIssued ==
  ASSUME Trusted, Threads # {}, DatabaseInv,
         NEW p \in issued, p[2].format # Transient, p[2].value \notin removed
  PROVE  \E r \in records : r.user = p[1] /\ r.nid.value = p[2].value /\ Twin(r.nid, p[2])
  <1>1. PICK r \in records : r.user = p[1] /\ r.nid.value = p[2].value
    BY DEF DatabaseInv, LedgerInv, Kept
  <1>2. ASSUME NEW t \in Threads PROVE Twin(r.nid, p[2])
    <2>1. r.nid \in At(t) /\ p[2] \in At(t)
      BY DEF At, Held
    <2>2. QED
      BY <1>1, <2>1 DEF DatabaseInv, NamesInv
  <1>3. QED
    BY <1>1, <1>2

\* A durable NameID handed to an SP stays recorded for its user and its slot, and
\* is the only one they have, until it is removed: whatever requests race, retry
\* or fail half-way.
THEOREM IssuesAreRecorded ==
  ASSUME Trusted, Distinct, Threads # {} PROVE Spec => []IssuedIsRecorded
  <1>1. DatabaseInv => IssuedIsRecorded
    <2> SUFFICES ASSUME DatabaseInv PROVE IssuedIsRecorded
      OBVIOUS
    <2>1. ASSUME NEW p \in issued, p[2].format # Transient, p[2].value \notin removed
          PROVE  \E r \in records : /\ r.user = p[1] /\ r.nid.value = p[2].value
                                    /\ Twin(r.nid, p[2]) /\ SameSlot(r.nid, p[2])
      BY <2>1, RecordedAsIssued DEF Twin, SameSlot, DurableMatch
    <2>2. ASSUME NEW p \in issued, NEW q \in issued, p[1] = q[1], SameSlot(p[2], q[2]),
                 p[2].value \notin removed, q[2].value \notin removed
          PROVE  p[2].value = q[2].value
      <3>1. p[2].format # Transient /\ q[2].format # Transient
        BY <2>2 DEF SameSlot, DurableMatch
      <3>2. PICK r \in records : r.user = p[1] /\ r.nid.value = p[2].value /\ Twin(r.nid, p[2])
        BY <2>1, <2>2, <3>1
      <3>3. PICK s \in records : s.user = q[1] /\ s.nid.value = q[2].value /\ Twin(s.nid, q[2])
        BY <2>1, <2>2, <3>1
      <3>4. SameSlot(r.nid, s.nid)
        BY <2>2, <3>2, <3>3 DEF Twin, SameSlot, DurableMatch
      <3>5. QED
        BY <2>2, <3>2, <3>3, <3>4 DEF DatabaseInv, StoreUnique
    <2>3. QED
      BY <2>1, <2>2 DEF IssuedIsRecorded
  <1>2. QED
    BY <1>1, NamesHold, PTL

\* A request is honoured to its end: what forbids creation never mints, and a
\* transient NameID was never handed out before.
THEOREM RequestsAreHonoured == ASSUME Trusted, Distinct PROVE Spec => RequestHonoured
  <1> DEFINE Asked == \A t \in Threads :
                        /\ pc'[t] \in {"find", "mint", "insert"}
                        /\ req'[t].op = "mapping" \/ req'[t].format \in {Persistent, NoName}
                        => req'[t].allow
             New == \A t \in Threads :
                      /\ req[t].op \in {"construct", "mapping"}
                      /\ outcome'[t] # outcome[t] /\ outcome'[t].kind = "ok"
                      /\ outcome'[t].nid.format = Transient
                      => outcome'[t].nid.value \notin IssuedValues
  <1>1. DatabaseInv' => Asked
    BY DEF DatabaseInv, LedgerInv, ControlOK
  <1>2. DatabaseInv /\ [Next]_vars => New
    <2> SUFFICES ASSUME DatabaseInv, [Next]_vars, NEW t \in Threads,
                        req[t].op \in {"construct", "mapping"},
                        outcome'[t] # outcome[t], outcome'[t].kind = "ok",
                        outcome'[t].nid.format = Transient
                 PROVE  outcome'[t].nid.value \notin IssuedValues
      OBVIOUS
    <2>1. ASSUME NEW n \in NameId, Return(t, "ok", n), Answered(t, n)
          PROVE  outcome'[t].nid.value \notin IssuedValues
      <3>1. outcome'[t].nid = n
        BY <2>1 DEF Return, DatabaseInv, TypeInv, TypeOK
      <3>2. pc[t] = "insert" /\ n = loc[t].nid
        BY <2>1, <3>1 DEF Answered, Distinct
      <3>3. loc[t] \in Locals /\ Unheard(t)
        BY <3>2 DEF DatabaseInv, TypeInv, TypeOK, NamesInv
      <3>4. \A p \in issued : p[2] \in Held(records, issued, [loc[t] EXCEPT !.nid = NoName])
        BY DEF Held
      <3>5. QED
        BY <3>1, <3>2, <3>3, <3>4 DEF Unheard, IssuedValues
    <2>2. ASSUME NEW s \in Threads, Moved(s) PROVE s = t /\ \E n \in NameId : Return(t, "ok", n) /\ Answered(t, n)
      <3>1. ASSUME NEW call, NEW l, Goto(s, call, l) PROVE FALSE
        BY <3>1 DEF Goto
      <3>2. ASSUME NEW kind, NEW n, Return(s, kind, n) PROVE s = t /\ kind = "ok"
        BY <3>2 DEF Return, DatabaseInv, TypeInv, TypeOK
      <3>3. QED
        BY <2>2, <3>1, <3>2 DEF Moved, Goes, Fail
    <2>3. ASSUME NEW s \in Threads, Step(s) PROVE outcome'[t].nid.value \notin IssuedValues
      BY <2>1, <2>2, <2>3, StepMoves DEF DatabaseInv
    <2>4. ASSUME NEW s \in Threads, StoreOutage(s)
          PROVE  outcome'[t].nid.value \notin IssuedValues
      <3>1. Fail(s, "StoreError")
        BY <2>4 DEF StoreOutage
      <3>2. QED
        BY <2>1, <2>2, <3>1, Failing DEF Outcomes
    <2>5. ASSUME NEW s \in Threads, NEW q, NEW call, NEW u, Start(s, q, call, u) PROVE FALSE
      <3>1. outcome' = [outcome EXCEPT ![s] = NoOutcome] /\ NoOutcome.kind = "none"
        BY <2>5 DEF Start, NoOutcome
      <3>2. QED
        BY <3>1 DEF DatabaseInv, TypeInv, TypeOK
    <2>6. ASSUME NEW s \in Threads, RefuseNoFormat(s) PROVE FALSE
      <3>1. /\ outcome' = [outcome EXCEPT ![s] = [NoOutcome EXCEPT !.kind = "NoFormat"]]
            /\ [NoOutcome EXCEPT !.kind = "NoFormat"].kind = "NoFormat"
        BY <2>6 DEF RefuseNoFormat, NoOutcome
      <3>2. QED
        BY <3>1 DEF DatabaseInv, TypeInv, TypeOK
    <2>7. ASSUME NEW s \in Threads, StartConstruct(s) \/ StartMapping(s) \/ StartManage(s) PROVE FALSE
      BY <2>5, <2>7 DEF StartConstruct, StartMapping, StartManage
    <2>8. outcome' # outcome
      OBVIOUS
    <2>9. QED
      BY <2>3, <2>4, <2>6, <2>7, <2>8 DEF Next, vars, StoreNameId, RemoveRemote, RemoveLocal
  <1>3. DatabaseInv /\ DatabaseInv' /\ [Next]_vars
          => [\A t \in Threads :
                /\ /\ pc'[t] \in {"find", "mint", "insert"}
                   /\ req'[t].op = "mapping" \/ req'[t].format \in {Persistent, NoName}
                   => req'[t].allow
                /\ /\ req[t].op \in {"construct", "mapping"}
                   /\ outcome'[t] # outcome[t] /\ outcome'[t].kind = "ok"
                   /\ outcome'[t].nid.format = Transient
                   => outcome'[t].nid.value \notin IssuedValues]_vars
    BY <1>1, <1>2
  <1>4. QED
    BY <1>3, NamesHold, PTL DEF Spec, RequestHonoured

-----------------------------------------------------------------------------
(* The abstract registry: each step of the database is one of its operations, *)
(* or none.                                                                  *)

\* The record with the value that is replaced is the same but for its
\* SPProvidedID, so replacing is registering or annotating.
LEMMA ReplaceRefines ==
  ASSUME DatabaseInv, NEW t \in Threads, ReplaceRecord(t)
  PROVE  Registry!RegistryNext \/ UNCHANGED records
  <1> DEFINE u == loc[t].user
             n == [req[t].name EXCEPT !.spid = req[t].spid]
             new == [user |-> u, nid |-> n]
  <1>1. /\ req[t].name \in NameId /\ req[t].name # NoName /\ req[t].spid \in SpIds /\ u \in Users
    BY IdentDbAssumption DEF ReplaceRecord, DatabaseInv, TypeInv, TypeOK, ThreadOK, Request
  <1>2. n \in NameId /\ Twin(n, req[t].name) /\ n.spid = req[t].spid
    BY <1>1 DEF NameId, Twin
  <1>3. \A r \in records : r.nid.value = n.value => Twin(r.nid, n)
    <2>1. \A r \in records : r.nid \in At(t)
      BY DEF At, Held
    <2>2. req[t].name \in At(t)
      BY <1>1 DEF DatabaseInv, NamesInv, At, Held
    <2>3. QED
      BY <1>2, <2>1, <2>2 DEF DatabaseInv, NamesInv, Twin
  <1> HIDE DEF n
  <1>4. CASE ReplaceVerdict(records, u, n) = "Ok" /\ records' = Replace(records, u, n)
    <2>1. ~ValueTakenByOther(records, u, n.value) /\ ~DurableTupleTaken(records, u, n)
      BY <1>4 DEF ReplaceVerdict
    <2>2. CASE ValueTaken(records, n.value)
      <3>1. PICK r \in records : r.nid.value = n.value
        BY <2>2 DEF ValueTaken
      <3>2. r.user = u /\ Twin(r.nid, n)
        BY <1>3, <2>1, <3>1 DEF ValueTakenByOther
      <3>3. r \in Record /\ r.nid \in NameId
        BY DEF DatabaseInv, TypeInv, TypeOK, Record
      <3>4. [r EXCEPT !.nid.spid = req[t].spid] = new
        <4>1. [r.nid EXCEPT !.spid = req[t].spid] = n
          BY <1>2, <3>2, <3>3 DEF NameId, Twin
        <4>2. QED
          BY <3>2, <3>3, <4>1 DEF Record
      <3>5. \A s \in records : s.nid.value = n.value <=> s = r
        BY <3>1 DEF DatabaseInv, StoreUnique
      <3>6. records' = (records \ {r}) \union {new}
        BY <1>4, <3>5 DEF Replace
      <3>7. Registry!Annotate(r, req[t].spid)
        BY <3>4, <3>6 DEF Registry!Annotate
      <3>8. QED
        BY <1>1, <3>7 DEF Registry!RegistryNext
    <2>3. CASE ~ValueTaken(records, n.value)
      <3>1. records' = Insert(records, u, n)
        BY <1>4, <2>3 DEF Replace, Insert, ValueTaken
      <3>2. FindDurable(records, u, n.format, n.spq, n.nq) = {}
        BY <2>1, <2>3 DEF FindDurable, ForUser, DurableTupleTaken, ValueTaken, SameSlot
      <3>3. Registry!Register(u, n)
        BY <2>3, <3>1, <3>2 DEF Registry!Register, Registry!ValueTaken, Registry!FindDurable,
           Registry!ForUser, Registry!DurableMatch, Registry!Insert, ValueTaken, FindDurable,
           ForUser, DurableMatch, Insert
      <3>4. QED
        BY <1>1, <1>2, <3>3 DEF Registry!RegistryNext, Registry!NameId, NameId
    <2>4. QED
      BY <2>2, <2>3
  <1>5. QED
    BY <1>4 DEF ReplaceRecord, n

\* An insert registers.
LEMMA InsertRefines ==
  ASSUME DatabaseInv, NEW t \in Threads, pc[t] = "insert",
         ~ValueTaken(records, loc[t].nid.value),
         FindDurable(records, loc[t].user, loc[t].nid.format, loc[t].nid.spq, loc[t].nid.nq) = {},
         records' = Insert(records, loc[t].user, loc[t].nid)
  PROVE  Registry!RegistryNext
  <1>1. loc[t].user \in Users /\ loc[t].nid \in NameId
    BY DEF DatabaseInv, TypeInv, ThreadOK
  <1>2. Registry!Register(loc[t].user, loc[t].nid)
    BY DEF Registry!Register, Registry!ValueTaken, Registry!FindDurable, Registry!ForUser,
       Registry!DurableMatch, Registry!Insert, ValueTaken, FindDurable, ForUser, DurableMatch, Insert
  <1>3. QED
    BY <1>1, <1>2 DEF Registry!RegistryNext, Registry!NameId, NameId

\* Seen from outside, every interleaving of the requests is a sequence of the
\* registry's operations, each at one instant.
THEOREM DatabaseIsARegistry == ASSUME Distinct PROVE Spec => ImplementsRegistry
  <1>1. Init => Registry!RegistryInit
    BY DEF Init, Registry!RegistryInit
  <1>2. DatabaseInv /\ [Next]_vars => [Registry!RegistryNext]_records
    <2> SUFFICES ASSUME DatabaseInv, [Next]_vars
                 PROVE  Registry!RegistryNext \/ UNCHANGED records
      OBVIOUS
    <2>1. ASSUME NEW v \in Values, records' = Remove(records, v) PROVE Registry!RegistryNext
      BY <2>1 DEF Registry!RegistryNext, Registry!Forget, Registry!Remove, Remove
    <2>2. ASSUME NEW t \in Threads, GetOrInsertDurable(t)
          PROVE  Registry!RegistryNext \/ UNCHANGED records
      BY <2>2, InsertRefines DEF GetOrInsertDurable, Existing
    <2>3. ASSUME NEW t \in Threads, InsertTransient(t)
          PROVE  Registry!RegistryNext \/ UNCHANGED records
      <3>1. ASSUME InsertVerdict(records, loc[t].user, loc[t].nid) = "Ok",
                   records' = Insert(records, loc[t].user, loc[t].nid)
            PROVE  Registry!RegistryNext
        <4>1. /\ ~ValueTaken(records, loc[t].nid.value)
              /\ ~DurableTupleTaken(records, loc[t].user, loc[t].nid)
          BY <3>1 DEF InsertVerdict
        <4>2. FindDurable(records, loc[t].user, loc[t].nid.format, loc[t].nid.spq,
                          loc[t].nid.nq) = {}
          BY <4>1 DEF FindDurable, ForUser, DurableTupleTaken, ValueTaken, SameSlot
        <4>3. QED
          BY <2>3, <3>1, <4>1, <4>2, InsertRefines DEF InsertTransient
      <3>2. QED
        BY <2>3, <3>1 DEF InsertTransient
    <2>4. ASSUME NEW t \in Threads, RemoveRecord(t) PROVE Registry!RegistryNext
      <3>1. req[t].name.value \in Values
        BY <2>4 DEF RemoveRecord, DatabaseInv, TypeInv, ThreadOK, NameId
      <3>2. QED
        BY <2>1, <2>4, <3>1 DEF RemoveRecord
    <2>5. ASSUME NEW u \in Users, RemoveLocal(u) PROVE Registry!RegistryNext
      BY <2>5 DEF RemoveLocal, RemoveAll, Registry!RegistryNext, Registry!ForgetUser,
         Registry!RemoveAll
    <2>6. ASSUME NEW t \in Threads, Step(t) PROVE Registry!RegistryNext \/ UNCHANGED records
      BY <2>2, <2>3, <2>4, <2>6, ReplaceRefines DEF Step, FindSlot, VerifyRecord, CreateId,
         LocalUser, ConfirmLocalUser, Search, VerifyFound
    <2>7. \A u \in Users, n \in AppNameIds : ~StoreNameId(u, n)
      BY DEF StoreNameId, Distinct
    <2>8. ASSUME NEW t \in Threads,
                 StartConstruct(t) \/ RefuseNoFormat(t) \/ StartMapping(t) \/ StartManage(t)
                   \/ StoreOutage(t)
          PROVE  UNCHANGED records
      BY <2>8 DEF StartConstruct, RefuseNoFormat, StartMapping, StartManage, StoreOutage, Start
    <2>9. ASSUME NEW v \in Values, RemoveRemote(v) PROVE Registry!RegistryNext
      BY <2>1, <2>9 DEF RemoveRemote
    <2>10. CASE UNCHANGED vars
      BY <2>10 DEF vars
    <2>11. QED
      BY <2>5, <2>6, <2>7, <2>8, <2>9, <2>10 DEF Next
  <1>3. QED
    BY <1>1, <1>2, NamesHold, PTL DEF Spec, ImplementsRegistry, Registry!RegistrySpec
=============================================================================
