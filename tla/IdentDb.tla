------------------------------ MODULE IdentDb ------------------------------
(***************************************************************************)
(* The identity database (crates/gamlastan/src/idp/ident.rs: IdentDb).      *)
(* Requests run concurrently over one shared store; every store call is a   *)
(* separate step, so another request may run between any two calls of one   *)
(* request.  A thread serves one request at a time and takes another when   *)
(* it has returned.                                                         *)
(***************************************************************************)
EXTENDS IdentityStore

CONSTANTS
  Threads,          \* request threads
  SPs,              \* SP names used as SPNameQualifier
  IdpName,          \* the IdP entity ID, the NameQualifier of minted NameIDs
  MaxMintAttempts,  \* MAX_MINT_ATTEMPTS
  PersistTransient, \* with_persist_transient
  VerifyStore,      \* with_store_verification
  FaultyReads,      \* the store's per-user lookups may return foreign records
  Redraw,           \* the generator may draw any value, also one seen before
  FaithfulPeers,    \* SPs present NameIDs exactly as they were issued
  AppNameIds,       \* NameIDs the application passes to store()
  Ops               \* kinds of request the run exercises

ASSUME IdentDbAssumption ==
  /\ SPs \subseteq Qualifiers /\ NoName \notin SPs
  /\ IdpName \in Qualifiers
  /\ AppNameIds \subseteq NameId
  /\ MaxMintAttempts \in Nat \ {0}
  /\ PersistTransient \in BOOLEAN /\ VerifyStore \in BOOLEAN
  /\ FaultyReads \in BOOLEAN /\ Redraw \in BOOLEAN /\ FaithfulPeers \in BOOLEAN
  /\ Ops \subseteq {"construct", "mapping", "newid", "newEncryptedId", "terminate",
                    "store", "removeRemote", "removeLocal"}
  /\ NoName \notin Users /\ NoName \notin Values /\ NoName \notin Formats
  /\ NoName \notin NameId

VARIABLES
  records,  \* the store
  pc,       \* pc[t]: the next store call of t's request, "idle" between requests
  req,      \* req[t]: what t was asked
  loc,      \* loc[t]: the handler's local variables
  outcome,  \* outcome[t]: how t's latest request ended
  issued,   \* history: <<user, NameID>> pairs handed to an SP
  removed   \* history: values that were removed from the store

vars == <<records, pc, req, loc, outcome, issued, removed>>

Calls == {"idle", "match", "find", "verify", "mint", "insert", "localUser",
          "localConfirm", "search", "verifyFound", "replace", "remove"}

NoRequest == [op |-> "none", user |-> NoName, name |-> NoName, format |-> NoName,
              spq |-> NoName, allow |-> TRUE, spid |-> NoName]

Request == [op : {"none", "construct", "mapping", "newid", "newEncryptedId", "terminate"},
            user : Users \union {NoName}, name : NameId \union {NoName},
            format : Formats \union {NoName}, spq : Qualifiers,
            allow : BOOLEAN, spid : SpIds]

\* user: the subject; nid: the record or candidate at hand; batch and todo: the
\* records a search returned and those not verified yet; draws and tries: the
\* attempts made by create_id and by get_nameid.
NoLocals == [user |-> NoName, nid |-> NoName, batch |-> {}, todo |-> {},
             draws |-> 0, tries |-> 0]

Locals == [user : Users \union {NoName}, nid : NameId \union {NoName},
           batch : SUBSET NameId, todo : SUBSET NameId,
           draws : 0..MaxMintAttempts, tries : 0..MaxMintAttempts]

Outcomes == {"none", "ok", "StoreError", "CreateNotAllowed", "UnknownNameId",
             "Unsupported", "NoFormat", "ValueTaken", "DurableExists"}

NoOutcome == [kind |-> "none", user |-> NoName, nid |-> NoName]

TypeOK ==
  /\ records \subseteq Record
  /\ pc \in [Threads -> Calls]
  /\ req \in [Threads -> Request]
  /\ loc \in [Threads -> Locals]
  /\ outcome \in [Threads -> [kind : Outcomes, user : Users \union {NoName},
                              nid : NameId \union {NoName}]]
  /\ issued \subseteq (Users \X NameId)
  /\ removed \subseteq Values

Init ==
  /\ records = {}
  /\ pc = [t \in Threads |-> "idle"]
  /\ req = [t \in Threads |-> NoRequest]
  /\ loc = [t \in Threads |-> NoLocals]
  /\ outcome = [t \in Threads |-> NoOutcome]
  /\ issued = {}
  /\ removed = {}

-----------------------------------------------------------------------------
(* Control shared by the handlers.                                          *)

Goto(t, call, locals) ==
  /\ pc' = [pc EXCEPT ![t] = call]
  /\ loc' = [loc EXCEPT ![t] = locals]
  /\ UNCHANGED <<req, outcome, issued>>

\* The handler returns.  A NameID returned by construct or mapping reaches an
\* SP and becomes part of the history of issued NameIDs.
Return(t, kind, nid) ==
  /\ pc' = [pc EXCEPT ![t] = "idle"]
  /\ req' = [req EXCEPT ![t] = NoRequest]
  /\ loc' = [loc EXCEPT ![t] = NoLocals]
  /\ outcome' = [outcome EXCEPT ![t] = [kind |-> kind, user |-> loc[t].user, nid |-> nid]]
  /\ issued' = IF kind = "ok" /\ req[t].op \in {"construct", "mapping"}
               THEN issued \union {<<loc[t].user, nid>>}
               ELSE issued

Fail(t, kind) == Return(t, kind, NoName)

\* What a per-user lookup of the store may answer.
Answers(correct) == IF FaultyReads THEN records ELSE correct

\* Values create_id may draw: a fresh 256-bit value, or a live one (collision).
Live == {r.nid.value : r \in records}
InFlight == {loc[t].nid.value : t \in {s \in Threads : loc[s].nid # NoName}}
IssuedValues == {p[2].value : p \in issued}
Drawable ==
  IF Redraw THEN Values
  ELSE Live \union (Values \ (removed \union InFlight \union IssuedValues))

\* NameIDs an SP may name in a request.
Presentable ==
  IF FaithfulPeers THEN {p[2] : p \in issued}
  ELSE {[p[2] EXCEPT !.spq = q] : p \in issued, q \in {NoName} \union SPs}

\* The store attributes the record at hand to the user (verify_attributed).
TrustStore(u, n) == TRUE
Attributed(u, n) == ~VerifyStore \/ u \in UserFor(records, n.value)

WantedFormat(t) == IF req[t].format = NoName THEN Persistent ELSE req[t].format

IsDurable(t) == WantedFormat(t) # Transient

\* The user's record in the slot the request asks for.
OwnSlot(t) ==
  FindDurable(records, loc[t].user, WantedFormat(t), req[t].spq, IdpName)

\* get_nameid starts with its fast-path lookup, for a durable format only.
GetNameIdCall(t) == IF IsDurable(t) THEN "find" ELSE "mint"

-----------------------------------------------------------------------------
(* Requests.                                                                *)

Start(t, request, call, u) ==
  /\ pc[t] = "idle"
  /\ request.op \in Ops
  /\ pc' = [pc EXCEPT ![t] = call]
  /\ req' = [req EXCEPT ![t] = request]
  /\ loc' = [loc EXCEPT ![t] = [NoLocals EXCEPT !.user = u]]
  /\ outcome' = [outcome EXCEPT ![t] = NoOutcome]
  /\ UNCHANGED <<records, issued, removed>>

\* construct_nameid: a persistent NameID is looked up before AllowCreate is
\* consulted; other formats go straight to get_nameid.
StartConstruct(t) ==
  \E u \in Users, f \in Formats, s \in SPs, allow \in BOOLEAN :
    LET request == [NoRequest EXCEPT !.op = "construct", !.user = u, !.format = f,
                                     !.spq = s, !.allow = allow]
    IN Start(t, request, IF f = Persistent THEN "match"
                         ELSE IF f = Transient THEN "mint" ELSE "find", u)

\* Neither the policy nor the release policy names a format.
RefuseNoFormat(t) ==
  /\ pc[t] = "idle" /\ "construct" \in Ops
  /\ outcome' = [outcome EXCEPT ![t] = [NoOutcome EXCEPT !.kind = "NoFormat"]]
  /\ UNCHANGED <<records, pc, req, loc, issued, removed>>

StartMapping(t) ==
  \E n \in Presentable, f \in Formats \union {NoName}, s \in SPs \union {NoName},
     allow \in BOOLEAN :
    Start(t, [NoRequest EXCEPT !.op = "mapping", !.name = n, !.format = f,
                               !.spq = s, !.allow = allow], "localUser", NoName)

StartManage(t) ==
  \E n \in Presentable, op \in {"newid", "newEncryptedId", "terminate"}, p \in SpIds :
    /\ (p = NoName) <=> (op # "newid")
    /\ Start(t, [NoRequest EXCEPT !.op = op, !.name = n, !.spid = p],
             "localUser", NoName)

-----------------------------------------------------------------------------
(* find_durable_checked, get_nameid and create_id.                          *)

\* A collision in create_id draws again, up to the bound.
CollisionUncounted(t) == Goto(t, "mint", loc[t])
AfterCollision(t) ==
  IF loc[t].draws + 1 < MaxMintAttempts
  THEN Goto(t, "mint", [loc[t] EXCEPT !.draws = @ + 1])
  ELSE Fail(t, "StoreError")

\* A durable record the store handed back is returned once verified
\* (verify_durable_record): it must be the slot asked for, and the user's own.
HandBack(t, n) ==
  IF ~VerifyStore THEN Return(t, "ok", n)
  ELSE IF DurableMatch(n, WantedFormat(t), req[t].spq, IdpName)
       THEN Goto(t, "verify", [loc[t] EXCEPT !.nid = n])
       ELSE Fail(t, "StoreError")

\* match_local_id and the fast path of get_nameid read the durable slot.
FindSlot(t) ==
  /\ pc[t] \in {"match", "find"}
  /\ \/ \E r \in Answers(OwnSlot(t)) : HandBack(t, r.nid)
     \/ /\ OwnSlot(t) = {} \/ FaultyReads
        /\ IF pc[t] = "match" /\ ~req[t].allow
           THEN Fail(t, "CreateNotAllowed")
           ELSE Goto(t, IF pc[t] = "match" THEN "find" ELSE "mint", loc[t])
  /\ UNCHANGED <<records, removed>>

\* The record the store handed back must be the user's own.
VerifyRecord(t) ==
  /\ pc[t] = "verify"
  /\ IF Attributed(loc[t].user, loc[t].nid)
     THEN Return(t, "ok", loc[t].nid)
     ELSE Fail(t, "StoreError")
  /\ UNCHANGED <<records, removed>>

\* One round of create_id: draw a value, keep it if it is not in use.  A
\* transient NameID that is not stored is returned without asking the store.
CreateId(t) ==
  /\ pc[t] = "mint"
  /\ \E v \in Drawable :
       LET n == [value |-> v, format |-> WantedFormat(t), spq |-> req[t].spq,
                 nq |-> IdpName, spid |-> NoName]
       IN IF ~IsDurable(t) /\ ~PersistTransient
          THEN Return(t, "ok", n)
          ELSE IF UserFor(records, v) = {}
               THEN Goto(t, "insert", [loc[t] EXCEPT !.nid = n, !.draws = 0])
               ELSE AfterCollision(t)
  /\ UNCHANGED <<records, removed>>

\* The value was taken between create_id's check and the write: mint again.
RetryMint(t) ==
  IF loc[t].tries + 1 < MaxMintAttempts
  THEN Goto(t, "mint", [loc[t] EXCEPT !.nid = NoName, !.tries = @ + 1])
  ELSE Fail(t, "StoreError")

\* get_or_insert_durable looks the slot up again under the store's own lock,
\* and answers with the record it finds there, not with the candidate.
Existing(u, n) == FindDurable(records, u, n.format, n.spq, n.nq)

Winners(own) == {r.nid : r \in Answers(own)}

GetOrInsertDurable(t) ==
  /\ pc[t] = "insert" /\ IsDurable(t)
  /\ LET u == loc[t].user
         n == loc[t].nid
         own == Existing(u, n)
     IN \/ /\ own # {} /\ \E m \in Winners(own) : HandBack(t, m)
           /\ UNCHANGED records
        \/ /\ own = {} /\ ValueTaken(records, n.value)
           /\ RetryMint(t)
           /\ UNCHANGED records
        \/ /\ own = {} /\ ~ValueTaken(records, n.value)
           /\ records' = Insert(records, u, n)
           /\ HandBack(t, n)
  /\ UNCHANGED removed

InsertTransient(t) ==
  /\ pc[t] = "insert" /\ ~IsDurable(t)
  /\ LET u == loc[t].user
         n == loc[t].nid
     IN \/ /\ InsertVerdict(records, u, n) = "Ok"
           /\ records' = Insert(records, u, n)
           /\ Return(t, "ok", n)
        \/ /\ InsertVerdict(records, u, n) = "ValueTaken"
           /\ RetryMint(t)
           /\ UNCHANGED records
  /\ UNCHANGED removed

-----------------------------------------------------------------------------
(* find_local_id, handle_name_id_mapping_request and                        *)
(* handle_manage_name_id_request.                                           *)

\* What the handler does once the local user is known.
AfterLocalId(t, u) ==
  \/ req[t].op = "mapping" /\ Goto(t, "search", [loc[t] EXCEPT !.user = u])
  \/ req[t].op = "newid" /\ Goto(t, "replace", [loc[t] EXCEPT !.user = u])
  \/ req[t].op = "terminate" /\ Goto(t, "remove", [loc[t] EXCEPT !.user = u])
  \/ req[t].op = "newEncryptedId" /\ Fail(t, "Unsupported")

LocalUser(t) ==
  /\ pc[t] = "localUser"
  /\ LET owners == UserFor(records, req[t].name.value)
     IN \/ owners = {} /\ Fail(t, "UnknownNameId")
        \/ \E u \in owners :
             IF VerifyStore
             THEN Goto(t, "localConfirm", [loc[t] EXCEPT !.user = u])
             ELSE AfterLocalId(t, u)
  /\ UNCHANGED <<records, removed>>

\* The owner's own listing must hold the value, or the request is refused.
ConfirmLocalUser(t) ==
  /\ pc[t] = "localConfirm"
  /\ IF \E r \in ForUser(records, loc[t].user) : r.nid.value = req[t].name.value
     THEN AfterLocalId(t, loc[t].user)
     ELSE Fail(t, "StoreError")
  /\ UNCHANGED <<records, removed>>

Filter(t) == [format |-> req[t].format, spq |-> req[t].spq]

\* The mapping answers with a record the search found, never a transient one;
\* without one it creates, if the policy allows.
Usable(batch) == {n \in batch : n.format # Transient}

IgnoreAllowCreate(t) == TRUE
MayCreate(t) == req[t].allow

MapFrom(t, batch) ==
  \/ \E n \in Usable(batch) : Return(t, "ok", n)
  \/ /\ Usable(batch) = {}
     /\ IF MayCreate(t)
        THEN Goto(t, GetNameIdCall(t), [loc[t] EXCEPT !.batch = {}, !.nid = NoName])
        ELSE Fail(t, "CreateNotAllowed")

Search(t) ==
  /\ pc[t] = "search"
  /\ LET correct == Find(records, loc[t].user, Filter(t))
     IN \E rs \in (IF FaultyReads THEN SUBSET records ELSE {correct}) :
          LET batch == {r.nid : r \in rs}
          IN IF ~VerifyStore \/ batch = {}
             THEN MapFrom(t, batch)
             ELSE IF \A n \in batch : FilterMatches(Filter(t), n)
                  THEN Goto(t, "verifyFound",
                            [loc[t] EXCEPT !.batch = batch, !.todo = batch])
                  ELSE Fail(t, "StoreError")
  /\ UNCHANGED <<records, removed>>

\* find_nameid verifies what the search returned, one user_for per record.
VerifyFound(t) ==
  /\ pc[t] = "verifyFound"
  /\ \E n \in loc[t].todo :
       IF ~Attributed(loc[t].user, n)
       THEN Fail(t, "StoreError")
       ELSE IF loc[t].todo = {n}
            THEN MapFrom(t, loc[t].batch)
            ELSE Goto(t, "verifyFound", [loc[t] EXCEPT !.todo = @ \ {n}])
  /\ UNCHANGED <<records, removed>>

\* NewID writes the NameID of the request, with the new SPProvidedID, over the
\* record with that value.
ReplaceRecord(t) ==
  /\ pc[t] = "replace"
  /\ LET u == loc[t].user
         n == [req[t].name EXCEPT !.spid = req[t].spid]
         verdict == ReplaceVerdict(records, u, n)
     IN \/ /\ verdict = "Ok"
           /\ records' = Replace(records, u, n)
           /\ Return(t, "ok", n)
        \/ /\ verdict # "Ok"
           /\ Fail(t, verdict)
           /\ UNCHANGED records
  /\ UNCHANGED removed

\* Terminate removes the record with the value, whoever holds it by now.
RemoveRecord(t) ==
  /\ pc[t] = "remove"
  /\ records' = Remove(records, req[t].name.value)
  /\ removed' = removed \union ({req[t].name.value} \intersect Live)
  /\ Return(t, "ok", [req[t].name EXCEPT !.spid = NoName])

\* The backend cannot answer the pending call: the handler returns the error.
StoreOutage(t) ==
  /\ pc[t] # "idle"
  /\ ~(pc[t] = "mint" /\ ~IsDurable(t) /\ ~PersistTransient)
  /\ Fail(t, "StoreError")
  /\ UNCHANGED <<records, removed>>

-----------------------------------------------------------------------------
(* The single-call methods: store, remove_remote and remove_local.          *)

StoreNameId(u, n) ==
  /\ "store" \in Ops
  /\ ReplaceVerdict(records, u, n) = "Ok"
  /\ records' = Replace(records, u, n)
  /\ UNCHANGED <<pc, req, loc, outcome, issued, removed>>

RemoveRemote(v) ==
  /\ "removeRemote" \in Ops
  /\ records' = Remove(records, v)
  /\ removed' = removed \union ({v} \intersect Live)
  /\ UNCHANGED <<pc, req, loc, outcome, issued>>

RemoveLocal(u) ==
  /\ "removeLocal" \in Ops
  /\ records' = RemoveAll(records, u)
  /\ removed' = removed \union {r.nid.value : r \in ForUser(records, u)}
  /\ UNCHANGED <<pc, req, loc, outcome, issued>>

Step(t) ==
  \/ FindSlot(t) \/ VerifyRecord(t) \/ CreateId(t)
  \/ GetOrInsertDurable(t) \/ InsertTransient(t)
  \/ LocalUser(t) \/ ConfirmLocalUser(t) \/ Search(t) \/ VerifyFound(t)
  \/ ReplaceRecord(t) \/ RemoveRecord(t)

Next ==
  \/ \E t \in Threads : \/ StartConstruct(t) \/ RefuseNoFormat(t)
                        \/ StartMapping(t) \/ StartManage(t)
                        \/ Step(t) \/ StoreOutage(t)
  \/ \E u \in Users, n \in AppNameIds : StoreNameId(u, n)
  \/ \E v \in Values : RemoveRemote(v)
  \/ \E u \in Users : RemoveLocal(u)

Spec == Init /\ [][Next]_vars

\* A handler that has started keeps running: synchronous code on a thread of
\* its own.
FairSpec == Spec /\ \A t \in Threads : WF_vars(Step(t))

-----------------------------------------------------------------------------
(* Properties.                                                              *)

\* The two uniqueness constraints of the store hold together whatever writes
\* interleave: one record per value, one durable record per user and slot.
StoreUnique ==
  \A r, s \in records :
    \/ r = s
    \/ /\ r.nid.value # s.nid.value
       /\ r.user = s.user => ~SameSlot(r.nid, s.nid)

\* A NameID value is never moved from one user to another (the doc of replace:
\* the new user could log in as the old one wherever the value was seen).
NeverReassigned ==
  [][\A r \in records, s \in records' :
       r.nid.value = s.nid.value => r.user = s.user]_vars

\* A durable NameID handed to an SP stays recorded for that user and that slot,
\* and the only one handed out for them, until it is removed: no race of first
\* requests, retry, outage or later request leaves an SP with an identifier the
\* IdP does not know, or a user with two (the doc of get_nameid).
IssuedIsRecorded ==
  /\ \A p \in issued :
       p[2].format # Transient /\ p[2].value \notin removed =>
         \E r \in records : /\ r.user = p[1]
                            /\ r.nid.value = p[2].value
                            /\ SameSlot(r.nid, p[2])
  /\ \A p, q \in issued :
       /\ p[1] = q[1] /\ SameSlot(p[2], q[2])
       /\ p[2].value \notin removed /\ q[2].value \notin removed
       => p[2].value = q[2].value

\* No two users are ever known by the same durable NameID.
AccountBinding ==
  \A p, q \in issued :
    /\ p[2].value = q[2].value /\ p[2].value \notin removed
    /\ p[2].format # Transient /\ q[2].format # Transient
    => p[1] = q[1]

\* A request is honoured to its end, through whichever lookups it goes: one that
\* forbids creation (of a persistent NameID, or by a mapping) never mints, and a
\* transient NameID it is answered with was never handed out before, even when
\* with_persist_transient keeps it where a mapping finds it.
RequestHonoured ==
  [][\A t \in Threads :
       /\ /\ pc'[t] \in {"find", "mint", "insert"}
          /\ req'[t].op = "mapping" \/ req'[t].format \in {Persistent, NoName}
          => req'[t].allow
       /\ /\ req[t].op \in {"construct", "mapping"}
          /\ outcome'[t] # outcome[t] /\ outcome'[t].kind = "ok"
          /\ outcome'[t].nid.format = Transient
          => outcome'[t].nid.value \notin IssuedValues]_vars

\* Whatever the store answers and however often it reports a taken value, a
\* request returns.
RequestsReturn == \A t \in Threads : pc[t] # "idle" ~> pc[t] = "idle"

\* Seen from outside, every interleaving of the requests is a sequence of the
\* registry's atomic operations.
Registry == INSTANCE NameIdRegistry WITH assoc <- records
ImplementsRegistry == Registry!RegistrySpec

\* A removed NameID stays removed ("Terminate: ... terminate the association").
RemovedStaysRemoved == removed \intersect Live = {}
=============================================================================
