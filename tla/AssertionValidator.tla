------------------------- MODULE AssertionValidator -------------------------
(***************************************************************************)
(* The checklist of the service provider                                    *)
(* (crates/gamlastan/src/security/validation.rs, with config.rs, clock.rs,  *)
(* audience.rs, destination.rs, recipient.rs, conditions.rs, relay_state.rs *)
(* and name_id.rs).  Every check runs, whatever the others say: the checks  *)
(* below say when a numbered check fails, and the stores of the replay      *)
(* check and of the persistent NameIDs change even when another one fails.  *)
(*                                                                          *)
(* An optional element or attribute that is missing is Absent.              *)
(*   response   id, destination, issuerFormat, irt, sig, success,           *)
(*              assertions (a sequence), encrypted (how many)               *)
(*   assertion  id, issued, issuer, sig, subject, conditions, sessions      *)
(*              (session expiry of each AuthnStatement), attributes         *)
(*   subject    nameId, confirmations (a sequence of method and data)       *)
(***************************************************************************)
EXTENDS Integers, Sequences, FiniteSets

CONSTANT Absent

-----------------------------------------------------------------------------
(* SecurityConfig: the three presets.  Times are scaled down, keeping which  *)
(* preset is tighter than which.                                            *)

DefaultConfig ==
  [skew |-> 1, maxAge |-> 3, signedAssertions |-> TRUE, signedResponses |-> FALSE,
   encryptedAssertions |-> FALSE, rejectDsObject |-> TRUE, uniquePersistent |-> FALSE,
   sanitizeRelayState |-> TRUE, verifyDestination |-> TRUE, verifyRecipient |-> TRUE,
   clientAddress |-> FALSE, unsolicited |-> FALSE]

PermissiveConfig ==
  [DefaultConfig EXCEPT !.skew = 2, !.maxAge = 4, !.signedAssertions = FALSE,
     !.rejectDsObject = FALSE, !.sanitizeRelayState = FALSE, !.verifyDestination = FALSE,
     !.verifyRecipient = FALSE, !.unsolicited = TRUE]

StrictConfig ==
  [DefaultConfig EXCEPT !.maxAge = 2, !.signedResponses = TRUE,
     !.encryptedAssertions = TRUE, !.clientAddress = TRUE]

-----------------------------------------------------------------------------
(* Helpers.                                                                 *)

\* The first of the elements of s at some indices.
FirstAt(s, indices) == s[CHOOSE i \in indices : \A j \in indices : i <= j]

\* A URL is its text without trailing slashes, and whether it has one.
UrlsMatch(a, b) == a.at = b.at

NotBeforeValid(now, t, c) == now + c.skew >= t
NotOnOrAfterValid(now, t, c) == now - c.skew < t
WithinAgeLimit(now, t, c) == now - t <= c.maxAge

\* AND over the restrictions, OR within each; none at all restricts nothing.
AudiencesAllow(restrictions, sp) == \A audiences \in restrictions : sp \in audiences

RelayStateClean(relay) ==
  relay.traits \intersect {"control", "scheme", "markup"} = {}

-----------------------------------------------------------------------------
(* Checks 1 to 4, 7, 33 and 34: the response.                               *)

DestinationOk(r, p, c) ==
  c.verifyDestination =>
    IF r.destination = Absent THEN r.sig = Absent ELSE UrlsMatch(r.destination, p.url)

IssuerFormatOk(r) == r.issuerFormat \in {Absent, "entity"}

\* Checks 3 and 17: an answer names the request that is outstanding, and an
\* unsolicited one names none.
InResponseToOk(irt, p, c) == irt = p.request /\ (irt = Absent => c.unsolicited)

ResponseSignatureOk(r, p, c) ==
  IF r.sig = Absent THEN ~c.signedResponses ELSE p.responseVerified = "yes"

DsObjectOk(p, c) == c.rejectDsObject => p.sigXml \in {Absent, "plain"}

FailedOfResponse(r, p, c) ==
  {n \in {1, 2, 3, 4, 7, 33, 34} :
     \/ n = 1 /\ ~DestinationOk(r, p, c)
     \/ n = 2 /\ ~IssuerFormatOk(r)
     \/ n = 3 /\ ~InResponseToOk(r.irt, p, c)
     \/ n = 4 /\ ~ResponseSignatureOk(r, p, c)
     \/ n = 7 /\ ~DsObjectOk(p, c)
     \/ n = 33 /\ ~r.success
     \/ n = 34 /\ r.assertions = << >>}

-----------------------------------------------------------------------------
(* Checks 5 to 13 and 35: issuer, signature, age and conditions.            *)

SignatureOk(a, p, c) ==
  IF a.sig = Absent THEN ~c.signedAssertions ELSE a.id \in p.verified

AgeOk(a, p, c) == a.issued <= p.now + c.skew /\ WithinAgeLimit(p.now, a.issued, c)

FailedConditions(k, p, c) ==
  IF k = Absent THEN {10, 11}
  ELSE {n \in {9, 10, 11, 13} :
          \/ n = 9 /\ k.notBefore # Absent /\ ~NotBeforeValid(p.now, k.notBefore, c)
          \/ n = 10 /\ k.until # Absent /\ ~NotOnOrAfterValid(p.now, k.until, c)
          \/ n = 11 /\ (k.audiences = {} \/ ~AudiencesAllow(k.audiences, p.sp))
          \/ n = 13 /\ k.proxies # Absent /\ p.depth > k.proxies}

-----------------------------------------------------------------------------
(* Checks 14 to 19: the first bearer confirmation, and no other.            *)

Bearers(a) ==
  IF a.subject = Absent THEN {}
  ELSE {i \in DOMAIN a.subject.confirmations : a.subject.confirmations[i].method = "bearer"}

FailedData(d, p, c) ==
  {n \in 15..19 :
     \/ n = 15 /\ c.verifyRecipient
               /\ (d.recipient = Absent \/ ~UrlsMatch(d.recipient, p.acs))
     \/ n = 16 /\ (d.until = Absent \/ ~NotOnOrAfterValid(p.now, d.until, c))
     \/ n = 17 /\ ~InResponseToOk(d.irt, p, c)
     \/ n = 18 /\ d.notBefore # Absent
     \/ n = 19 /\ c.clientAddress /\ d.address # Absent /\ d.address # p.client}

FailedConfirmation(a, p, c) ==
  IF Bearers(a) = {} THEN {14}
  ELSE LET data == FirstAt(a.subject.confirmations, Bearers(a)).data
       IN IF data = Absent THEN {15} ELSE FailedData(data, p, c)

-----------------------------------------------------------------------------
(* Check 20: replays.  seen[id] is when the cache forgets the ID.           *)

Lesser(x, y) == IF x < y THEN x ELSE y

ReplayExpiryAtUntil(a, p, c) ==
  LET age == a.issued + c.maxAge + 1
  IN IF a.conditions = Absent \/ a.conditions.until = Absent THEN age
     ELSE Lesser(a.conditions.until, age)

\* The age limit compares whole seconds, hence the one that is added.
ReplayExpiry(a, p, c) ==
  LET age == Lesser(a.issued, p.now + c.skew) + c.maxAge + 1
  IN IF a.conditions = Absent \/ a.conditions.until = Absent THEN age
     ELSE Lesser(a.conditions.until + c.skew, age)

Live(seen, now) == [id \in {i \in DOMAIN seen : seen[i] > now} |-> seen[id]]

\* The assertions of a response are checked in order: a second assertion with
\* the ID of the first one is a replay.
Replayed(r, i, p, c, seen) ==
  \/ r.assertions[i].id \in DOMAIN Live(seen, p.now)
  \/ \E j \in 1..(i - 1) : /\ r.assertions[j].id = r.assertions[i].id
                           /\ ReplayExpiry(r.assertions[j], p, c) > p.now

\* The cache after the response, valid or not.
SeenAfter(r, p, c, seen) ==
  LET live == Live(seen, p.now)
      new == {i \in DOMAIN r.assertions : ~Replayed(r, i, p, c, seen)}
      kept == {i \in new : ReplayExpiry(r.assertions[i], p, c) > p.now}
  IN [id \in DOMAIN live \union {r.assertions[i].id : i \in kept} |->
        IF id \in DOMAIN live THEN live[id]
        ELSE ReplayExpiry(r.assertions[CHOOSE i \in kept : r.assertions[i].id = id], p, c)]

-----------------------------------------------------------------------------
(* Checks 21 to 23 and 26: statements and persistent NameIDs.               *)

FailedStatements(a, p, c) ==
  IF a.sessions = << >> THEN {21}
  ELSE {n \in {23} : \E i \in DOMAIN a.sessions :
                       /\ a.sessions[i] # Absent
                       /\ ~NotOnOrAfterValid(p.now, a.sessions[i], c)}

\* What the store is asked about; an encrypted NameID cannot be looked at.
PersistentName(a) ==
  IF a.subject = Absent \/ a.subject.nameId = Absent THEN Absent
  ELSE IF a.subject.nameId.encrypted \/ a.subject.nameId.format # "persistent" THEN Absent
  ELSE a.subject.nameId.value

PersistentIdOkForAnybody(a, p, c, owner) ==
  c.uniquePersistent /\ PersistentName(a) # Absent => p.principal # Absent

\* owner[<<name, sp>>] is the principal the persistent NameID was recorded for.
PersistentIdOk(a, p, c, owner) ==
  c.uniquePersistent /\ PersistentName(a) # Absent =>
    /\ p.principal # Absent
    /\ <<PersistentName(a), p.sp>> \in DOMAIN owner =>
         owner[<<PersistentName(a), p.sp>>] = p.principal

\* The store after the response, valid or not.
OwnerAfter(r, p, c, owner) ==
  LET asked == {PersistentName(r.assertions[i]) : i \in DOMAIN r.assertions} \ {Absent}
      new == {<<n, p.sp>> : n \in asked} \ DOMAIN owner
  IN IF ~c.uniquePersistent \/ p.principal = Absent THEN owner
     ELSE [k \in DOMAIN owner \union new |-> IF k \in new THEN p.principal ELSE owner[k]]

-----------------------------------------------------------------------------
(* validate_response.                                                       *)

FailedOfAssertion(r, i, p, c, seen, owner) ==
  LET a == r.assertions[i]
  IN FailedConditions(a.conditions, p, c) \union FailedConfirmation(a, p, c)
       \union FailedStatements(a, p, c)
       \union {n \in {5, 6, 20, 26, 35} :
                 \/ n = 5 /\ a.issuer # p.idp
                 \/ n = 6 /\ ~SignatureOk(a, p, c)
                 \/ n = 20 /\ (~p.cache \/ Replayed(r, i, p, c, seen))
                 \/ n = 26 /\ ~PersistentIdOk(a, p, c, owner)
                 \/ n = 35 /\ ~AgeOk(a, p, c)}

FailedRelayState(p, c) ==
  {n \in {31, 32} : /\ p.relay # Absent
                    /\ \/ n = 31 /\ "long" \in p.relay.traits
                       \/ n = 32 /\ c.sanitizeRelayState /\ ~RelayStateClean(p.relay)}

Failures(r, p, c, seen, owner) ==
  FailedOfResponse(r, p, c) \union FailedRelayState(p, c)
    \union UNION {FailedOfAssertion(r, i, p, c, seen, owner) : i \in DOMAIN r.assertions}
=============================================================================
