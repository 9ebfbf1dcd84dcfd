# A verification of gamlastan

gamlastan is a SAML 2.0 library in Rust: a core crate (`crates/gamlastan`), web handlers on
Actix (`crates/gamlastan-actix`), a metadata-query client (`crates/gamlastan-mdq`) and an
example identity provider (`example-idp`). This directory holds TLA+ models of what they do,
the TLC configurations that check them, and proofs checked by TLAPS. Paths below are relative
to the repository, with `G/` for `crates/gamlastan/src/` and `A/` for
`crates/gamlastan-actix/src/`.
`PROJECT.json` maps every definition to the lines it models and lists the hazards the
properties are for.

## The system

Parts that keep state:

| Part | State | Operations | How it is used |
| --- | --- | --- | --- |
| Identity database, `G/idp/ident.rs` | records (user, NameID) in an `IdentityStore` | construct, manage, map, store, remove | each request makes several store calls; requests run in parallel |
| Request tracker, `A/config.rs` | outstanding request IDs with browser and time | store, consume, evict | `sp_login`, `sp_logout` store; `sp_acs`, `sp_slo` consume |
| Replay cache, `G/security/replay.rs` | IDs with expiry, cleanup schedule | check_and_insert, cleanup | assertions at the SP, LogoutRequests at SP and IdP |
| SP login, `A/sp.rs`, `G/profiles/sso/sp.rs`, `G/security/validation.rs` | the two above, and persistent NameIDs | sp_login, sp_acs, process_response | asks the IdP and judges its responses |
| SP logout, `A/sp.rs` | the two above | sp_logout, sp_slo, an async callback | answers the IdP's logout messages |
| Logout orchestrator, `G/profiles/logout.rs` | targets with a state each | add_target, next_request, handle_response, mark_failed | owned by the application |
| Session store, `G/profiles/session.rs` | sessions with participants | create, join, leave, take, destroy, clean up | `idp_slo` takes; the application does the rest |
| IdP logout, `A/idp.rs` | session store, replay cache | idp_slo | answers LogoutRequests |
| IdP SSO, `A/idp.rs`, `G/idp/orchestrator`, `G/idp/authn_broker.rs` | identity database, assertion store, broker; sessions of the application | idp_sso, check_request, create_authn_response | calls back into the application in the middle |
| Assertion store, `G/idp/assertion_store.rs` | assertions and an index of subjects, under one lock | store, remove, queries | asked over a back channel, `G/profiles/assertion_query.rs` |
| Artifacts, `A/idp.rs`, `G/profiles/artifact_resolution.rs` | messages waiting under a handle, in a store of the application | store, idp_artifact_resolve | an SP fetches what the IdP left for it |
| Targeted identifiers, `G/idp/eptid.rs` | a key-value store of the application | get | several threads derive and remember identifiers |
| Example IdP, `example-idp/src/main.rs` | pending requests (bounded), sessions | sso, login form | uses the core crate and the broker |
| MDQ client, `crates/gamlastan-mdq/src/client.rs`, `G/metadata/cache.rs` | cache of documents, or one document with a retry time | get, clear_cache | awaits fetches while others run |
| ECP, `G/profiles/sso/ecp.rs` | the conversations a client has open | envelopes of SP, client and IdP | the client carries messages between the other two |
| Discovery, `G/profiles/idp_discovery.rs` | a cookie in the browser | read, extend, write back; answer an SP | every IdP of the domain rewrites the cookie |

Parts without state, which those are built from: attribute release (`G/idp/policy.rs`,
`entity_category.rs`, `attribute_map/`), the validator (`G/security/`), the Sweden Connect profile
(`G/profiles/swedenconnect/`), core types and their XML (`G/core`, `G/xml`), metadata
(`G/metadata`), bindings (`G/bindings`) and the extractors in front of the handlers
(`A/extractors.rs`).

What is hard here: handlers run in parallel over stores they share and lock only call by
call; clocks are read once and used later; messages come again, late, from elsewhere, in part or
not at all; tables and caches are bounded; the application runs in the middle of an operation;
a step may fail after an earlier one took effect; and two parties, or two readers in one
party, must take the same message the same way.

What makes each part correct:

- *Identity database*: one record per value and one durable record per user, SP and format; a
  value never changes hands; what an SP was given is on record; requests end.
- *Tracker*: one consumption per request, only by its browser; bounded; loses a live request
  only to a flood.
- *Replay cache*: refuses an ID until its expiry.
- *SP login*: one login per request and per assertion, in the browser that asked, for what was
  meant for this SP, once and in time; a persistent NameID stays with one account.
- *SP logout*: each message acts once; among the LogoutResponses only a conclusion uses the logout
  up, and no other browser does.
- *Orchestrator*: Succeeded means that the entity did it; it completes.
- *IdP logout*: Success means that what was asked for is gone, nothing else is, and only once.
- *IdP SSO*: ForceAuthn, IsPassive and the requested context are honoured; a session is not
  prolonged by its use; a denied request leaves nothing behind; answers go where the SP's
  metadata says; what the IdP answers, its own SP understands.
- *Services of the IdP*: an answer to a query was on record, reference by reference, and in time; a message behind an
  artifact goes once, to its SP; a targeted identifier stays what it was and is nobody
  else's; a login form is answered once; a reused session meets the request; an SP is told what
  policy, categories and its requests entitle it to.
- *MDQ client*: what it serves was sound, in date and current; it recovers.
- *Bindings and XML*: what was sent is what arrives; what was changed is refused or taken in the
  only way it can be read; what is passed on keeps its meaning.

## Modules

| Module | Models | Uses |
| --- | --- | --- |
| `IdentityStore` | the store's records, constraints and operations, as operators on a set | |
| `IdentDb` | the requests of `IdentDb`, one action per store call | `IdentityStore`; refines `NameIdRegistry` |
| `NameIdRegistry` | the abstract promise: an association of users and NameIDs changed atomically | |
| `RequestTracker` | `InMemoryRequestIdTracker` | |
| `ReplayCache` | `InMemoryReplayCache` | |
| `SpAcs` | `sp_login` and `sp_acs` as concurrent handlers | extends `ReplayCache`, instantiates `RequestTracker` |
| `LogoutFreshness` | the window of a LogoutRequest and how long its ID is remembered | |
| `SpSlo` | `sp_logout` and `sp_slo` | extends `RequestTracker`, `LogoutFreshness`; instantiates `ReplayCache` |
| `SpLogout` | `SpLogoutOrchestrator` | |
| `SessionStore` | `InMemorySessionStore` | |
| `IdpSlo` | `idp_slo` | extends `SessionStore`, `LogoutFreshness`; instantiates `ReplayCache` |
| `AuthnBroker` | `pick` and `class_ref_satisfies` | |
| `IdpSso` | the policy-driven path of `idp_sso` | extends `AuthnBroker` |
| `AssertionValidator` | `validate_response`: every check that can fail, three configurations | |
| `WebSso` | one exchange between an SP and an IdP: endpoint, request, answer, signatures, `process_response` | extends `AssertionValidator` |
| `SwedenConnect` | the same under the Swedish eID profile | extends `AssertionValidator` |
| `Ecp`, `Discovery` | the profiles of these names | |
| `SignIn` | the four ways to sign in, side by side | extends `WebSso`; instantiates `SwedenConnect`, `Ecp`, `Discovery` |
| `AssertionStore`, `ArtifactResolution`, `Eptid` | services of the IdP | |
| `ExampleIdp` | the example IdP's SSO and login handlers | extends `AuthnBroker` |
| `AttributeMap`, `EntityCategory`, `ReleasePolicy` | names on the wire, federations' rules, the chain of releases | the third extends the others |
| `SamlXml`, `MetadataXml` | every message and descriptor as a tree, written and read | the second extends the first |
| `DocumentExchange` | a document that is written, changed under way, read and passed on | extends `MetadataXml` |
| `Bindings` | encoders, decoders and extractors; a request changed under way | extends `SamlXml` |
| `MdqDynamic` | the dynamic mode of `MdqClient`, with `put_bounded`, staleness and validity of the cache's entries | |
| `MdqStatic` | its static mode | |
| `MCMdq`, `MCWebSso`, `MCIdpServices`, `MCSpLogout` | parts that share no state side by side, with their values for TLC | instantiate or extend them |
| other `MC...` | values and symmetry for TLC | |
| `...Proofs` | the theorems | |

A handler is a process with a program counter. It is cut into actions at every call that
takes a lock, reads the clock, awaits, or calls the application; what is between two cuts is
one action. `job`, `req` and `loc` are the handler's local variables. Variables marked
"history" exist for the properties only. Time is a counter; one clock stands for the
monotonic and the wall clock. A message is a record of what the checks look at. Where the checks
themselves are the subject (`WebSso`, `SwedenConnect`, `SpLogout`, `IdpSlo`) unauthenticated
messages are delivered too; elsewhere a message that is delivered is one that verified.
An event that changes nothing, such as a request refused before it touches the store, is not an
action.

### Signing in, message by message

`WebSso` follows one AuthnRequest and its answers. `SpLogin` chooses the endpoint and signs;
`IdpReceives` is `idp_sso` up to the callback: reading, authenticating, and `resolve_acs_endpoint`
on the ACS URL, index and binding a request may carry; the IdP's answer is a record with every
field the validator reads, made in the order of the code, so that a signature is its key
and the content it was made over at that moment. It verifies if the key is trusted and
the content unchanged. Responses may come from another IdP implementation, which fills one field in
another way, or be damaged in one place on their way. `AssertionValidator` says for each numbered
check when it fails; all of them run whatever the others say, and the replay cache and the store of
persistent NameIDs change even if another check refuses the response.

### Documents

An XML element is a tag, the prefixes it declares, its attributes, children and text. Each
struct has a set of values (`...Type`): a sample of each field with everything that may
be missing, repeated or of several forms, one field varied at a time, and a
writer and a reader translated from `SamlSerialize` and `SamlDeserialize`. Content the code keeps
as text is kept as a tree that must resolve on its own (`Resolves`). Documents come in two
spellings: this library's, where every element declares what it needs, and that of
federations, where the root does. Under way an attribute or an element is lost, repeated, moved,
renamed or replaced, or there is a node that SAML forbids.

`Bindings` does the same for HTTP. A word is what a text stands for with the characters
that conversions change; percent escapes have two spellings, since signatures
cover them as received. A request has a method, a kind of content, a query, a form and a
body; under way one of these changes. `Take` is all that the code would make of it: the
extractor, the ECP functions, the artifact and the URI binding.

## Runs

| Run | What it shows | Bounds |
| --- | --- | --- |
| `IdentDb_race` | Every interleaving of first requests, NewID, Terminate and removals is one of the atomic registry (`ImplementsRegistry`); a durable NameID an SP was given is on record until removed | 2 users, 2 values, 2 threads, 1 SP |
| `IdentDb_app` | Faulty lookups never lend out a foreign NameID, the application writes between the steps and values are drawn twice: constraints hold, values never change hands, AllowCreate and transients are honoured, requests end | 1 thread and the application |
| `IdentDb_terminated` | violation, see below | 1 user, 1 value |
| `SpAcs` | Logins are bound to browser and request; each request and assertion is used once | 2 handlers, 2 browsers, 1 request ID, 2 assertions, 2 responses, clock to 3 |
| `SpLogouts` | The endpoint: each logout message acts once, in its own browser; a logout stays open until it is concluded, expires, is flooded out, or is spent in its own browser by a Response at the assertion consumer service. The orchestrator: success is real and the logout completes | tracker of capacity 1, 2 IDs, 2 browsers, 2 callbacks; 3 targets, 2 entities, 2 distinct responses, each any number of times |
| `IdpSlo` | Success is complete, given once, and ends only sessions that each match the request | 2 SPs that share a request ID, 2 handlers, 2 sessions with an index each, 2 joins, 3 events, clock to 1 |
| `IdpSlo_left_behind` | violation, see below | as above, 1 session, 1 handler |
| `IdpSso` | ForceAuthn, IsPassive, comparisons, reuse and denial | 2 handlers on one browser, 2 users, 3 brokers, 2 logins, clock to 2 |
| `Mdq` | Dynamic: what is served is current. Static: it is valid, and lookups recover | 2 entities, a cache of one, 2 versions each, 2 callers; both kinds of static client, backoff capped at 3 |
| `WebSso` | Signing in: the browser profile, the Swedish one, ECP, discovery; documents; bindings | one usual setting and some 90 that differ from it in one place; 2 deliveries, 2 users, clock to 3; 5 ECP conversations, 2 answers; 3 logins of 2 IdPs; 17 kinds of document, one change each; one change to each request |
| `IdpServices` | Assertion store, artifacts, targeted identifiers, example IdP, release | 4 assertions under 2 IDs, 2 queries of 4, 1 answer under way or given; 2 handles, 3 peers, 2 resolves; 4 targets, 2 secrets, 2 threads; 1 pending slot, 6 requests, 2 forms; 6 policies in chains of up to two |
| `IdpServices_wire_names` | violation, see below | as above |

Parts that share no state are explored by one run: the initial state picks one and the others
rest (`part`, `profile`, `mode`, `half`).

Why the bounds suffice: the hazards are races of two actors, so two handlers, threads or
callers are there in each; two users, SPs or browsers make a mix-up visible; the tracker, the
cache and the example IdP's table hold one entry, so the limit is hit by the second; the clocks
run long enough for every window, age limit and expiry to pass and for something to happen
afterwards; retries have room for one success after a failure. In the runs about messages a
fault is one change to one field, which is enough where the checks are independent of each
other; settings differ from the usual in one place, or in several that belong
together. The names of the bounds are `MaxTime`, `StoreEnd`, `IdpEnd`, `MaxResponses`,
`MaxPerResponse`, `MaxDeliveries`, `MaxAnswers`, `MaxReceived`, `MaxCalls`, `MaxRequests`,
`MaxEvents`, `MaxJoins`, `MaxTargets`, `MaxLogins`, `MaxForms`, `MaxGets`, `MaxQueries`,
`MaxResolves`, `MaxRedirects`, `MaxVersions` and `Lives`. `MaxMintAttempts`, `MaxEntries`, `FormSlots`
and the lifetimes are parameters of the code, set small. Symmetry is used for users, handlers,
browsers, IDs and handles. Of the runs with a liveness property only `SpLogouts` has a symmetry, and
none of its values occurs in the half that the property is about.

Deadlock is not checked where the system may stop: an orchestrator whose targets are all
final, the handlers of `IdpSso` once all are done, an exchange at its end. Every other run checks
it.

### What the properties of the combined runs say

- `AnswersGoWhereRegistered`: whatever combination of ACS URL, index and binding a request
  carries, an accepted request is answered at an endpoint that the metadata and the request agree on.
- `OwnAnswersAreUnderstood`: what the library's IdP makes for a request of the library's SP, the
  SP accepts the first time it comes, if the two are configured for each other and their clocks agree
  within the skew; likewise for the Swedish profile.
- `AcceptedIsMeant`: of a response that differs from the IdP's in one place, what the SP takes over
  was made by the IdP for this SP, this request and this moment (`AcceptedIsGenuine`), and is not taken
  over again (`AcceptedOnce`). `TakenOverIsMeant` says so of the Swedish profile, with the level of
  assurance, and of ECP, whose answers end in their own conversation.
- `NamesKeepTheirAccount`: a persistent NameID is taken over for one account only.
- `HeardIsLastUsed`: discovery answers with the IdP used last.
- `ArrivesAsSent`: untouched messages arrive with kind, RelayState and signature, but for an artifact
  with percent escapes, which the extractor leaves in place, and a SOAP or PAOS envelope in
  a federation's spelling, of which only what is taken is constrained; a detached
  signature that verifies vouches for message and RelayState; what is taken is the one reading the
  request has. As XML, a document that was accepted says what it said, or what the change
  made of it.
- `MeaningSurvives`: a descriptor read from either spelling has the same roles, endpoints, keys,
  extensions, and verdict of the validator, before and after it is passed on.
- `IndexIsExact`, `WhatIsLearntIsOnRecord`: the index of subjects mirrors the assertions. The answer to
  an authn query holds the statements in force at that moment, of that subject. The answer to an
  ID request takes one lookup per reference, each under a lock of its own, and the application may store
  and remove in between: it holds, for each reference and in their order, an assertion stored under it
  while the request was answered. That all of them were on record together is not promised, and
  does not hold. The reading side only reads, so one answer at a time is enough for TLC.
- `ArtifactsGoOnce`, `IdentifiersAreStable`, `FormsAnswerOnce`, `SessionsAnswerAsAsked`: as in "What
  makes each part correct".
- `ReleasedIsEntitled`: each value that reaches the SP is one a declarative reading of the
  policies entitles it to (`Entitled`), link by link of the chain.

### Fairness

Three properties are about what must happen. `RequestsReturn` assumes that a thread in a
request goes on. `LogoutCompletes` assumes that the application drives the orchestrator as its
documentation says: it calls `next_request`, and `mark_failed` for an entity it gives up on.
Nothing is assumed of the entities or the network. `Recovers` assumes that callers keep
looking up, fetches end and time passes, and says that once the server stays up lookups stop
failing; the server itself is free. These are weak fairness on single actions.

### Assumptions the code does not enforce

Named constants hold assumptions that a run makes; set otherwise, TLC shows what they prevent.

- `PromptValidation`, `Prompt` (`SpAcs`, `IdpSlo`): no tick falls between the handler's reading
  of the clock (`A/sp.rs:325`, `A/idp.rs:781`) and the replay check, which reads its own. With
  FALSE a copy can be accepted once the cache has dropped the first: the cache judges by its
  clock, the validator by the older reading.
- `Careful` (`SpLogout`): the application calls `mark_failed` only for an unanswered target.
  With FALSE a Succeeded target becomes Failed (`G/profiles/logout.rs:419`).
- `LogoutCompletes` excepts an entity added twice: `mark_failed` reaches its first target only.
- `FaithfulPeers` (`IdentDb`): SPs present NameIDs as issued. With FALSE a NewID can rewrite the
  slot of the record, since the value alone finds the user.
- `VerifyStore`, `FaultyReads` (`IdentDb`): the store answers wrongly only where the
  database verifies it. `VerifyCache` (`Eptid`) likewise.
- `ArtifactResolution` assumes that the application's store keeps the contract of the trait
  `ArtifactStore` (`G/bindings/traits.rs:92`); the library has no implementation of its own.
- `ConversationsStayApart` is about conversations with a messageID. Without one an answer relayed
  while another conversation is in hand takes that conversation's RelayState along.
- `ArrivesAsSent` leaves out messages longer than the receiver inflates, and destination URLs
  whose own query uses a parameter name of the binding.

## What the models showed

Three disagreements between code and documentation are runs that end in a violation:

`IdentDb_terminated`: the documentation of Terminate says that the association is terminated
(`G/idp/ident.rs:1095`); a NewID that had looked up the user when the record was removed calls
`replace`, which inserts it again.

`IdpSlo_left_behind`: `idp_slo` answers Success with a comment that the session store tracks
who needs logout and the application delivers (`A/idp.rs:827`), but
`take_sessions_for_participant` removed those sessions whole and the propagation
requests are dropped, so neither can tell who is left.

`IdpServices_wire_names`: under entity categories the filter looks up what an SP requires by the
trusted local mapping of its wire name and by the wire name itself, and a comment says that the
latter is harmless, since it only matches held attributes that genuinely carry that name
(`G/idp/policy.rs:745`). The comparison is with local names, though: a required attribute whose
wire name no map knows and which is spelled like a local name (`displayName` under the URI format)
releases the held attribute of that local name, which travels under another wire name.
`ReleasedIsEntitled` allows for it, so that the rest of the release is still pinned down.

Behaviour met on the way that a user of the library should know; the models have it as it
is, and the properties are stated so that they hold beside it:

- *Requests*: `find_sso_endpoint` may fall back to an endpoint of another binding while `sp_login`
  still sends by the one it was asked for. Requests by POST from `sp_login` are unsigned, so an IdP
  that wants them signed refuses them. A redirect signature is verified with the first key of the
  metadata only, so a key that is rolled over to second place does not verify.
  `sp_login` drops an invalid RelayState without a word.
- *Responses*: a refused response may already have used up the assertion's ID or recorded its
  persistent NameID. `process_response` never passes a store of persistent NameIDs. The strict
  configuration wants encrypted assertions, which `process_response` never meets. Unsigned error
  responses are refused by a default SP before the request ID is consumed.
- *Logout and tracker*: a login's request ID can be consumed by a LogoutResponse in the same browser
  (`A/sp.rs:683`), and a logout's by a SAML Response at the assertion consumer service, which
  consumes the ID before it validates the Response and even if it then refuses it (`A/sp.rs:313`).
  The LogoutResponse that comes afterwards finds nothing to answer. `OpenUntilConcluded` names this way
  of losing a logout (`misspent`) and says that there are no others but expiry and a flood.
- *MDQ*: a slow fetch dates its entry from before the fetch, which shortens the entry's life; the
  first retry of the static client waits twice the base already.
- *Artifacts*: the message is consumed before it is sent, so a lost answer loses it. The
  extractor leaves an artifact URL-encoded.
- *Targeted identifiers*: joined cache keys may collide; the second user is then refused at that SP
  by the check of the value's shape, and never given the first one's identifier.
- *Release*: a RequestedAttribute with only non-text values narrows nothing; under entity
  categories requested values do not narrow; asked for any subject identifier, the pairwise one is
  preferred even if a later link of the chain drops it.
- *Sweden Connect*: the caller keeps the expected request ID, so only the replay cache
  prevents a second use. An IdP of this library cannot sign assertions inside the encryption, so an
  SP that wants them signed refuses its answers.
- *ECP and discovery*: of repeated header blocks the last counts. Concurrent tabs may drop an IdP
  from the cookie; the last used one stays right.
- *XML*: content kept as text carries only the prefixes declared on itself, so content that borrows
  one from above is refused when it is used on its own; `md_extensions` yields nothing if any
  sibling uses a prefix its wrapper does not know. Instants are written in whole seconds, versions
  other than 1.0, 1.1 and 2.0 as 2.0. Only AuthnRequest refuses duplicated constraining children;
  elsewhere the first one counts. AssertionIDRequest without references and AuthzDecisionQuery
  without actions are accepted.
- *Bindings*: `redirect_encode` does not strip a signature and sends messages that `redirect_decode`
  is too small for. Redirect RelayState and SigAlg that do not decode are taken as they
  stand, POST refuses them.

## Proofs

Each theorem is checked by TLAPS for every value of the constants that the named ASSUMEs of its
module allow. A theorem that needs more says so in an ASSUME of its own; each of these hypotheses
is a setting that a run has:

- `PromptValidation`, `Prompt`: no tick between a handler's two readings of the clock.
- `Careful`: `mark_failed` is called for unanswered targets only.
- `Trusted`: the identity store answers right, or its answers are verified. `Distinct`: SPs present
  NameIDs as issued, the application stores none of its own, transients are recorded and no value
  is drawn twice.
- `VerifyCache`, `Distinguishable`: cached identifiers are verified; no two targets write the same
  provider prefix and the secrets are of one length. Shapes of values, which are all that
  `Eptid` can verify, tell nothing otherwise.

The arguments, by module:

- `IdentDbProofs`. `StoreUnique` is inductive alone, since every operation goes through the
  store's own verdicts; `NeverReassigned` follows from the same facts. `TypeOK` needs to know at which
  program counter which local variable is set (`TypeInv`). For the rest each step of a thread is
  described once (`Moved`): it goes on, returns or fails, and the NameIDs it has at hand are ones
  that were at hand or a candidate nobody has heard of. `LedgerInv` says on that basis
  that durable NameIDs given to SPs stay with their user on record or among the removed, whence
  `AccountBinding`; `NamesInv`, that a value has one format and slot everywhere, whence
  `IssuedIsRecorded` and `RequestHonoured`. `ImplementsRegistry` is then proved step by step: each
  action is one of the registry's or changes nothing that it sees.
- `SpSloProofs`. The tracker on its own: it never exceeds its capacity, from the finiteness of its
  domain and the eviction before each insertion; what is spent is gone. For `CompletedByAsker`,
  `MessageUsedOnce` and `OpenUntilConcluded` the invariant joins this with the cache's (what
  was used stays until its expiry), and says that a message ID names one request, was remembered
  until that request's expiry, and that a callback under way has used its message up. That
  the window ends before the cache forgets is the lemma `WindowWithinExpiry`. The orchestrator,
  `SucceededIsReal` and `FinalIsFinal`: of every response in circulation that is
  verified and from the target of its request, the claim is true; a new request's ID is fresh, so no
  older response claims anything for it.
- `SpAcsProofs`. The replay cache on its own, `RememberedUntilExpiry`: an ID whose last accepted
  expiry lies ahead is in the map with at least that expiry, which pruning keeps since it drops
  only what is due. `OneLoginPerRequest` and `LoginBoundToBrowser`: a handler that consumed a
  request holds it alone, in the name of the browser that sent it, and nobody has logged in with it
  yet. Both hold whatever the clock does. `AssertionSingleUse`: as long as some handler could find an
  assertion in its window, the cache remembers it if it was used (`Burnt`), and no assertion is in
  two logins or in two handlers that have found no fault (`ApartInv`).
- `IdpSloProofs`. `LogoutIsAuthorized` is about each session that ends, not their union: a session without a
  participant of the requester, or without any, must not be among them. It and `LogoutIsComplete`:
  participations are told apart by
  the count at which they joined; what a request matched when it was accepted is matched by its
  handler still, if it is there, so taking what matches now leaves none of it. `ReplaysAreRefused`: a
  key names one request, was used with that request's expiry, and is remembered while
  the request is in its window.
- `IdpSsoProofs`. `SsoInv` says on which login the handler's subject rests for each disposition,
  and that records and assertions belong to handlers past their denials; `PromptingAsAsked`,
  `SessionNeverSlides` and `DenialLeavesNothing` follow. `ContextHonoured` adds what the
  broker's choice means (`SatisfiedIsMet`, by the least and greatest levels of a class) and follows the
  class from offer to response.
- `SignInProofs`, for any sites, users, windows, lifetimes and numbers of responses and deliveries.
  `AnswersGoWhereRegistered`: whichever branch of `ResolveAcs` chooses, it chooses an endpoint of the
  metadata that `Serves` the request, and what the IdP has read does not change. For the others
  the lemmas follow a response through signing (`SignedCirculates`), through every variation of
  another implementation and through damage (`VariationsVary`): `WireInv` says that every signature in
  circulation covers an assertion on record, or a response of such assertions, and that a damaged
  response no longer is what its signature covers; `IssuedInv`, that an assertion's ID tells when it was
  made and when it ends. Each delivery is one step (`Taking`), whether the ready handler or the
  application validates. `AcceptedIsGenuine` holds of it because nothing failed (`NothingFails`), and
  stays since the IdP forgets nothing. `AcceptedOnce` needs `SeenInv`: the replay cache holds the ID of
  whatever was taken over until the assertion ends, whatever refused responses put into the cache under
  the same ID; an SP that asks for no signature can be shown the same ID with other times, which is why the
  property asks for one. `NamesKeepTheirAccount`: the store still has every name that was taken
  over, for the same account (`NameInv`).
  `TakenOverIsMeant`, the Swedish half: `EidInv` says that a response in circulation whose signature is
  the IdP's covers what the IdP signed (`PostedInv`), that an ID tells what was signed under it
  (`SignedInv`), that the replay cache holds the ID of what was taken over until that expires
  (`UsedInv`), and so that nothing is taken over twice (`GrantedOnce`). The half about ECP: a body that is no
  fault answers a request of some conversation, and a relayed answer that refers to a conversation's
  messageID carries its RelayState (`EcpInv`); `ConversationsAssumption` keeps the IDs apart.
  `HeardIsLastUsed`: the most recent provider of the cookie is the one set last, whatever order the visits
  end in (`DiscoveryInv`), and the return URL extends a registered place by one parameter, which is
  read back unless the place has one of that name.
  `OwnAnswersAreUnderstood` says that no check fails, so its invariant must tell all that the checks look at.
  In web-browser SSO, `OwnInv` gives the shape of every answer of the library's own in circulation
  (`Vouched`: what the IdP makes at a time, under which ID, for which request, endpoint and user, signed
  as it is set); `ReadInv` says that it answers the one request or none at an endpoint of the SP; `FreshInv`
  that messages have IDs of their own and that those of a message not yet delivered are not in the replay
  cache, whatever damaged or foreign messages put there. `UsualConditions`, `UsualConfirmation` and
  `NothingIsWrong` take such an answer through the checklist; `DeliveredIsUnderstood` adds reading,
  decryption and the handler. The Swedish profile goes the same way (`EidOwnInv`, `EidFreshInv`,
  `DeliveredIsReached`). What it needs of the constants is in the ASSUMEs of `SignIn`: `AbsenceAssumption`,
  that Absent is no value of a field that the IdP fills; `SitesAssumption`, that endpoints are in order;
  and in `DeploymentsAssumption`, that an IdP of the Swedish profile can issue some level of assurance.
- `IdpServicesProofs`. `IndexIsExact` is inductive with the types; the cases that matter are a
  restore under another subject and the removal of a subject's last assertion. `WhatIsLearntIsOnRecord`:
  every response, relayed any number of times, is about a query and was on record then; an answer that
  is still being put together has seen all that is on record, and what it got, under the references it
  asked for, is among what it has seen (`AnsweringInv`).
  `ArtifactsGoOnce`: a waiting message has not been sent, and what was sent was waiting for its
  receiver. `IdentifiersAreStable`: a cached value is of some target, and of the key's own unless the
  keys merely collide, which the verification of its shape reveals; until a flush, what was given
  is under its key (`Steady`). `FormsAnswerOnce`, `SessionsAnswerAsAsked`: forms wait as they were shown
  and what is answered waits no longer. `ReleasedIsEntitled`: between two links of the chain each
  attribute carries its own wire name and itself as FriendlyName, and a value is under way just if it is held
  and the policies so far entitle the SP to it (`ReleaseInv`); a lemma per stage of `Filter` says
  what it does to that. It assumes that a map leads back from a wire name to where it came from or nowhere
  (`ConvertersAssumption`), that the rules of a category set yield to the stricter access
  categories (`YieldsToStricter`, which `ShippedRulesYield` proves of the shipped sets), and that what an SP
  requests means one attribute (`MeansOne`): a request whose FriendlyName is one attribute and whose unmapped
  Name is another one's has the values of both merged under one name.
- `MdqProofs`. `ServedIsValid`: a lookup's copy of the state agrees with itself as the state does,
  while time passes alike for both. `ServedIsCurrent`: what is fetched, cached or served had not been
  replaced when the lookup began that fetched it; `put_bounded` keeps no more than the capacity and
  nothing that is not so.

Only model-checked: liveness (`RequestsReturn`, `LogoutCompletes`, `Recovers`), which is beyond the
prover; `ArrivesAsSent` and `MeaningSurvives`, which compare functions over samples of every
structure: their readers recur over trees, and there is no induction over trees behind them.

## Abstractions worth knowing

- Hashes, random values and keys are atoms; a minted value is any value not seen before, or any
  value at all when `Redraw` is set. The digest of `Eptid` is injective in the joined input, and
  names are sequences of tokens because the separators are legal inside names.
- `SpSlo` reads the clock once per message; `IdpSlo` shows what two readings do.
- `IdpSlo` has a session store configured; without one nothing is removed.
- `IdpSso` takes constructing the NameID as one step, which `ImplementsRegistry` justifies; it leaves
  out the signing of denials, which can fail but changes nothing; `AuthnFailed` stands for every
  denial the callback may choose.
- The broker of `IdpSso` does not change; a stale reference is one that no registration has.
- In `MdqStatic` times are kept as ticks left, which keeps the state finite without
  a bound on the clock.
- In `ReleasePolicy` lists are sets, and names and formats are already case-folded; the shipped
  attribute maps are replaced by small ones with the same irregularities.
- The `TypeOK` definitions document the states; where typing matters to a proof, the proofs
  establish it.

## Not modelled

- Cryptography, canonical XML and key loading: a signature verifies or does not. Metadata signing is a
  call into that library.
- The negotiation of algorithms and the low-level `AuthnCallback` path of `idp_sso`.
- `filter_on_demands` and `filter_on_wire_representation` of the release policy, and `put` and
  `remove` of the metadata cache: nothing calls them outside tests.
- The functions that fill in NameID management and mapping messages; the messages are in
  `SamlXml`, what they ask for is in `IdentDb`.
- Principal selection, sign messages and metadata of the Sweden Connect profile, and the PEFIM
  profile: they build and compare metadata.
- Responders and middleware of the Actix crate, the pages and command line of the example IdP,
  and the SPID test tool.

## Plan

What is left, in order:

1. `IdpSso` with the low-level callback path.
2. Principal selection and sign messages in `SwedenConnect`, PEFIM's rules in `WebSso`.
