------------------------- MODULE ArtifactResolution -------------------------
(***************************************************************************)
(* Artifact resolution: the identity provider stores a message under an     *)
(* artifact and the service provider it is for fetches it over a back       *)
(* channel (idp_artifact_resolve of crates/gamlastan-actix/src/idp.rs,      *)
(* profiles/artifact_resolution.rs and bindings/artifact.rs of gamlastan).  *)
(* The store is the application's; it is modelled by the contract of the    *)
(* trait ArtifactStore (bindings/traits.rs).                                *)
(*                                                                          *)
(* Requests and answers may be lost, repeated and reordered, and anyone who *)
(* comes by an artifact may try to resolve it under any name.               *)
(***************************************************************************)
EXTENDS Naturals, Sequences, FiniteSets

CONSTANTS
  Handles,         \* the random message handles
  Peers,           \* who may send a resolve
  TrustedSPs,      \* the service providers the IdP has metadata of
  Nobody,
  MaxResolves      \* bound: ArtifactResolve messages created

ASSUME ArtifactConstants ==
  /\ TrustedSPs \subseteq Peers /\ Nobody \notin Peers
  /\ MaxResolves \in Nat

VARIABLES
  pending,    \* the store: handle -> recipient, for the artifacts not consumed
  issued,     \* history: handle -> recipient, for every artifact stored
  resolves,   \* resolves[n] is the ArtifactResolve with ID n
  answers     \* ArtifactResponses sent, [irt, success, message]; any may be lost

artifactVars == <<pending, issued, resolves, answers>>

\* What a user agent may present as SAMLart: an artifact of this identity
\* provider, of another one (by its SourceID), or one of a wrong length or type
\* code.  A message is named by its handle.
Artifact == [kind : {"ours", "foreign", "malformed"}, handle : Handles]

ArtifactResolve ==
  [by : Peers, issuer : Peers \union {Nobody}, signer : Peers \union {Nobody}, covers : BOOLEAN,
   artifact : Artifact]

ArtifactResponse == [irt : 1..MaxResolves, success : BOOLEAN, message : Handles \union {Nobody}]

ArtifactTypeOK ==
  /\ DOMAIN issued \subseteq Handles /\ \A h \in DOMAIN issued : issued[h] \in TrustedSPs
  /\ DOMAIN pending \subseteq DOMAIN issued
  /\ resolves \in Seq(ArtifactResolve) /\ Len(resolves) <= MaxResolves
  /\ answers \subseteq ArtifactResponse

ArtifactInit == pending = << >> /\ issued = << >> /\ resolves = << >> /\ answers = {}

-----------------------------------------------------------------------------
(* The artifact on its way.                                                 *)

\* ArtifactStore::store_for_recipient, under a fresh random handle.
StoreForRecipient(h, sp) ==
  /\ h \notin DOMAIN issued
  /\ issued' = [k \in DOMAIN issued \union {h} |-> IF k = h THEN sp ELSE issued[k]]
  /\ pending' = [k \in DOMAIN pending \union {h} |-> IF k = h THEN sp ELSE pending[k]]
  /\ UNCHANGED <<resolves, answers>>

\* SamlArtifact::decode and matches_entity.
Decodes(artifact) == artifact.kind = "ours"

\* create_artifact_resolve, by a service provider that was brought an artifact.
RequestArtifact(sp, artifact) ==
  /\ Len(resolves) < MaxResolves /\ Decodes(artifact)
  /\ resolves' = Append(resolves, [by |-> sp, issuer |-> sp, signer |-> sp, covers |-> TRUE,
                                   artifact |-> artifact])
  /\ UNCHANGED <<pending, issued, answers>>

\* Any other resolve: under another's name, unsigned, or with a signature of
\* the sender's that covers something else.
ClaimArtifact(by, issuer, signer, covers, artifact) ==
  /\ Len(resolves) < MaxResolves
  /\ signer \in {by, Nobody}
  /\ resolves' = Append(resolves, [by |-> by, issuer |-> issuer, signer |-> signer,
                                   covers |-> covers, artifact |-> artifact])
  /\ UNCHANGED <<pending, issued, answers>>

-----------------------------------------------------------------------------
(* The identity provider.                                                   *)

\* authorize_artifact_resolve: a trusted issuer whose signature covers the message.
Authorized(r) == r.issuer \in TrustedSPs /\ r.signer = r.issuer /\ r.covers

\* ArtifactStore::resolve_and_consume_for_requester: whether there is something
\* for the requester; a mismatch must leave it in the store.
Held(r) == r.artifact.kind = "ours" /\ r.artifact.handle \in DOMAIN pending

ForRequester(r) == Held(r) /\ pending[r.artifact.handle] = r.issuer

\* create_artifact_response and create_artifact_response_error.
Answer(n, success, message) ==
  answers' = answers \union {[irt |-> n, success |-> success, message |-> message]}

Consume(h) == pending' = [k \in DOMAIN pending \ {h} |-> pending[k]]

\* idp_artifact_resolve.  An unauthorized resolve gets no ArtifactResponse at all.
ResolveArtifact(n) ==
  LET r == resolves[n]
  IN /\ Authorized(r)
     /\ \/ ForRequester(r) /\ Answer(n, TRUE, r.artifact.handle) /\ Consume(r.artifact.handle)
        \/ ~ForRequester(r) /\ Answer(n, FALSE, Nobody) /\ UNCHANGED pending
     /\ UNCHANGED <<issued, resolves>>

\* The store fails, or the IdP has none: an error is answered, nothing consumed.
StoreRefuses(n) ==
  /\ Authorized(resolves[n]) /\ Answer(n, FALSE, Nobody)
  /\ UNCHANGED <<pending, issued, resolves>>

\* process_artifact_response, for the solicited resolve n of the service
\* provider: the message it goes on with, if it accepts the response.
AcceptedFor(n) == {a.message : a \in {b \in answers : b.irt = n /\ b.success}}

ArtifactNext ==
  \/ \E h \in Handles, sp \in TrustedSPs : StoreForRecipient(h, sp)
  \/ \E sp \in TrustedSPs, artifact \in Artifact : RequestArtifact(sp, artifact)
  \/ \E by \in Peers, issuer \in Peers \union {Nobody}, signer \in Peers \union {Nobody},
        covers \in BOOLEAN, artifact \in Artifact :
       ClaimArtifact(by, issuer, signer, covers, artifact)
  \/ \E n \in DOMAIN resolves : ResolveArtifact(n) \/ StoreRefuses(n)

ArtifactSpec == ArtifactInit /\ [][ArtifactNext]_artifactVars

-----------------------------------------------------------------------------

\* A message leaves the store once, to the service provider it is for, in an
\* answer to a resolve that this provider sent itself; nothing else takes it out
\* of the store; and a provider goes on with no message but the one it asked for.
ArtifactsGoOnce ==
  /\ \A a \in answers : a.success =>
       LET r == resolves[a.irt]
       IN /\ a.message = r.artifact.handle
          /\ a.message \in DOMAIN issued /\ r.by = issued[a.message]
  /\ \A a, b \in answers : a.success /\ b.success /\ a.message = b.message => a = b
  /\ \A h \in DOMAIN issued :
       h \in DOMAIN pending <=> ~\E a \in answers : a.success /\ a.message = h
  /\ \A n \in DOMAIN resolves : AcceptedFor(n) \subseteq {resolves[n].artifact.handle}
=============================================================================
