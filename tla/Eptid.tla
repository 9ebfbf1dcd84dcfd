------------------------------- MODULE Eptid -------------------------------
(***************************************************************************)
(* Targeted identifiers (crates/gamlastan/src/idp/eptid.rs): what a service *)
(* provider knows a user by is derived from the two and a secret, and       *)
(* remembered in a key-value store, so that it survives a change of the     *)
(* secret.  Names are sequences of tokens, because keys and values join     *)
(* them with separators that are legal inside a name; the digest is modelled *)
(* as injective in the joined input.                                        *)
(***************************************************************************)
EXTENDS Naturals, Sequences, FiniteSets

CONSTANTS
  Tokens,          \* what names and secrets are made of
  Askers,          \* threads of the identity provider
  Targets,         \* the triples [idp, sp, user] that are asked for
  Secrets,
  VerifyCache,     \* with_store_verification
  MaxGets          \* bound: calls of get

ASSUME EptidAssumption ==
  /\ Targets \subseteq [idp : Seq(Tokens), sp : Seq(Tokens), user : Seq(Tokens)]
  /\ Secrets \subseteq Seq(Tokens) /\ VerifyCache \in BOOLEAN

VARIABLES
  cache,      \* the KeyValueStore: key -> value
  secret,     \* of the running process
  getting,    \* thread -> the target it found no value for, and still has to store
  gets,       \* calls so far
  given,      \* history: [target, value] handed to service providers
  upheavals   \* history: "flush" and "secret", if these happened

eptidVars == <<cache, secret, getting, gets, given, upheavals>>

\* Tokens are tuples: <<"x">> in a name, <<"hex", input>> for a digest.
Bang == <<"!">>
Join == <<"__">>

\* Eptid::make and Eptid::cache_key.
Digest(target) == <<"hex", target.user \o target.sp \o secret>>
Prefix(target) == target.idp \o <<Bang>> \o target.sp \o <<Bang>>
Made(target) == Append(Prefix(target), Digest(target))
CacheKey(target) == target.idp \o <<Join>> \o target.sp \o <<Join>> \o target.user

EptidInit ==
  /\ cache = << >> /\ secret \in Secrets /\ getting = [t \in Askers |-> {}]
  /\ gets = 0 /\ given = {} /\ upheavals = {}

\* Everything after the prefix is a single token that is not the separator.
HasPrefix(value, target) ==
  LET p == Prefix(target)
  IN Len(value) > Len(p) /\ SubSeq(value, 1, Len(p)) = p

RightShape(value, target) ==
  LET p == Prefix(target)
      opaque == SubSeq(value, Len(p) + 1, Len(value))
  IN HasPrefix(value, target) /\ \A i \in DOMAIN opaque : opaque[i] # Bang

Trusted(value, target) == VerifyCache => RightShape(value, target)

Give(target, value) == given' = given \union {[target |-> target, value |-> value]}

\* Eptid::get up to the store's answer: a hit is used if it has the right shape
\* and is an error otherwise, a miss goes on to Remember.  A failed read is an
\* error as well; errors change nothing.
Lookup(t, target) ==
  /\ getting[t] = {} /\ gets < MaxGets /\ gets' = gets + 1
  /\ LET key == CacheKey(target)
     IN IF key \in DOMAIN cache
        THEN /\ Trusted(cache[key], target) /\ Give(target, cache[key])
             /\ UNCHANGED getting
        ELSE getting' = [getting EXCEPT ![t] = {target}] /\ UNCHANGED given
  /\ UNCHANGED <<cache, secret, upheavals>>

Written(key, value) == [k \in DOMAIN cache \union {key} |-> IF k = key THEN value ELSE cache[k]]

\* The rest of Eptid::get: store what was made, then hand it out.
Remember(t) ==
  /\ \E target \in getting[t] :
       cache' = Written(CacheKey(target), Made(target)) /\ Give(target, Made(target))
  /\ getting' = [getting EXCEPT ![t] = {}]
  /\ UNCHANGED <<secret, gets, upheavals>>

\* The store refuses to set; nothing is handed out.
GiveWithoutStoring(t) == \E target \in getting[t] : Give(target, Made(target))

GiveNothing(t) == UNCHANGED given

SetFails(t) ==
  /\ getting[t] # {} /\ GiveNothing(t)
  /\ getting' = [getting EXCEPT ![t] = {}]
  /\ UNCHANGED <<cache, secret, gets, upheavals>>

-----------------------------------------------------------------------------
(* What happens to the process and its store.                               *)

\* The process restarts, with another secret; calls in progress are gone.
Restart(s) ==
  /\ s # secret /\ secret' = s /\ upheavals' = upheavals \union {"secret"}
  /\ getting' = [t \in Askers |-> {}]
  /\ UNCHANGED <<cache, gets, given>>

\* The store loses everything.
Flush ==
  /\ cache # << >> /\ cache' = << >> /\ upheavals' = upheavals \union {"flush"}
  /\ UNCHANGED <<secret, getting, gets, given>>

\* Another tenant's code writes a value under a key of somebody else.  The values
\* of one pair of providers cannot be told apart and are not mixed up here.
Misfile(g, to) ==
  /\ \A t \in Targets : CacheKey(t) = CacheKey(to) =>
       <<t.idp, t.sp>> # <<g.target.idp, g.target.sp>>
  /\ cache' = Written(CacheKey(to), g.value)
  /\ UNCHANGED <<secret, getting, gets, given, upheavals>>

EptidNext ==
  \/ \E t \in Askers, target \in Targets : Lookup(t, target)
  \/ \E t \in Askers : Remember(t) \/ SetFails(t)
  \/ \E s \in Secrets : Restart(s)
  \/ Flush
  \/ \E g \in given, to \in Targets : Misfile(g, to)

EptidSpec == EptidInit /\ [][EptidNext]_eptidVars

-----------------------------------------------------------------------------

\* A service provider always meets a user under the same identifier, unless the
\* store was flushed and the secret changed, and no identifier ever stands for
\* two users or is known to two service providers, even where the joined keys of
\* two targets are equal or a value is filed under another tenant's key.
IdentifiersAreStable ==
  \A g, h \in given :
    /\ g.target = h.target /\ g.value # h.value => upheavals = {"flush", "secret"}
    /\ g.value = h.value => g.target = h.target
=============================================================================
