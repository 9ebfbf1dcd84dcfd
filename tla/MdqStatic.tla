------------------------------ MODULE MdqStatic ------------------------------
(***************************************************************************)
(* The MDQ client in static mode (crates/gamlastan-mdq/src/client.rs:       *)
(* into_static_file, into_static_url, get_static): one entity, kept from a   *)
(* file or fetched from a URL, with lazy retries and exponential backoff.    *)
(* Every time is kept as the ticks left until it; 0 is "due".  A caller      *)
(* works on a snapshot and on the clock it read, while others change the     *)
(* state.                                                                   *)
(***************************************************************************)
EXTENDS Integers

CONSTANTS
  Callers,    \* lookups in flight
  UrlBacked,  \* the kinds of client: TRUE for one from a URL, FALSE from a file
  RetryBase,  \* RETRY_BASE, in ticks
  RetryMax,   \* RETRY_MAX, in ticks
  Lives,      \* ticks a fetched document remains valid for; Forever may be one
  Forever,    \* a document without validUntil
  NoMetadata  \* nothing loaded

ASSUME MdqStaticAssumption ==
  /\ UrlBacked \subseteq BOOLEAN
  /\ RetryBase \in Nat \ {0} /\ RetryMax \in Nat /\ RetryBase <= RetryMax
  /\ Lives \subseteq (Nat \ {0}) \union {Forever}
  /\ Forever \notin Int /\ NoMetadata \notin Int \union {Forever}

VARIABLES
  metadata,    \* the document loaded, as the ticks it is really valid for
  validUntil,  \* what the state records of its validity
  hasUrl,      \* source_url is set
  retryAfter,  \* ticks left until the next fetch is allowed
  backoff,     \* retry_backoff
  serverUp,    \* the server answers with sound metadata
  pc, job,     \* the callers
  last         \* history: how the latest lookup ended, and with which document

state == <<metadata, validUntil, hasUrl, retryAfter, backoff>>
vars == <<state, serverUp, pc, job, last>>

Least(a, b) == IF a <= b THEN a ELSE b

\* One tick later.
Sooner(t) == IF t \in {Forever, NoMetadata, 0} THEN t ELSE t - 1

Due(t) == t = 0

LastLife == {l \in Lives \ {Forever} : \A m \in Lives \ {Forever} : m <= l}
Left == UNION {0..l : l \in LastLife} \union {Forever}
Documents == Left \union {NoMetadata}

TypeOK ==
  /\ metadata \in Documents /\ validUntil \in Documents
  /\ hasUrl \in BOOLEAN /\ serverUp \in BOOLEAN
  /\ backoff \in RetryBase..RetryMax /\ retryAfter \in 0..RetryMax
  /\ pc \in [Callers -> {"idle", "snapshot", "fetching"}]
  /\ DOMAIN job = {c \in Callers : pc[c] # "idle"}
  /\ last.ended \in {"none", "ok", "error"} /\ last.document \in Documents

NoAnswer == [ended |-> "none", document |-> NoMetadata]

\* A client from a file; one whose first fetch succeeded; one whose first fetch
\* failed.
Init ==
  /\ \/ /\ \E l \in Lives : metadata = l /\ validUntil = l
        /\ hasUrl \in UrlBacked /\ retryAfter = 0
     \/ /\ metadata = NoMetadata /\ validUntil = NoMetadata
        /\ TRUE \in UrlBacked /\ hasUrl = TRUE /\ retryAfter = RetryBase
  /\ backoff = RetryBase
  /\ serverUp \in BOOLEAN
  /\ pc = [c \in Callers |-> "idle"]
  /\ job = << >>
  /\ last = NoAnswer

SetJob(c, r) == job' = [k \in DOMAIN job \union {c} |-> IF k = c THEN r ELSE job[k]]

Finish(c) ==
  /\ pc' = [pc EXCEPT ![c] = "idle"]
  /\ job' = [k \in DOMAIN job \ {c} |-> job[k]]

Later(j) == [j EXCEPT !.metadata = Sooner(@), !.validUntil = Sooner(@),
                      !.retryAfter = Sooner(@), !.elapsed = Least(@ + 1, RetryMax)]

Tick ==
  /\ metadata' = Sooner(metadata)
  /\ validUntil' = Sooner(validUntil)
  /\ retryAfter' = Sooner(retryAfter)
  /\ job' = [c \in DOMAIN job |-> Later(job[c])]
  /\ last' = NoAnswer
  /\ UNCHANGED <<hasUrl, backoff, serverUp, pc>>

ServerChanges ==
  /\ serverUp' = ~serverUp
  /\ UNCHANGED <<state, pc, job, last>>

\* The state is copied under its lock; elapsed counts from the clock reading.
Snapshot(c) ==
  /\ pc[c] = "idle"
  /\ SetJob(c, [metadata |-> metadata, validUntil |-> validUntil, hasUrl |-> hasUrl,
                retryAfter |-> retryAfter, elapsed |-> 0, up |-> TRUE])
  /\ pc' = [pc EXCEPT ![c] = "snapshot"]
  /\ UNCHANGED <<state, serverUp, last>>

RecordedNow(c) == validUntil
RecordedThen(c) == job[c].validUntil

\* The clock is read: a loaded document that is still valid answers; else a
\* fetch begins, if there is a URL and the retry time has come.
Decide(c) ==
  LET usable == job[c].metadata # NoMetadata /\ ~Due(RecordedThen(c))
      fetch == job[c].hasUrl /\ Due(job[c].retryAfter)
  IN /\ pc[c] = "snapshot"
     /\ \/ /\ usable
           /\ last' = [ended |-> "ok", document |-> job[c].metadata]
           /\ Finish(c)
        \/ /\ ~usable /\ ~fetch
           /\ last' = [ended |-> "error", document |-> NoMetadata]
           /\ Finish(c)
        \/ /\ ~usable /\ fetch
           /\ SetJob(c, [job[c] EXCEPT !.elapsed = 0, !.up = serverUp])
           /\ pc' = [pc EXCEPT ![c] = "fetching"]
           /\ UNCHANGED last
     /\ UNCHANGED <<state, serverUp>>

\* The fetch succeeds: the document, valid when parsed, is stored and returned.
Loaded(c) ==
  /\ pc[c] = "fetching"
  /\ serverUp
  /\ \E l \in Lives :
       /\ metadata' = l /\ validUntil' = l
       /\ last' = [ended |-> "ok", document |-> l]
  /\ hasUrl' = TRUE
  /\ retryAfter' = 0
  /\ backoff' = RetryBase
  /\ Finish(c)
  /\ UNCHANGED serverUp

Doubled(b) == Least(2 * b, RetryMax)

UrlForgotten == FALSE
UrlAfterFailure == hasUrl

\* The fetch fails: the backoff doubles, counted from the clock reading.
Failed(c) ==
  /\ pc[c] = "fetching"
  /\ ~serverUp \/ ~job[c].up
  /\ backoff' = Doubled(backoff)
  /\ retryAfter' = IF backoff' > job[c].elapsed THEN backoff' - job[c].elapsed ELSE 0
  /\ hasUrl' = UrlAfterFailure
  /\ last' = [ended |-> "error", document |-> NoMetadata]
  /\ Finish(c)
  /\ UNCHANGED <<metadata, validUntil, serverUp>>

Next ==
  \/ Tick \/ ServerChanges
  \/ \E c \in Callers : Snapshot(c) \/ Decide(c) \/ Loaded(c) \/ Failed(c)

Spec == Init /\ [][Next]_vars

\* Time passes, lookups keep coming, handlers run on, and the transport's
\* timeout ends every fetch.
Fairness ==
  /\ WF_vars(Tick)
  /\ \A c \in Callers :
       WF_vars(Snapshot(c)) /\ WF_vars(Decide(c)) /\ WF_vars(Loaded(c) \/ Failed(c))

FairSpec == Spec /\ Fairness

-----------------------------------------------------------------------------

\* A lookup returns no document that has expired when it returns it, although
\* the document, its validity and the clock are read at different times.
ServedIsValid == last.ended = "ok" => ~Due(last.document)

\* Once the server stays up, a URL-backed client recovers for good: no backoff
\* grows without bound, none is lost, and no late failure undoes a success.
Recovers == hasUrl /\ <>[]serverUp => <>[](last.ended # "error")
=============================================================================
