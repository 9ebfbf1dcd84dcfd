------------------------------ MODULE SpLogout ------------------------------
(***************************************************************************)
(* SP-initiated logout across several entities                              *)
(* (crates/gamlastan/src/profiles/logout.rs: SpLogoutOrchestrator), driven  *)
(* by the application as its doc prescribes, over a transport that may lose,*)
(* repeat and reorder responses.  A call that returns an error changes       *)
(* nothing, so it is a stuttering step.                                     *)
(***************************************************************************)
EXTENDS Naturals, Sequences, FiniteSets

CONSTANTS
  Entities,      \* entities the principal has sessions at
  NoEntity,      \* a response without an Issuer
  MaxTargets,    \* bound: targets the application adds
  MaxResponses,  \* bound: distinct responses that arrive
  Careful        \* the application asks target_state before it calls mark_failed

ASSUME SpLogoutAssumption ==
  /\ MaxTargets \in Nat /\ MaxResponses \in Nat
  /\ Careful \in BOOLEAN
  /\ NoEntity \notin Entities

VARIABLES
  targets,    \* the orchestrator's targets, in the order they were added
  issued,     \* number of LogoutRequests issued; the n-th has ID n
  answers,    \* LogoutResponses that reached the SP, deliverable any number of times
  ended       \* history: IDs of the requests whose entity did end its session

orchVars == <<targets, issued, answers, ended>>

States == {"Pending", "InProgress", "Succeeded", "Failed"}

\* request: the request_id of the InProgress state, kept after it (0 before).
Target == [entity : Entities, state : States, request : 0..MaxTargets]

LogoutResponse == [irt : 0..MaxTargets, issuer : Entities \union {NoEntity},
                   success : BOOLEAN, partial : BOOLEAN, verified : BOOLEAN]

OrchTypeOK ==
  /\ targets \in Seq(Target)
  /\ issued \in 0..MaxTargets
  /\ answers \subseteq LogoutResponse
  /\ ended \subseteq 1..MaxTargets

OrchInit ==
  /\ targets = << >>
  /\ issued = 0
  /\ answers = {}
  /\ ended = {}

\* The first target that satisfies the condition; iter_mut().find().
First(Holds(_)) ==
  {k \in DOMAIN targets : Holds(targets[k]) /\ \A j \in 1..(k - 1) : ~Holds(targets[j])}

FinalState(s) == s \in {"Succeeded", "Failed"}

\* is_complete
Complete == \A k \in DOMAIN targets : FinalState(targets[k].state)

AddTarget(e) ==
  /\ Len(targets) < MaxTargets
  /\ targets' = Append(targets, [entity |-> e, state |-> "Pending", request |-> 0])
  /\ UNCHANGED <<issued, answers, ended>>

Unrequested(t) == t.state = "Pending"

NewId == issued + 1

\* next_request: the first pending target gets a request of its own.
NextRequest ==
  LET Waiting(t) == Unrequested(t)
  IN /\ \E k \in First(Waiting) :
          targets' = [targets EXCEPT ![k].state = "InProgress", ![k].request = NewId]
     /\ issued' = issued + 1
     /\ UNCHANGED <<answers, ended>>

\* The entity a request went to ends its session or fails to, wholly or in part,
\* and answers.
Answer(k) ==
  /\ targets[k].request # 0
  /\ Cardinality(answers) < MaxResponses
  /\ \E success, partial \in BOOLEAN :
       /\ answers' = answers \union
            {[irt |-> targets[k].request, issuer |-> targets[k].entity,
              success |-> success, partial |-> partial, verified |-> TRUE]}
       /\ ended' = IF success /\ ~partial THEN ended \union {targets[k].request} ELSE ended
  /\ UNCHANGED <<targets, issued>>

\* A response that is no entity's answer to its own request: its signature did
\* not verify, or it lacks InResponseTo or Issuer, or it names another's request.
Stray ==
  /\ Cardinality(answers) < MaxResponses
  /\ \E r \in LogoutResponse :
       /\ r.irt <= issued
       /\ \/ ~r.verified
          \/ r.irt = 0
          \/ \A k \in DOMAIN targets : targets[k].request = r.irt => targets[k].entity # r.issuer
       /\ answers' = answers \union {r}
  /\ UNCHANGED <<targets, issued, ended>>

Correlates(t, r) == t.state = "InProgress" /\ t.request = r.irt

AnyIssuer(t, r) == r.issuer # NoEntity
FromTarget(t, r) == r.issuer = t.entity

Verdict(r) == IF r.success /\ ~r.partial THEN "Succeeded" ELSE "Failed"

\* handle_response: a verified response with the ID of an outstanding request,
\* issued by that request's target, decides the target's state.
HandleResponse(r) ==
  LET Matches(t) == Correlates(t, r)
  IN /\ r.verified
     /\ r.irt # 0
     /\ \E k \in First(Matches) :
          /\ FromTarget(targets[k], r)
          /\ targets' = [targets EXCEPT ![k].state = Verdict(r)]
     /\ UNCHANGED <<issued, answers, ended>>

NamedPending(t, e) == t.entity = e /\ t.state = "Pending"
Named(t, e) == t.entity = e

\* mark_failed: the first target of the entity, in whatever state it is.  The
\* application calls it for an entity whose request is still unanswered by its
\* own books: it gave up waiting, or the delivery failed.
MarkFailed(e) ==
  LET Hit(t) == Named(t, e)
  IN /\ \E k \in First(Hit) :
          /\ Careful => targets[k].state = "InProgress"
          /\ targets' = [targets EXCEPT ![k].state = "Failed"]
     /\ \E k \in DOMAIN targets : targets[k].entity = e /\ targets[k].request # 0
     /\ UNCHANGED <<issued, answers, ended>>

OrchNext ==
  \/ \E e \in Entities : AddTarget(e) \/ MarkFailed(e)
  \/ NextRequest
  \/ \E k \in DOMAIN targets : Answer(k)
  \/ Stray
  \/ \E r \in answers : HandleResponse(r)

OrchSpec == OrchInit /\ [][OrchNext]_orchVars

\* The application keeps calling next_request, and gives up on an entity whose
\* response does not come.
OrchFairness ==
  /\ WF_orchVars(NextRequest)
  /\ \A e \in Entities : WF_orchVars(MarkFailed(e))

-----------------------------------------------------------------------------

\* A target counts as logged out only if its entity ended the session in full in
\* answer to the request made for it: no repeated, late, misattributed,
\* unverified or partial response makes one.
SucceededIsReal ==
  \A k \in DOMAIN targets : targets[k].state = "Succeeded" => targets[k].request \in ended

\* is_complete speaks of "a final state": once there, a target stays there,
\* whatever responses still arrive.
FinalIsFinal ==
  [][\A k \in DOMAIN targets :
       FinalState(targets[k].state) => targets'[k] = targets[k]]_orchVars

\* Driven as its doc prescribes, the logout completes even if no response ever
\* comes, provided that no entity was added twice: mark_failed only ever reaches
\* the first target of an entity.
LogoutCompletes ==
  <>[](Complete \/ \E j, k \in DOMAIN targets : j # k /\ targets[j].entity = targets[k].entity)
=============================================================================
