----------------------------- MODULE MCSpLogout -----------------------------
(***************************************************************************)
(* The two halves of logout at the service provider: its endpoint and the   *)
(* orchestrator an application drives when it logs out of several entities. *)
(* They share no state: the initial state picks one and the other rests.    *)
(***************************************************************************)
EXTENDS SpSlo, SpLogout

VARIABLE half

LogoutInit == half \in {"endpoint", "orchestrator"} /\ Init /\ OrchInit

LogoutNext ==
  \/ half = "endpoint" /\ Next /\ UNCHANGED <<half, orchVars>>
  \/ half = "orchestrator" /\ OrchNext /\ UNCHANGED <<half, vars>>

\* The fairness of SpLogout, where that is the half.
LogoutSpec ==
  /\ LogoutInit /\ [][LogoutNext]_<<half, vars, orchVars>>
  /\ half = "orchestrator" => OrchFairness
=============================================================================
