------------------------------- MODULE MCMdq -------------------------------
(***************************************************************************)
(* A small MDQ client for TLC.  get (crates/gamlastan-mdq/src/client.rs)    *)
(* serves a lookup by the mode the client was built in, and the modes share  *)
(* no state: the initial state picks one and the other rests.               *)
(***************************************************************************)
EXTENDS MdqStatic, TLC

CONSTANTS Entities, Capacity, Ttl, Durations, Lifetimes, MaxVersions, MaxTime

VARIABLES mode, clock, published, replaced, cache, dynamicPc, dynamicJob, served

Dynamic == INSTANCE MdqDynamic WITH pc <- dynamicPc, job <- dynamicJob

ASSUME MdqAssumption == Dynamic!DynamicConstants

dynamicVars == <<mode, clock, published, replaced, cache, dynamicPc, dynamicJob, served>>

MdqInit ==
  /\ mode \in {"dynamic", "static"}
  /\ Dynamic!Init /\ Init
  /\ mode = "dynamic" => ~hasUrl /\ ~serverUp /\ metadata = Forever

MdqNext ==
  \/ mode = "dynamic" /\ Dynamic!Next /\ UNCHANGED <<mode, vars>>
  \/ mode = "static" /\ Next /\ UNCHANGED dynamicVars

\* The fairness of MdqStatic, where that is the mode.
MdqSpec ==
  /\ MdqInit /\ [][MdqNext]_<<vars, dynamicVars>>
  /\ mode = "static" => Fairness

\* See MdqDynamic.
ServedIsCurrent == Dynamic!ServedIsCurrent
=============================================================================
