--------------------------- MODULE JobStateMachine ---------------------------
(***************************************************************************)
(* What the control plane promises of every job, whatever runs it: a job   *)
(* is created queued at version 1, moves only along CanTransition, and     *)
(* every move increments the version.  The detailed specifications of SSH  *)
(* jobs and of runbook jobs implement this one.                            *)
(***************************************************************************)
EXTENDS JobModel

CONSTANT Jobs

VARIABLES state, version

smVars == <<state, version>>

Init ==
    /\ state = [j \in Jobs |-> "absent"]
    /\ version = [j \in Jobs |-> 0]

(* Repository.CreateJob of a job built in a handler. *)
Create(j) ==
    /\ state[j] = "absent"
    /\ state' = [state EXCEPT ![j] = "queued"]
    /\ version' = [version EXCEPT ![j] = 1]

(* Repository.MutateJob with a TransitionJob callback. *)
Transition(j, to) ==
    /\ CanTransition(state[j], to)
    /\ state' = [state EXCEPT ![j] = to]
    /\ version' = [version EXCEPT ![j] = @ + 1]

Next ==
    \E j \in Jobs : Create(j) \/ \E to \in JobStates : Transition(j, to)

Spec == Init /\ [][Next]_smVars
=============================================================================
