------------------------------ MODULE JobModel ------------------------------
(***************************************************************************)
(* The job record of the control plane and the transition rules every      *)
(* writer of a job goes through (internal/model/model.go).  SSH jobs and   *)
(* runbook jobs share them.                                                *)
(*                                                                         *)
(* A job that has not been created yet is a record in state "absent"; the  *)
(* repository itself has no such entry.                                    *)
(***************************************************************************)
EXTENDS Naturals

Terminal == {"succeeded", "failed", "timed_out", "cancelled"}

JobStates == {"queued", "running", "awaiting_approval"} \cup Terminal

CanTransition(from, to) ==
    \/ from \in {"queued", "awaiting_approval"} /\ to \in {"running", "cancelled"}
    \/ from = "running" /\ to \in {"awaiting_approval"} \cup Terminal

(* StartedAt and FinishedAt are kept as "has been set". *)
TransitionJob(job, to) ==
    [job EXCEPT !.state    = to,
                !.version  = @ + 1,
                !.started  = @ \/ to = "running",
                !.finished = @ \/ to \in Terminal]
=============================================================================
