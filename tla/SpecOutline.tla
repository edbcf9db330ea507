----------------------------- MODULE SpecOutline -----------------------------
(***************************************************************************)
(* One spec of the suite and its Workflow resource, seen from afar: the     *)
(* abstract specification that WorkflowExecute implements in detail and     *)
(* SpecLifecycle implements for every one of its tests.  It is what allows  *)
(* SpecLifecycle to take the run of a workflow for one step.                *)
(*                                                                         *)
(* A spec makes its workflow, if the name is free, and from then on the     *)
(* workflow is its own.  It ends, failed or not.  It deletes the workflow   *)
(* at most once, on its way out, and only if it has not failed.             *)
(***************************************************************************)
VARIABLES
    stage,   \* "before" the workflow is made, "running", "after" the test
    wf,      \* "absent", "present" or "deleting": the Workflow resource
    failed   \* has the spec failed?

ovars == <<stage, wf, failed>>

Begin ==
    /\ stage = "before" /\ wf = "absent"
    /\ stage' = "running" /\ wf' = "present"
    /\ UNCHANGED failed

\* Preparation, or the Create, has failed, or the test is skipped.
Refuse ==
    /\ stage = "before"
    /\ stage' = "after" /\ failed' \in BOOLEAN
    /\ UNCHANGED wf

\* Deleted by the deferred teardown, which is the last thing it does.
Delete ==
    /\ stage = "running" /\ ~failed /\ wf = "present"
    /\ stage' \in {"running", "after"} /\ wf' = "deleting"
    /\ UNCHANGED failed

End ==
    /\ stage = "running"
    /\ stage' = "after" /\ failed' \in BOOLEAN
    /\ UNCHANGED wf

\* What is deferred may fail, too.
FailLate ==
    /\ stage = "after"
    /\ failed' = TRUE
    /\ UNCHANGED <<stage, wf>>

Remove ==
    /\ wf = "deleting"
    /\ wf' = "absent"
    /\ UNCHANGED <<stage, failed>>

Init == stage = "before" /\ wf \in {"absent", "present"} /\ failed = FALSE

Next == Begin \/ Refuse \/ Delete \/ End \/ FailLate \/ Remove

Spec == Init /\ [][Next]_ovars
=============================================================================
