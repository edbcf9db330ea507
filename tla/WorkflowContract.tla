-------------------------- MODULE WorkflowContract --------------------------
(***************************************************************************)
(* What a workflow controller may rely on from whoever drives a Workflow   *)
(* resource through its states: the abstract specification implemented by  *)
(* T.Execute together with the deferred teardown of int_test.go.           *)
(*                                                                         *)
(* A workflow is created in Proposal.  Its desired state leaves a state    *)
(* only when the controller has really finished that state, or has         *)
(* reported an error in it; it then moves to the next state or to          *)
(* Teardown.  The resource is deleted only when Teardown is over.  Polling,*)
(* cached copies, conflicts, time-outs and test options are the business   *)
(* of WorkflowExecute.                                                     *)
(***************************************************************************)
EXTENDS Naturals

VARIABLES
    wf,       \* "absent", "present" or "deleting": the Workflow resource
    desired,  \* its Spec.DesiredState
    st,       \* its Status: [ready, state, status]
    erred     \* history: the states in which an error has been reported

cvars == <<wf, desired, st, erred>>

NoState  == 0
Proposal == 1
Setup    == 2
DataIn   == 3
PreRun   == 4
PostRun  == 5
DataOut  == 6
Teardown == 7

\* The states of a workflow, in the order Execute runs their handlers.
State == Proposal .. Teardown

Status == [ready  : BOOLEAN,
           state  : State \cup {NoState},
           status : {"DriverWait", "Completed", "Error"}]

Working(s)   == [ready |-> FALSE, state |-> s, status |-> "DriverWait"]
Completed(s) == [ready |-> TRUE,  state |-> s, status |-> "Completed"]
Errored(s)   == [ready |-> FALSE, state |-> s, status |-> "Error"]

\* The controller is through with the desired state, one way or the other.
Settled == st = Completed(desired) \/ desired \in erred

-----------------------------------------------------------------------------
(* Whoever drives the workflow. *)

Create ==
    /\ wf = "absent"
    /\ wf' = "present"
    /\ desired' = Proposal
    /\ st' = Working(NoState)
    /\ UNCHANGED erred

Advance ==
    /\ wf = "present"
    /\ Settled
    /\ desired' \in {desired + 1, Teardown} \cap State
    /\ UNCHANGED <<wf, st, erred>>

Delete ==
    /\ wf = "present"
    /\ desired = Teardown
    /\ Settled
    /\ wf' = "deleting"
    /\ UNCHANGED <<desired, st, erred>>

-----------------------------------------------------------------------------
(* The controller and the API server. *)

Work ==
    /\ wf # "absent"
    /\ st' \in {Working(desired), Completed(desired)}
    /\ UNCHANGED <<wf, desired, erred>>

ReportError ==
    /\ wf # "absent"
    /\ st' = Errored(desired)
    /\ erred' = erred \cup {desired}
    /\ UNCHANGED <<wf, desired>>

Remove ==
    /\ wf = "deleting"
    /\ wf' = "absent"
    /\ UNCHANGED <<desired, st, erred>>

Init ==
    /\ wf \in {"absent", "present"}
    /\ desired \in State
    /\ st = Completed(desired)
    /\ erred = {}

Next == Create \/ Advance \/ Delete \/ Work \/ ReportError \/ Remove

Spec == Init /\ [][Next]_cvars
=============================================================================
