-------------------------- MODULE MCWorkflowExecute -------------------------
(***************************************************************************)
(* WorkflowExecute for TLC: a workflow with three directive breakdowns,    *)
(* the second of which is a persistentdw, as in "GFS2 and Lustre with      *)
(* Containers" of int_test.go plus one more storage directive.             *)
(***************************************************************************)
EXTENDS WorkflowExecute

MCPersistentDW == {2}
=============================================================================
