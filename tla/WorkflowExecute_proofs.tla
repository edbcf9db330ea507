----------------------- MODULE WorkflowExecute_proofs -----------------------
(***************************************************************************)
(* Proofs about WorkflowExecute: its type invariant, its safety            *)
(* invariants, its action properties and the refinement of                 *)
(* WorkflowContract, for any number of directive breakdowns, any set of    *)
(* persistentdw directives among them, and a faulty or a healthy cluster.  *)
(***************************************************************************)
EXTENDS WorkflowExecute, TLAPS

-----------------------------------------------------------------------------
(* The inductive invariant. *)

\* The steps of the It, and among them those that have not yet advanced.
InIt       == {"computes", "servers", "get", "update", "wait", "next"}
BeforeWait == {"computes", "servers", "get", "update"}

\* The workflow has really finished all states up to k.
Reached(k) ==
    \A s \in 1 .. k : IF s = opt.expect THEN s \in erred ELSE s \in completed

\* Which flags go with which steps.
ControlInv ==
    /\ pc \in {"build", "create"} => ~own /\ ~failed /\ ~cleaning
    /\ pc \notin {"build", "create", "done"} => own
    /\ pc = "done" /\ ~failed => own
    /\ own /\ pc # "done" => wf = "present"
    /\ failed => pc \in {"deferred", "done"}
    /\ cleaning => /\ own /\ i = Teardown /\ ShouldTeardown(opt)
                   /\ pc \in {"get", "update", "wait", "delete", "done"}
    /\ pc = "delete" => cleaning
    /\ ~mixed /\ opt.expect # NoState => opt.stop = opt.expect

\* The published status of an own workflow is backed by what happened.
StatusInv ==
    own => /\ st.ready <=> st.status = "Completed"
           /\ st.status = "Completed" => st.state \in completed
           /\ st.status = "Error" => st.state \in erred

\* Where the workflow stands when the client is about to leave a state.
SettledInv ==
    /\ pc \in BeforeWait \cup {"next", "delete"} => Settled
    /\ pc = "deferred" /\ ~failed => Settled

\* The desired state runs one behind the handler, until it is advanced.
DesiredInv ==
    /\ pc \in {"wait", "next"} => desired = i
    /\ pc \in {"computes", "servers"} => i = Setup
    /\ pc \in BeforeWait /\ ~cleaning => i > Proposal /\ desired = i - 1
    /\ pc \in InIt /\ ~cleaning => i <= LastState(opt)
    /\ pc = "deferred" /\ ~failed => desired = LastState(opt)
    /\ cleaning => desired \in {LastState(opt), Teardown}

\* What has been reached.
ReachedInv ==
    /\ pc \in BeforeWait \cup {"wait"} /\ ~cleaning => Reached(i - 1)
    /\ pc = "next" => Reached(i)
    /\ pc = "deferred" /\ ~failed => Reached(LastState(opt))
    /\ cleaning /\ ~failed => Reached(LastState(opt))
    /\ pc = "done" /\ ~failed => Reached(LastState(opt))

\* How setup fills in the allocation, one breakdown after the other.
AllocInv ==
    /\ pc \in {"build", "create"} => ~computes /\ servers = {}
    /\ own /\ desired = Proposal /\ pc \in {"wait", "next", "computes"}
          => ~computes /\ servers = {}
    /\ pc = "servers" => computes /\ servers = (1 .. (br - 1)) \ PersistentDW
    /\ pc \in {"get", "update"} /\ ~cleaning
          => computes /\ servers = Breakdown \ PersistentDW
    /\ AllocatedBeforeSetup

\* What the deferred teardown leaves.
OutcomeInv ==
    /\ pc = "delete" =>
          /\ desired = Teardown
          /\ Teardown \in (IF opt.expect = Teardown THEN erred ELSE completed)
    /\ PassedLeavesWhatWasAsked

IInv == /\ TypeOK /\ ControlInv /\ StatusInv /\ SettledInv /\ DesiredInv
        /\ ReachedInv /\ AllocInv /\ OutcomeInv

-----------------------------------------------------------------------------
(* Every step preserves the invariant, conjunct by conjunct. *)

USE BreakdownsAssumption
USE DEF NoState, Proposal, Setup, DataIn, PreRun, PostRun, DataOut, Teardown,
        State

\* What the controller publishes is a status.
LEMMA StatusValues ==
  ASSUME NEW s \in State \cup {NoState}
  PROVE  Working(s) \in Status /\ Completed(s) \in Status /\ Errored(s) \in Status
BY DEF Working, Completed, Errored, Status

\* Every step keeps the types: the loop of Execute ends with Teardown at the
\* latest, and the breakdown loop with the last breakdown.
LEMMA TypeStep ==
  ASSUME IInv, [ExecuteNext]_vars
  PROVE  TypeOK'
<1> USE DEF IInv, TypeOK, Breakdown, vars, test, flags, alloc, ctl,
       ctlFrame
<1>1. CASE CallStopAfter
  BY <1>1 DEF CallStopAfter, StopAfter
<1>2. CASE CallExpectError
  <2>1. opt' \in [expect : State \cup {NoState}, stop : State \cup {NoState}]
    BY <1>2 DEF CallExpectError, ExpectError
  <2>2. UNCHANGED <<faulty, wf, desired, ctl, flags, alloc, pc, i, br, fresh>>
        /\ mixed' = FALSE
    BY <1>2 DEF CallExpectError
  <2> QED
    BY <2>1, <2>2
<1>3. CASE Start
  BY <1>3 DEF Start
<1>4. CASE CreateWorkflow
  BY <1>4, StatusValues DEF CreateWorkflow, Create, Handler
<1>5. CASE CreateFails
  BY <1>5 DEF CreateFails
<1>6. CASE AssignComputes
  BY <1>6 DEF AssignComputes
<1>7. CASE AssignServers
  BY <1>7 DEF AssignServers, NeedsServers
<1>8. CASE ServersAssigned
  BY <1>8 DEF ServersAssigned
<1>9. CASE AdvanceGet
  BY <1>9 DEF AdvanceGet
<1>10. CASE AdvanceUpdate
  BY <1>10 DEF AdvanceUpdate
<1>11. CASE AdvanceConflict
  BY <1>11 DEF AdvanceConflict
<1>12. CASE Poll
  BY <1>12 DEF Poll, Achieved, waitForReady, waitForError
<1>13. CASE NextHandler
  BY <1>13 DEF NextHandler, Handler, LastState, ControlInv, DesiredInv, InIt
<1>14. CASE AssertionFails
  BY <1>14 DEF AssertionFails, SpecFails
<1>15. CASE TimesOut
  BY <1>15 DEF TimesOut, SpecFails
<1>16. CASE TeardownStarts
  BY <1>16 DEF TeardownStarts
<1>17. CASE TeardownSkipped
  BY <1>17 DEF TeardownSkipped
<1>18. CASE DeleteWorkflow
  BY <1>18 DEF DeleteWorkflow
<1>19. CASE ControllerAccepts
  <2>1. st' \in Status /\ fresh' \in BOOLEAN
    BY <1>19, StatusValues DEF ControllerAccepts
  <2>2. UNCHANGED <<wf, erred, brReady, completed, ctlFrame>>
    BY <1>19 DEF ControllerAccepts
  <2> QED
    BY <2>1, <2>2
<1>20. CASE DriverReports
  <2>1. UNCHANGED <<wf, ctl, ctlFrame>> /\ fresh' \in BOOLEAN
    BY <1>20 DEF DriverReports
  <2> QED
    BY <2>1
<1>21. CASE DriversComplete
  <2>1. st' \in Status /\ fresh' \in BOOLEAN
    BY <1>21, StatusValues DEF DriversComplete
  <2>2. completed' = completed \cup {desired} /\ UNCHANGED <<wf, erred, brReady, ctlFrame>>
    BY <1>21 DEF DriversComplete
  <2> QED
    BY <2>1, <2>2
<1>22. CASE DriverErrs
  <2>1. st' \in Status /\ fresh' \in BOOLEAN
    BY <1>22, StatusValues DEF DriverErrs
  <2>2. erred' = erred \cup {desired} /\ UNCHANGED <<wf, brReady, completed, ctlFrame>>
    BY <1>22 DEF DriverErrs
  <2> QED
    BY <2>1, <2>2
<1>23. CASE DriverRecovers
  <2>1. st' \in Status /\ fresh' \in BOOLEAN
    BY <1>23, StatusValues DEF DriverRecovers
  <2>2. UNCHANGED <<wf, erred, brReady, completed, ctlFrame>>
    BY <1>23 DEF DriverRecovers
  <2> QED
    BY <2>1, <2>2
<1>24. CASE BreakdownReady
  BY <1>24 DEF BreakdownReady
<1>25. CASE WorkflowGone
  BY <1>25 DEF WorkflowGone, Remove
<1>26. CASE UNCHANGED vars
  BY <1>26
<1> QED
  BY <1>1, <1>2, <1>3, <1>4, <1>5, <1>6, <1>7, <1>8, <1>9, <1>10, <1>11,
       <1>12, <1>13, <1>14, <1>15, <1>16, <1>17, <1>18, <1>19, <1>20, <1>21,
       <1>22, <1>23, <1>24, <1>25, <1>26
  DEF ExecuteNext, Build, Client, Controller, Disturbance

\* Every step keeps the flags and the steps of the client in accord.
LEMMA ControlStep ==
  ASSUME IInv, [ExecuteNext]_vars
  PROVE  ControlInv'
<1> USE DEF IInv, TypeOK, ControlInv, ShouldTeardown, vars, test, flags,
       alloc, ctl, ctlFrame
<1>1. CASE CallStopAfter
  BY <1>1 DEF CallStopAfter, StopAfter
<1>2. CASE CallExpectError
  BY <1>2 DEF CallExpectError, ExpectError
<1>3. CASE Start
  BY <1>3 DEF Start
<1>4. CASE CreateWorkflow
  BY <1>4 DEF CreateWorkflow, Create, Handler, Working
<1>5. CASE CreateFails
  BY <1>5 DEF CreateFails
<1>6. CASE AssignComputes
  BY <1>6 DEF AssignComputes
<1>7. CASE AssignServers
  BY <1>7 DEF AssignServers, NeedsServers, Breakdown
<1>8. CASE ServersAssigned
  BY <1>8 DEF ServersAssigned
<1>9. CASE AdvanceGet
  BY <1>9 DEF AdvanceGet
<1>10. CASE AdvanceUpdate
  BY <1>10 DEF AdvanceUpdate
<1>11. CASE AdvanceConflict
  BY <1>11 DEF AdvanceConflict
<1>12. CASE Poll
  BY <1>12 DEF Poll, Achieved, waitForReady, waitForError
<1>13. CASE NextHandler
  BY <1>13 DEF NextHandler, Handler, LastState
<1>14. CASE AssertionFails
  BY <1>14 DEF AssertionFails, SpecFails
<1>15. CASE TimesOut
  BY <1>15 DEF TimesOut, SpecFails
<1>16. CASE TeardownStarts
  BY <1>16 DEF TeardownStarts
<1>17. CASE TeardownSkipped
  BY <1>17 DEF TeardownSkipped
<1>18. CASE DeleteWorkflow
  BY <1>18 DEF DeleteWorkflow
<1>19. CASE ControllerAccepts
  BY <1>19 DEF ControllerAccepts, Working
<1>20. CASE DriverReports
  <2>1. UNCHANGED <<wf, ctl, ctlFrame>> /\ fresh' \in BOOLEAN
    BY <1>20 DEF DriverReports
  <2> QED
    BY <2>1
<1>21. CASE DriversComplete
  BY <1>21 DEF DriversComplete, Working, Completed
<1>22. CASE DriverErrs
  BY <1>22 DEF DriverErrs, Working, Errored
<1>23. CASE DriverRecovers
  BY <1>23 DEF DriverRecovers, Working, Errored
<1>24. CASE BreakdownReady
  BY <1>24 DEF BreakdownReady, Breakdown
<1>25. CASE WorkflowGone
  BY <1>25 DEF WorkflowGone, Remove
<1>26. CASE UNCHANGED vars
  BY <1>26
<1> QED
  BY <1>1, <1>2, <1>3, <1>4, <1>5, <1>6, <1>7, <1>8, <1>9, <1>10, <1>11,
       <1>12, <1>13, <1>14, <1>15, <1>16, <1>17, <1>18, <1>19, <1>20, <1>21,
       <1>22, <1>23, <1>24, <1>25, <1>26
  DEF ExecuteNext, Build, Client, Controller, Disturbance

\* What the controller publishes is recorded.
LEMMA StatusStep ==
  ASSUME IInv, [ExecuteNext]_vars
  PROVE  StatusInv'
<1> USE DEF IInv, TypeOK, Status, ControlInv, StatusInv, vars, test, flags,
       alloc, ctl, ctlFrame
<1>1. CASE CallStopAfter
  BY <1>1 DEF CallStopAfter, StopAfter
<1>2. CASE CallExpectError
  BY <1>2 DEF CallExpectError, ExpectError
<1>3. CASE Start
  BY <1>3 DEF Start
<1>4. CASE CreateWorkflow
  BY <1>4 DEF CreateWorkflow, Create, Handler, Working
<1>5. CASE CreateFails
  BY <1>5 DEF CreateFails
<1>6. CASE AssignComputes
  BY <1>6 DEF AssignComputes
<1>7. CASE AssignServers
  BY <1>7 DEF AssignServers, NeedsServers, Breakdown
<1>8. CASE ServersAssigned
  BY <1>8 DEF ServersAssigned
<1>9. CASE AdvanceGet
  BY <1>9 DEF AdvanceGet
<1>10. CASE AdvanceUpdate
  BY <1>10 DEF AdvanceUpdate
<1>11. CASE AdvanceConflict
  BY <1>11 DEF AdvanceConflict
<1>12. CASE Poll
  BY <1>12 DEF Poll, Achieved, waitForReady, waitForError
<1>13. CASE NextHandler
  BY <1>13 DEF NextHandler, Handler, LastState
<1>14. CASE AssertionFails
  BY <1>14 DEF AssertionFails, SpecFails
<1>15. CASE TimesOut
  BY <1>15 DEF TimesOut, SpecFails
<1>16. CASE TeardownStarts
  BY <1>16 DEF TeardownStarts
<1>17. CASE TeardownSkipped
  BY <1>17 DEF TeardownSkipped
<1>18. CASE DeleteWorkflow
  BY <1>18 DEF DeleteWorkflow
<1>19. CASE ControllerAccepts
  BY <1>19 DEF ControllerAccepts, Working
<1>20. CASE DriverReports
  <2>1. UNCHANGED <<wf, ctl, ctlFrame>> /\ fresh' \in BOOLEAN
    BY <1>20 DEF DriverReports
  <2> QED
    BY <2>1
<1>21. CASE DriversComplete
  BY <1>21 DEF DriversComplete, Working, Completed
<1>22. CASE DriverErrs
  BY <1>22 DEF DriverErrs, Working, Errored
<1>23. CASE DriverRecovers
  BY <1>23 DEF DriverRecovers, Working, Errored
<1>24. CASE BreakdownReady
  BY <1>24 DEF BreakdownReady, Breakdown
<1>25. CASE WorkflowGone
  BY <1>25 DEF WorkflowGone, Remove
<1>26. CASE UNCHANGED vars
  BY <1>26
<1> QED
  BY <1>1, <1>2, <1>3, <1>4, <1>5, <1>6, <1>7, <1>8, <1>9, <1>10, <1>11,
       <1>12, <1>13, <1>14, <1>15, <1>16, <1>17, <1>18, <1>19, <1>20, <1>21,
       <1>22, <1>23, <1>24, <1>25, <1>26
  DEF ExecuteNext, Build, Client, Controller, Disturbance

\* The client leaves a state only when the controller is through with it.
LEMMA SettledStep ==
  ASSUME IInv, [ExecuteNext]_vars
  PROVE  SettledInv'
<1> USE DEF IInv, TypeOK, Status, ControlInv, StatusInv, SettledInv,
       DesiredInv, BeforeWait, Settled, Completed, vars, test, flags, alloc,
       ctl, ctlFrame
<1>1. CASE CallStopAfter
  BY <1>1 DEF CallStopAfter, StopAfter
<1>2. CASE CallExpectError
  BY <1>2 DEF CallExpectError, ExpectError
<1>3. CASE Start
  BY <1>3 DEF Start
<1>4. CASE CreateWorkflow
  BY <1>4 DEF CreateWorkflow, Create, Handler, Working
<1>5. CASE CreateFails
  BY <1>5 DEF CreateFails
<1>6. CASE AssignComputes
  BY <1>6 DEF AssignComputes
<1>7. CASE AssignServers
  BY <1>7 DEF AssignServers, NeedsServers, Breakdown
<1>8. CASE ServersAssigned
  BY <1>8 DEF ServersAssigned
<1>9. CASE AdvanceGet
  BY <1>9 DEF AdvanceGet
<1>10. CASE AdvanceUpdate
  BY <1>10 DEF AdvanceUpdate
<1>11. CASE AdvanceConflict
  BY <1>11 DEF AdvanceConflict
<1>12. CASE Poll
  BY <1>12 DEF Poll, Achieved, waitForReady, waitForError
<1>13. CASE NextHandler
  BY <1>13 DEF NextHandler, Handler, LastState
<1>14. CASE AssertionFails
  BY <1>14 DEF AssertionFails, SpecFails
<1>15. CASE TimesOut
  BY <1>15 DEF TimesOut, SpecFails
<1>16. CASE TeardownStarts
  BY <1>16 DEF TeardownStarts
<1>17. CASE TeardownSkipped
  BY <1>17 DEF TeardownSkipped
<1>18. CASE DeleteWorkflow
  BY <1>18 DEF DeleteWorkflow
<1>19. CASE ControllerAccepts
  BY <1>19 DEF ControllerAccepts, Working
<1>20. CASE DriverReports
  <2>1. UNCHANGED <<wf, ctl, ctlFrame>> /\ fresh' \in BOOLEAN
    BY <1>20 DEF DriverReports
  <2> QED
    BY <2>1
<1>21. CASE DriversComplete
  BY <1>21 DEF DriversComplete, Working
<1>22. CASE DriverErrs
  BY <1>22 DEF DriverErrs, Working, Errored
<1>23. CASE DriverRecovers
  BY <1>23 DEF DriverRecovers, Working, Errored
<1>24. CASE BreakdownReady
  BY <1>24 DEF BreakdownReady, Breakdown
<1>25. CASE WorkflowGone
  BY <1>25 DEF WorkflowGone, Remove
<1>26. CASE UNCHANGED vars
  BY <1>26
<1> QED
  BY <1>1, <1>2, <1>3, <1>4, <1>5, <1>6, <1>7, <1>8, <1>9, <1>10, <1>11,
       <1>12, <1>13, <1>14, <1>15, <1>16, <1>17, <1>18, <1>19, <1>20, <1>21,
       <1>22, <1>23, <1>24, <1>25, <1>26
  DEF ExecuteNext, Build, Client, Controller, Disturbance

\* The desired state follows the handlers.
LEMMA DesiredStep ==
  ASSUME IInv, [ExecuteNext]_vars
  PROVE  DesiredInv'
<1> USE DEF IInv, TypeOK, ControlInv, DesiredInv, BeforeWait, InIt, LastState,
       vars, test, flags, alloc, ctl, ctlFrame
<1>1. CASE CallStopAfter
  BY <1>1 DEF CallStopAfter, StopAfter
<1>2. CASE CallExpectError
  BY <1>2 DEF CallExpectError, ExpectError
<1>3. CASE Start
  BY <1>3 DEF Start
<1>4. CASE CreateWorkflow
  BY <1>4 DEF CreateWorkflow, Create, Handler, Working
<1>5. CASE CreateFails
  BY <1>5 DEF CreateFails
<1>6. CASE AssignComputes
  BY <1>6 DEF AssignComputes
<1>7. CASE AssignServers
  BY <1>7 DEF AssignServers, NeedsServers, Breakdown
<1>8. CASE ServersAssigned
  BY <1>8 DEF ServersAssigned
<1>9. CASE AdvanceGet
  BY <1>9 DEF AdvanceGet
<1>10. CASE AdvanceUpdate
  BY <1>10 DEF AdvanceUpdate
<1>11. CASE AdvanceConflict
  BY <1>11 DEF AdvanceConflict
<1>12. CASE Poll
  BY <1>12 DEF Poll, Achieved, waitForReady, waitForError
<1>13. CASE NextHandler
  BY <1>13 DEF NextHandler, Handler
<1>14. CASE AssertionFails
  BY <1>14 DEF AssertionFails, SpecFails
<1>15. CASE TimesOut
  BY <1>15 DEF TimesOut, SpecFails
<1>16. CASE TeardownStarts
  BY <1>16 DEF TeardownStarts
<1>17. CASE TeardownSkipped
  BY <1>17 DEF TeardownSkipped
<1>18. CASE DeleteWorkflow
  BY <1>18 DEF DeleteWorkflow
<1>19. CASE ControllerAccepts
  BY <1>19 DEF ControllerAccepts, Working
<1>20. CASE DriverReports
  <2>1. UNCHANGED <<wf, ctl, ctlFrame>> /\ fresh' \in BOOLEAN
    BY <1>20 DEF DriverReports
  <2> QED
    BY <2>1
<1>21. CASE DriversComplete
  BY <1>21 DEF DriversComplete, Working, Completed
<1>22. CASE DriverErrs
  BY <1>22 DEF DriverErrs, Working, Errored
<1>23. CASE DriverRecovers
  BY <1>23 DEF DriverRecovers, Working, Errored
<1>24. CASE BreakdownReady
  BY <1>24 DEF BreakdownReady, Breakdown
<1>25. CASE WorkflowGone
  BY <1>25 DEF WorkflowGone, Remove
<1>26. CASE UNCHANGED vars
  BY <1>26
<1> QED
  BY <1>1, <1>2, <1>3, <1>4, <1>5, <1>6, <1>7, <1>8, <1>9, <1>10, <1>11,
       <1>12, <1>13, <1>14, <1>15, <1>16, <1>17, <1>18, <1>19, <1>20, <1>21,
       <1>22, <1>23, <1>24, <1>25, <1>26
  DEF ExecuteNext, Build, Client, Controller, Disturbance

\* What has been reached stays reached, and every handler adds its state.
LEMMA ReachedStep ==
  ASSUME IInv, [ExecuteNext]_vars
  PROVE  ReachedInv'
<1> USE DEF IInv, TypeOK, ControlInv, StatusInv, DesiredInv, ReachedInv,
       BeforeWait, InIt, LastState, Reached, vars, test, flags, alloc, ctl,
       ctlFrame
<1>1. CASE CallStopAfter
  BY <1>1 DEF CallStopAfter, StopAfter
<1>2. CASE CallExpectError
  BY <1>2 DEF CallExpectError, ExpectError
<1>3. CASE Start
  BY <1>3 DEF Start
<1>4. CASE CreateWorkflow
  BY <1>4 DEF CreateWorkflow, Create, Handler, Working
<1>5. CASE CreateFails
  BY <1>5 DEF CreateFails
<1>6. CASE AssignComputes
  BY <1>6 DEF AssignComputes
<1>7. CASE AssignServers
  BY <1>7 DEF AssignServers, NeedsServers, Breakdown
<1>8. CASE ServersAssigned
  BY <1>8 DEF ServersAssigned
<1>9. CASE AdvanceGet
  BY <1>9 DEF AdvanceGet
<1>10. CASE AdvanceUpdate
  BY <1>10 DEF AdvanceUpdate
<1>11. CASE AdvanceConflict
  BY <1>11 DEF AdvanceConflict
<1>12. CASE Poll
  BY <1>12 DEF Poll, Achieved, waitForReady, waitForError
<1>13. CASE NextHandler
  BY <1>13 DEF NextHandler, Handler
<1>14. CASE AssertionFails
  BY <1>14 DEF AssertionFails, SpecFails
<1>15. CASE TimesOut
  BY <1>15 DEF TimesOut, SpecFails
<1>16. CASE TeardownStarts
  BY <1>16 DEF TeardownStarts
<1>17. CASE TeardownSkipped
  BY <1>17 DEF TeardownSkipped
<1>18. CASE DeleteWorkflow
  BY <1>18 DEF DeleteWorkflow
<1>19. CASE ControllerAccepts
  BY <1>19 DEF ControllerAccepts, Working
<1>20. CASE DriverReports
  <2>1. UNCHANGED <<wf, ctl, ctlFrame>> /\ fresh' \in BOOLEAN
    BY <1>20 DEF DriverReports
  <2> QED
    BY <2>1
<1>21. CASE DriversComplete
  BY <1>21 DEF DriversComplete, Working, Completed
<1>22. CASE DriverErrs
  BY <1>22 DEF DriverErrs, Working, Errored
<1>23. CASE DriverRecovers
  BY <1>23 DEF DriverRecovers, Working, Errored
<1>24. CASE BreakdownReady
  BY <1>24 DEF BreakdownReady, Breakdown
<1>25. CASE WorkflowGone
  BY <1>25 DEF WorkflowGone, Remove
<1>26. CASE UNCHANGED vars
  BY <1>26
<1> QED
  BY <1>1, <1>2, <1>3, <1>4, <1>5, <1>6, <1>7, <1>8, <1>9, <1>10, <1>11,
       <1>12, <1>13, <1>14, <1>15, <1>16, <1>17, <1>18, <1>19, <1>20, <1>21,
       <1>22, <1>23, <1>24, <1>25, <1>26
  DEF ExecuteNext, Build, Client, Controller, Disturbance

\* setup fills in what it must before it advances.
LEMMA AllocStep ==
  ASSUME IInv, [ExecuteNext]_vars
  PROVE  AllocInv'
<1> USE DEF IInv, TypeOK, ControlInv, DesiredInv, AllocInv,
       AllocatedBeforeSetup, BeforeWait, InIt, Breakdown, vars, test, flags,
       alloc, ctl, ctlFrame
<1>1. CASE CallStopAfter
  BY <1>1 DEF CallStopAfter, StopAfter
<1>2. CASE CallExpectError
  BY <1>2 DEF CallExpectError, ExpectError
<1>3. CASE Start
  BY <1>3 DEF Start
<1>4. CASE CreateWorkflow
  BY <1>4 DEF CreateWorkflow, Create, Handler, Working
<1>5. CASE CreateFails
  BY <1>5 DEF CreateFails
<1>6. CASE AssignComputes
  BY <1>6 DEF AssignComputes
<1>7. CASE AssignServers
  BY <1>7 DEF AssignServers, NeedsServers
<1>8. CASE ServersAssigned
  BY <1>8 DEF ServersAssigned
<1>9. CASE AdvanceGet
  BY <1>9 DEF AdvanceGet
<1>10. CASE AdvanceUpdate
  BY <1>10 DEF AdvanceUpdate
<1>11. CASE AdvanceConflict
  BY <1>11 DEF AdvanceConflict
<1>12. CASE Poll
  BY <1>12 DEF Poll, Achieved, waitForReady, waitForError
<1>13. CASE NextHandler
  BY <1>13 DEF NextHandler, Handler, LastState
<1>14. CASE AssertionFails
  BY <1>14 DEF AssertionFails, SpecFails
<1>15. CASE TimesOut
  BY <1>15 DEF TimesOut, SpecFails
<1>16. CASE TeardownStarts
  BY <1>16 DEF TeardownStarts
<1>17. CASE TeardownSkipped
  BY <1>17 DEF TeardownSkipped
<1>18. CASE DeleteWorkflow
  BY <1>18 DEF DeleteWorkflow
<1>19. CASE ControllerAccepts
  BY <1>19 DEF ControllerAccepts, Working
<1>20. CASE DriverReports
  <2>1. UNCHANGED <<wf, ctl, ctlFrame>> /\ fresh' \in BOOLEAN
    BY <1>20 DEF DriverReports
  <2> QED
    BY <2>1
<1>21. CASE DriversComplete
  BY <1>21 DEF DriversComplete, Working, Completed
<1>22. CASE DriverErrs
  BY <1>22 DEF DriverErrs, Working, Errored
<1>23. CASE DriverRecovers
  BY <1>23 DEF DriverRecovers, Working, Errored
<1>24. CASE BreakdownReady
  BY <1>24 DEF BreakdownReady
<1>25. CASE WorkflowGone
  BY <1>25 DEF WorkflowGone, Remove
<1>26. CASE UNCHANGED vars
  BY <1>26
<1> QED
  BY <1>1, <1>2, <1>3, <1>4, <1>5, <1>6, <1>7, <1>8, <1>9, <1>10, <1>11,
       <1>12, <1>13, <1>14, <1>15, <1>16, <1>17, <1>18, <1>19, <1>20, <1>21,
       <1>22, <1>23, <1>24, <1>25, <1>26
  DEF ExecuteNext, Build, Client, Controller, Disturbance

\* The deferred teardown leaves what was asked for.
LEMMA OutcomeStep ==
  ASSUME IInv, [ExecuteNext]_vars
  PROVE  OutcomeInv'
<1> USE DEF IInv, TypeOK, ControlInv, StatusInv, DesiredInv, OutcomeInv,
       PassedLeavesWhatWasAsked, Passed, LastState, ShouldTeardown, vars,
       test, flags, alloc, ctl, ctlFrame
<1>1. CASE CallStopAfter
  BY <1>1 DEF CallStopAfter, StopAfter
<1>2. CASE CallExpectError
  BY <1>2 DEF CallExpectError, ExpectError
<1>3. CASE Start
  BY <1>3 DEF Start
<1>4. CASE CreateWorkflow
  BY <1>4 DEF CreateWorkflow, Create, Handler, Working
<1>5. CASE CreateFails
  BY <1>5 DEF CreateFails
<1>6. CASE AssignComputes
  BY <1>6 DEF AssignComputes
<1>7. CASE AssignServers
  BY <1>7 DEF AssignServers, NeedsServers, Breakdown
<1>8. CASE ServersAssigned
  BY <1>8 DEF ServersAssigned
<1>9. CASE AdvanceGet
  BY <1>9 DEF AdvanceGet
<1>10. CASE AdvanceUpdate
  BY <1>10 DEF AdvanceUpdate
<1>11. CASE AdvanceConflict
  BY <1>11 DEF AdvanceConflict
<1>12. CASE Poll
  BY <1>12 DEF Poll, Achieved, waitForReady, waitForError
<1>13. CASE NextHandler
  BY <1>13 DEF NextHandler, Handler
<1>14. CASE AssertionFails
  BY <1>14 DEF AssertionFails, SpecFails
<1>15. CASE TimesOut
  BY <1>15 DEF TimesOut, SpecFails
<1>16. CASE TeardownStarts
  BY <1>16 DEF TeardownStarts
<1>17. CASE TeardownSkipped
  BY <1>17 DEF TeardownSkipped
<1>18. CASE DeleteWorkflow
  BY <1>18 DEF DeleteWorkflow
<1>19. CASE ControllerAccepts
  BY <1>19 DEF ControllerAccepts, Working
<1>20. CASE DriverReports
  <2>1. UNCHANGED <<wf, ctl, ctlFrame>> /\ fresh' \in BOOLEAN
    BY <1>20 DEF DriverReports
  <2> QED
    BY <2>1
<1>21. CASE DriversComplete
  BY <1>21 DEF DriversComplete, Working, Completed
<1>22. CASE DriverErrs
  BY <1>22 DEF DriverErrs, Working, Errored
<1>23. CASE DriverRecovers
  BY <1>23 DEF DriverRecovers, Working, Errored
<1>24. CASE BreakdownReady
  BY <1>24 DEF BreakdownReady, Breakdown
<1>25. CASE WorkflowGone
  BY <1>25 DEF WorkflowGone, Remove
<1>26. CASE UNCHANGED vars
  BY <1>26
<1> QED
  BY <1>1, <1>2, <1>3, <1>4, <1>5, <1>6, <1>7, <1>8, <1>9, <1>10, <1>11,
       <1>12, <1>13, <1>14, <1>15, <1>16, <1>17, <1>18, <1>19, <1>20, <1>21,
       <1>22, <1>23, <1>24, <1>25, <1>26
  DEF ExecuteNext, Build, Client, Controller, Disturbance

\* The invariant holds initially ...
LEMMA InvInit == ExecuteInit => IInv
<1> SUFFICES ASSUME ExecuteInit PROVE IInv
  OBVIOUS
<1> USE DEF ExecuteInit, InitiallyPresent, NoOptions
<1>1. TypeOK
  <2>1. st \in Status
    BY DEF Completed, Status
  <2>2. opt \in [expect : State \cup {NoState}, stop : State \cup {NoState}]
    OBVIOUS
  <2>3. wf \in {"absent", "present", "deleting"}
    OBVIOUS
  <2>4. br \in 1 .. (NumBreakdowns + 1) /\ i \in State
    OBVIOUS
  <2>5. /\ mixed \in BOOLEAN /\ cleaning \in BOOLEAN /\ failed \in BOOLEAN
        /\ own \in BOOLEAN /\ fresh \in BOOLEAN /\ computes \in BOOLEAN
    OBVIOUS
  <2>6. /\ erred \subseteq State /\ completed \subseteq State
        /\ servers \subseteq Breakdown /\ brReady \subseteq Breakdown
    OBVIOUS
  <2> HIDE DEF InitiallyPresent, NoOptions
  <2> QED
    BY <2>1, <2>2, <2>3, <2>4, <2>5, <2>6 DEF TypeOK
<1>2. ControlInv /\ StatusInv /\ SettledInv /\ DesiredInv /\ ReachedInv
  BY DEF ControlInv, StatusInv, SettledInv, DesiredInv, ReachedInv,
         BeforeWait, InIt, Completed
<1>3. AllocInv /\ OutcomeInv
  BY DEF AllocInv, AllocatedBeforeSetup, OutcomeInv, BeforeWait, Passed,
         PassedLeavesWhatWasAsked
<1> QED
  BY <1>1, <1>2, <1>3 DEF IInv

\* ... and always.
THEOREM Invariance == ExecuteSpec => []IInv
<1>1. IInv /\ [ExecuteNext]_vars => IInv'
  BY TypeStep, ControlStep, StatusStep, SettledStep, DesiredStep, ReachedStep,
     AllocStep, OutcomeStep DEF IInv
<1> QED
  BY InvInit, <1>1, PTL DEF ExecuteSpec

-----------------------------------------------------------------------------
(* The safety invariants of the runs. *)

\* The variables have their types.
THEOREM TypeCorrect == ExecuteSpec => []TypeOK
<1>1. IInv => TypeOK
  BY DEF IInv
<1> QED
  BY Invariance, <1>1, PTL

\* A test that passes has had its workflow finish every state it visits.
THEOREM PassIsEarned == ExecuteSpec => []PassedMeansReached
<1>1. IInv => PassedMeansReached
  BY DEF IInv, ReachedInv, Reached, PassedMeansReached, Passed
<1> QED
  BY Invariance, <1>1, PTL

\* A test that passes leaves the workflow deleted or where StopAfter asks.
THEOREM PassIsClean == ExecuteSpec => []PassedLeavesWhatWasAsked
<1>1. IInv => PassedLeavesWhatWasAsked
  BY DEF IInv, OutcomeInv
<1> QED
  BY Invariance, <1>1, PTL

\* No workflow is set up before its computes and servers are assigned.
THEOREM Allocated == ExecuteSpec => []AllocatedBeforeSetup
<1>1. IInv => AllocatedBeforeSetup
  BY DEF IInv, AllocInv
<1> QED
  BY Invariance, <1>1, PTL

-----------------------------------------------------------------------------
(* The action properties of the runs. *)

\* Only a few steps move the desired state, or create or delete the workflow.
LEMMA Movers ==
  ASSUME [ExecuteNext]_vars
  PROVE  /\ desired' = desired \/ CreateWorkflow \/ AdvanceUpdate
         /\ wf' = wf \/ CreateWorkflow \/ DeleteWorkflow \/ WorkflowGone
<1>1. CASE CreateWorkflow \/ AdvanceUpdate \/ DeleteWorkflow \/ WorkflowGone
  BY <1>1 DEF AdvanceUpdate, DeleteWorkflow, WorkflowGone, Remove
<1>2. CASE Build \/ Start \/ CreateFails
  BY <1>2 DEF Build, CallStopAfter, CallExpectError, Start, CreateFails
<1>3. CASE AssignComputes \/ AssignServers \/ ServersAssigned
  BY <1>3 DEF AssignComputes, AssignServers, ServersAssigned
<1>4. CASE AdvanceGet \/ AdvanceConflict \/ Poll \/ NextHandler
  BY <1>4 DEF AdvanceGet, AdvanceConflict, Poll, NextHandler
<1>5. CASE AssertionFails \/ TimesOut \/ TeardownStarts \/ TeardownSkipped
  BY <1>5 DEF AssertionFails, TimesOut, SpecFails, TeardownStarts,
              TeardownSkipped
<1>6. CASE ControllerAccepts \/ DriversComplete \/ DriverErrs \/ BreakdownReady
  BY <1>6 DEF ControllerAccepts, DriversComplete, DriverErrs, BreakdownReady,
              ctlFrame
<1>7. CASE Disturbance
  BY <1>7 DEF Disturbance, DriverReports, DriverRecovers, ctlFrame
<1>8. CASE UNCHANGED vars
  BY <1>8 DEF vars
<1> QED
  BY <1>1, <1>2, <1>3, <1>4, <1>5, <1>6, <1>7, <1>8
  DEF ExecuteNext, Client, Controller

\* The workflow of a failed test stays as the failure left it.
THEOREM EvidenceStays == ExecuteSpec => EvidencePreserved
<1>1. IInv /\ [ExecuteNext]_vars => [KeepsEvidence]_vars
  <2> SUFFICES ASSUME IInv, [ExecuteNext]_vars, failed PROVE KeepsEvidence
    BY DEF KeepsEvidence
  <2>1. ~CreateWorkflow /\ ~AdvanceUpdate /\ ~DeleteWorkflow
    BY DEF IInv, ControlInv, CreateWorkflow, AdvanceUpdate, DeleteWorkflow
  <2>2. WorkflowGone => wf = "deleting" /\ desired' = desired
    BY DEF WorkflowGone, Remove
  <2> QED
    BY <2>1, <2>2, Movers DEF KeepsEvidence
<1> QED
  BY Invariance, <1>1, PTL DEF ExecuteSpec, EvidencePreserved

\* A leftover workflow is left alone.
THEOREM LeftoverStays == ExecuteSpec => LeftoverUntouched
<1>1. IInv /\ [ExecuteNext]_vars => [KeepsLeftover]_vars
  <2> SUFFICES ASSUME IInv, [ExecuteNext]_vars, ~own, wf = "present"
               PROVE  KeepsLeftover
    BY DEF KeepsLeftover
  <2>1. ~CreateWorkflow /\ ~AdvanceUpdate /\ ~DeleteWorkflow /\ ~WorkflowGone
    BY DEF IInv, ControlInv, CreateWorkflow, Create, AdvanceUpdate,
           DeleteWorkflow, WorkflowGone, Remove
  <2> QED
    BY <2>1, Movers DEF KeepsLeftover
<1> QED
  BY Invariance, <1>1, PTL DEF ExecuteSpec, LeftoverUntouched

\* States are skipped only to tear down a test that expects an error.
THEOREM SkipsAreExpected == ExecuteSpec => SkipsOnlyAfterExpectedError
<1>1. IInv /\ [ExecuteNext]_vars => [SkipIsExpected]_vars
  <2> SUFFICES ASSUME IInv, [ExecuteNext]_vars, desired' > desired + 1
               PROVE  SkipIsExpected
    BY DEF SkipIsExpected
  <2>1. desired \in State /\ i \in State
    BY DEF IInv, TypeOK
  <2>2. ~CreateWorkflow
    BY <2>1 DEF CreateWorkflow, Create
  <2>3. AdvanceUpdate
    BY <2>1, <2>2, Movers
  <2>4. desired' = i /\ pc = "update"
    BY <2>3 DEF AdvanceUpdate
  <2>5. cleaning /\ ~failed
    BY <2>1, <2>4 DEF IInv, ControlInv, DesiredInv, BeforeWait
  <2>6. i = Teardown /\ opt.expect # NoState
    BY <2>1, <2>4, <2>5 DEF IInv, ControlInv, DesiredInv, LastState,
                            ShouldTeardown
  <2> QED
    BY <2>4, <2>5, <2>6 DEF SkipIsExpected
<1> QED
  BY Invariance, <1>1, PTL DEF ExecuteSpec, SkipsOnlyAfterExpectedError

\* A workflow leaves the state of its expected error for Teardown only.
THEOREM ErrorEndsTheRun == ExecuteSpec => ProceedToTeardown
<1>1. IInv /\ [ExecuteNext]_vars => [ErrorGoesToTeardown]_vars
  <2> SUFFICES ASSUME IInv, [ExecuteNext]_vars,
                      own, ~mixed, desired = opt.expect, desired' # desired
               PROVE  desired' = Teardown
    BY DEF ErrorGoesToTeardown
  <2>1. desired \in State /\ i \in State
    BY DEF IInv, TypeOK
  <2>2. ~CreateWorkflow
    BY DEF IInv, ControlInv, CreateWorkflow
  <2>3. AdvanceUpdate
    BY <2>2, Movers
  <2>4. desired' = i /\ pc = "update"
    BY <2>3 DEF AdvanceUpdate
  <2>5. cleaning
    BY <2>1, <2>4 DEF IInv, ControlInv, DesiredInv, BeforeWait, InIt, LastState
  <2> QED
    BY <2>4, <2>5 DEF IInv, ControlInv
<1> QED
  BY Invariance, <1>1, PTL DEF ExecuteSpec, ProceedToTeardown

-----------------------------------------------------------------------------
(* The refinement of WorkflowContract. *)

\* Every step of the suite or the controller is a step the contract allows,
\* or leaves the workflow alone.
LEMMA ContractStep ==
  ASSUME IInv, [ExecuteNext]_vars
  PROVE  [Next]_cvars
<1> USE DEF IInv, vars, cvars, test, flags, alloc, ctl, ctlFrame
<1>1. CASE CallStopAfter
  BY <1>1 DEF CallStopAfter
<1>2. CASE CallExpectError
  BY <1>2 DEF CallExpectError
<1>3. CASE Start
  BY <1>3 DEF Start
<1>4. CASE CreateWorkflow
  <2>1. Create
    BY <1>4 DEF CreateWorkflow
  <2> QED
    BY <2>1 DEF Next
<1>5. CASE CreateFails
  BY <1>5 DEF CreateFails
<1>6. CASE AssignComputes
  BY <1>6 DEF AssignComputes
<1>7. CASE AssignServers
  BY <1>7 DEF AssignServers
<1>8. CASE ServersAssigned
  BY <1>8 DEF ServersAssigned
<1>9. CASE AdvanceGet
  BY <1>9 DEF AdvanceGet
<1>10. CASE AdvanceUpdate
  <2> USE <1>10 DEF AdvanceUpdate
  <2>1. wf = "present" /\ Settled
    BY DEF ControlInv, SettledInv, BeforeWait
  <2>2. i = desired + 1 \/ i = Teardown
    BY DEF ControlInv, DesiredInv, BeforeWait, TypeOK
  <2>3. i \in State
    BY DEF TypeOK
  <2>4. Advance
    BY <2>1, <2>2, <2>3 DEF Advance
  <2> QED
    BY <2>4 DEF Next
<1>11. CASE AdvanceConflict
  BY <1>11 DEF AdvanceConflict
<1>12. CASE Poll
  BY <1>12 DEF Poll
<1>13. CASE NextHandler
  BY <1>13 DEF NextHandler
<1>14. CASE AssertionFails
  BY <1>14 DEF AssertionFails, SpecFails
<1>15. CASE TimesOut
  BY <1>15 DEF TimesOut, SpecFails
<1>16. CASE TeardownStarts
  BY <1>16 DEF TeardownStarts
<1>17. CASE TeardownSkipped
  BY <1>17 DEF TeardownSkipped
<1>18. CASE DeleteWorkflow
  <2>1. Delete
    BY <1>18 DEF DeleteWorkflow, Delete, ControlInv, SettledInv, OutcomeInv
  <2> QED
    BY <2>1 DEF Next
<1>19. CASE ControllerAccepts
  <2>1. Work
    BY <1>19 DEF ControllerAccepts, Work
  <2> QED
    BY <2>1 DEF Next
<1>20. CASE DriverReports
  BY <1>20 DEF DriverReports
<1>21. CASE DriversComplete
  <2>1. Work
    BY <1>21 DEF DriversComplete, Work
  <2> QED
    BY <2>1 DEF Next
<1>22. CASE DriverErrs
  <2>1. ReportError
    BY <1>22 DEF DriverErrs, ReportError
  <2> QED
    BY <2>1 DEF Next
<1>23. CASE DriverRecovers
  <2>1. Work
    BY <1>23 DEF DriverRecovers, Work
  <2> QED
    BY <2>1 DEF Next
<1>24. CASE BreakdownReady
  BY <1>24 DEF BreakdownReady
<1>25. CASE WorkflowGone
  <2>1. Remove
    BY <1>25 DEF WorkflowGone
  <2> QED
    BY <2>1 DEF Next
<1>26. CASE UNCHANGED vars
  BY <1>26
<1> QED
  BY <1>1, <1>2, <1>3, <1>4, <1>5, <1>6, <1>7, <1>8, <1>9, <1>10, <1>11,
       <1>12, <1>13, <1>14, <1>15, <1>16, <1>17, <1>18, <1>19, <1>20, <1>21,
       <1>22, <1>23, <1>24, <1>25, <1>26
  DEF ExecuteNext, Build, Client, Controller, Disturbance

\* The suite drives a workflow as its controller expects.
THEOREM Refinement == ExecuteSpec => Contract
<1>1. ExecuteInit => Init
  BY DEF ExecuteInit, Init, InitiallyPresent
<1>2. IInv /\ [ExecuteNext]_vars => [Next]_cvars
  BY ContractStep
<1> QED
  BY Invariance, <1>1, <1>2, PTL DEF ExecuteSpec, Contract, Spec

-----------------------------------------------------------------------------
(* The suite implements SpecOutline. *)

\* A spec that fails in its It, or in its teardown, was running until then.
LEMMA FailureEndsIt ==
  ASSUME ControlInv, SpecFails,
         pc \in {"computes", "servers", "get", "update", "wait", "next", "delete"}
  PROVE  Outline!End
BY DEF ControlInv, SpecFails, Outline!End, Stage

\* Every step is one of SpecOutline, or invisible in it.
LEMMA OutlineStep ==
  ASSUME IInv, [ExecuteNext]_vars
  PROVE  [Outline!Next]_(Outline!ovars)
<1> USE DEF IInv, vars, test, flags, alloc, ctl, ctlFrame, Stage, Outline!ovars
<1>1. CASE CallStopAfter
  BY <1>1 DEF CallStopAfter
<1>2. CASE CallExpectError
  BY <1>2 DEF CallExpectError
<1>3. CASE Start
  BY <1>3 DEF Start
<1>4. CASE CreateWorkflow
  <2>1. Outline!Begin
    BY <1>4 DEF CreateWorkflow, Create, Handler, ControlInv, Outline!Begin
  <2> QED
    BY <2>1 DEF Outline!Next
<1>5. CASE CreateFails
  <2>1. Outline!Refuse
    BY <1>5 DEF CreateFails, Outline!Refuse
  <2> QED
    BY <2>1 DEF Outline!Next
<1>6. CASE AssignComputes
  BY <1>6 DEF AssignComputes, ControlInv
<1>7. CASE AssignServers
  BY <1>7 DEF AssignServers, ControlInv
<1>8. CASE ServersAssigned
  BY <1>8 DEF ServersAssigned, ControlInv
<1>9. CASE AdvanceGet
  BY <1>9 DEF AdvanceGet, ControlInv
<1>10. CASE AdvanceUpdate
  BY <1>10 DEF AdvanceUpdate, ControlInv
<1>11. CASE AdvanceConflict
  BY <1>11 DEF AdvanceConflict, ControlInv
<1>12. CASE Poll
  BY <1>12 DEF Poll, ControlInv
<1>13. CASE NextHandler
  BY <1>13 DEF NextHandler, Handler, ControlInv
<1>14. CASE AssertionFails
  <2>1. Outline!End
    BY <1>14, FailureEndsIt DEF AssertionFails
  <2> QED
    BY <2>1 DEF Outline!Next
<1>15. CASE TimesOut
  <2>1. Outline!End
    BY <1>15, FailureEndsIt DEF TimesOut
  <2> QED
    BY <2>1 DEF Outline!Next
<1>16. CASE TeardownStarts
  BY <1>16 DEF TeardownStarts, ControlInv
<1>17. CASE TeardownSkipped
  <2>1. CASE failed
    BY <1>17, <2>1 DEF TeardownSkipped
  <2>2. CASE ~failed
    <3>1. Outline!End
      BY <1>17, <2>2 DEF TeardownSkipped, TypeOK, Outline!End
    <3> QED
      BY <3>1 DEF Outline!Next
  <2> QED
    BY <2>1, <2>2
<1>18. CASE DeleteWorkflow
  <2>1. Outline!Delete
    BY <1>18 DEF DeleteWorkflow, ControlInv, Outline!Delete
  <2> QED
    BY <2>1 DEF Outline!Next
<1>19. CASE ControllerAccepts
  BY <1>19 DEF ControllerAccepts
<1>20. CASE DriverReports
  BY <1>20 DEF DriverReports
<1>21. CASE DriversComplete
  BY <1>21 DEF DriversComplete
<1>22. CASE DriverErrs
  BY <1>22 DEF DriverErrs
<1>23. CASE DriverRecovers
  BY <1>23 DEF DriverRecovers
<1>24. CASE BreakdownReady
  BY <1>24 DEF BreakdownReady
<1>25. CASE WorkflowGone
  <2>1. Outline!Remove
    BY <1>25 DEF WorkflowGone, Remove, Outline!Remove
  <2> QED
    BY <2>1 DEF Outline!Next
<1>26. CASE UNCHANGED vars
  BY <1>26
<1> QED
  BY <1>1, <1>2, <1>3, <1>4, <1>5, <1>6, <1>7, <1>8, <1>9, <1>10, <1>11,
       <1>12, <1>13, <1>14, <1>15, <1>16, <1>17, <1>18, <1>19, <1>20, <1>21,
       <1>22, <1>23, <1>24, <1>25, <1>26
  DEF ExecuteNext, Build, Client, Controller, Disturbance

\* A spec makes its workflow once, never takes one over, and deletes it at most
\* once, at its end and only if it has not failed.
THEOREM OutlineRefined == ExecuteSpec => FollowsOutline
<1>1. ExecuteInit => Outline!Init
  BY DEF ExecuteInit, InitiallyPresent, Stage, Outline!Init
<1>2. IInv /\ [ExecuteNext]_vars => [Outline!Next]_(Outline!ovars)
  BY OutlineStep
<1> QED
  BY Invariance, <1>1, <1>2, PTL DEF ExecuteSpec, FollowsOutline, Outline!Spec

=============================================================================
