-------------------------- MODULE WorkflowExecute --------------------------
(***************************************************************************)
(* One spec of the suite from the creation of its Workflow resource to the *)
(* end of its deferred teardown: T.Execute and its seven state handlers    *)
(* (internal/states.go), the options that steer them (internal/options.go) *)
(* and the BeforeEach / DeferCleanup pair around them (int_test.go).       *)
(*                                                                         *)
(* The other side is the API server and the workflow controller.  They are *)
(* not part of the repository and are modelled from what the code polls    *)
(* for: the controller follows Spec.DesiredState, publishes a status, and  *)
(* every write of its own makes the client's copy of the workflow stale,   *)
(* so that the client's next Update conflicts.                             *)
(***************************************************************************)
EXTENDS WorkflowContract

CONSTANTS
    NumBreakdowns,  \* Status.DirectiveBreakdowns of the workflow
    PersistentDW    \* those of a persistentdw directive: they have no Servers

ASSUME BreakdownsAssumption ==
    NumBreakdowns \in Nat /\ PersistentDW \subseteq 1 .. NumBreakdowns

VARIABLES
    faulty,     \* may calls fail, time-outs expire, drivers misbehave?  (fixed)
    opt,        \* the test's options: [expect, stop], NoState for a nil option
    mixed,      \* history: was StopAfter called after ExpectError?
    pc,         \* what the goroutine of the spec does next
    i,          \* the state whose handler runs, or that cleanup advances to
    br,         \* the directive breakdown setup looks at
    cleaning,   \* is the deferred teardown running?
    failed,     \* SpecReport.Failed()
    own,        \* history: has this spec created the workflow?
    fresh,      \* does the client's copy have the latest resource version?
    computes,   \* has the Computes resource been filled in?
    servers,    \* the breakdowns whose Servers resource has been filled in
    brReady,    \* the breakdowns that are ready
    completed   \* history: the states the controller has completed

test  == <<opt, mixed, faulty>>
flags == <<cleaning, failed, own>>
alloc == <<computes, servers>>
ctl   == <<st, erred, brReady, completed>>
vars  == <<wf, desired, ctl, test, flags, alloc, pc, i, br, fresh>>

Breakdown == 1 .. NumBreakdowns

-----------------------------------------------------------------------------
(* The options of a test. *)

NoOptions == [expect |-> NoState, stop |-> NoState]

StopAfter(o, s) == [o EXCEPT !.stop = s]

\* Bug variant: the option forgets to stop the test.
ExpectErrorNoStop(o, s) == [o EXCEPT !.expect = s]

ExpectError(o, s) == [o EXCEPT !.expect = s, !.stop = s]

\* Bug variants: the test option is not looked at, or not both are.
ShouldTeardownAlways(o) == TRUE
ShouldTeardownNoExpect(o) == o.stop = NoState

ShouldTeardown(o) == o.expect # NoState \/ o.stop = NoState

\* Bug variant: a nil StopAfter is not told from a state.
LastStateNoNil(o) == o.stop

\* The last state Execute visits.
LastState(o) == IF o.stop = NoState THEN Teardown ELSE o.stop

-----------------------------------------------------------------------------
(* The chain of builder calls that makes the test, before the suite runs. *)

CallStopAfter ==
    /\ pc = "build"
    /\ \E s \in State : opt' = StopAfter(opt, s)
    /\ mixed' = (mixed \/ opt.expect # NoState)
    /\ UNCHANGED <<faulty, wf, desired, ctl, flags, alloc, pc, i, br, fresh>>

CallExpectError ==
    /\ pc = "build"
    /\ \E s \in State : opt' = ExpectError(opt, s)
    /\ mixed' = FALSE
    /\ UNCHANGED <<faulty, wf, desired, ctl, flags, alloc, pc, i, br, fresh>>

Start ==
    /\ pc = "build"
    /\ pc' = "create"
    /\ UNCHANGED <<wf, desired, ctl, test, flags, alloc, i, br, fresh>>

-----------------------------------------------------------------------------
(* BeforeEach creates the workflow.  When that fails - a workflow of the    *)
(* name is left over from an earlier run - the teardown is not registered.  *)

\* The first step of the handler of state s.
Handler(s) ==
    CASE s = Proposal -> "wait"
      [] s = Setup    -> "computes"
      [] OTHER        -> "get"

CreateWorkflow ==
    /\ pc = "create"
    /\ Create
    /\ own' = TRUE
    /\ i' = Proposal
    /\ pc' = Handler(Proposal)
    /\ UNCHANGED <<cleaning, failed, brReady, completed, test, alloc, br, fresh>>

\* Bug variant: "already exists" is taken for success.
CreateTolerant ==
    /\ pc = "create"
    /\ wf # "absent"
    /\ pc' = "wait"
    /\ UNCHANGED <<wf, desired, ctl, test, flags, alloc, i, br, fresh>>

CreateFails ==
    /\ pc = "create"
    /\ wf # "absent" \/ faulty
    /\ failed' = TRUE
    /\ pc' = "done"
    /\ UNCHANGED <<wf, desired, ctl, test, cleaning, own, alloc, i, br, fresh>>

-----------------------------------------------------------------------------
(* What an assertion or a time-out that fails does. *)

\* An assertion fails.  In the It this leads to the deferred cleanup; in the
\* cleanup it is the end of it.
SpecFails ==
    /\ failed' = TRUE
    /\ pc' = IF cleaning THEN "done" ELSE "deferred"
    /\ UNCHANGED <<wf, desired, ctl, test, cleaning, own, alloc, i, br, fresh>>

-----------------------------------------------------------------------------
(* setup: assign the computes, then the servers of every breakdown. *)

AssignComputes ==
    /\ pc = "computes"
    /\ ~computes
    /\ computes' = TRUE
    /\ pc' = "servers"
    /\ br' = 1
    /\ UNCHANGED <<wf, desired, ctl, test, flags, servers, i, fresh>>

NeedsServers(b) == b \notin PersistentDW

AssignServers ==
    /\ pc = "servers"
    /\ br \in brReady
    /\ servers' = IF NeedsServers(br) THEN servers \cup {br} ELSE servers
    /\ br' = br + 1
    /\ UNCHANGED <<wf, desired, ctl, test, flags, computes, pc, i, fresh>>

\* Bug variant: the last breakdown is left out.
ServersAssignedEarly ==
    /\ pc = "servers"
    /\ br >= NumBreakdowns
    /\ pc' = "get"
    /\ UNCHANGED <<wf, desired, ctl, test, flags, alloc, i, br, fresh>>

ServersAssigned ==
    /\ pc = "servers"
    /\ br > NumBreakdowns
    /\ pc' = "get"
    /\ UNCHANGED <<wf, desired, ctl, test, flags, alloc, i, br, fresh>>

-----------------------------------------------------------------------------
(* AdvanceStateAndWaitForReady: Get, set the desired state, Update, and     *)
(* again when the Update conflicts; then poll until the awaited status.     *)

AdvanceGet ==
    /\ pc = "get"
    /\ wf # "absent"
    /\ fresh' = TRUE
    /\ pc' = "update"
    /\ UNCHANGED <<wf, desired, ctl, test, flags, alloc, i, br>>

AdvanceUpdate ==
    /\ pc = "update"
    /\ fresh
    /\ desired' = i
    /\ pc' = "wait"
    /\ UNCHANGED <<wf, ctl, test, flags, alloc, i, br, fresh>>

\* Bug variant: a conflict is not retried.
AdvanceConflictFails == pc = "update" /\ ~fresh /\ SpecFails

AdvanceConflict ==
    /\ pc = "update"
    /\ ~fresh
    /\ pc' = "get"
    /\ UNCHANGED <<wf, desired, ctl, test, flags, alloc, i, br, fresh>>

\* Bug variant: a status left from the state before is good enough.
waitForReadyAnyState(s) == st.ready /\ st.status = "Completed"

waitForReady(s) ==
    st.ready /\ st.state = s /\ st.status = "Completed"

waitForError(s) ==
    ~st.ready /\ st.state = s /\ st.status = "Error"

\* A handler ends, and so does the deferred teardown, with the same wait.
Achieved(s) == IF opt.expect = s THEN waitForError(s) ELSE waitForReady(s)

\* Bug variant: the deferred teardown does not wait before it deletes.
PollHasty ==
    /\ pc = "wait"
    /\ wf # "absent"
    /\ fresh' = TRUE
    /\ pc' = IF cleaning THEN "delete" ELSE IF Achieved(i) THEN "next" ELSE "wait"
    /\ UNCHANGED <<wf, desired, ctl, test, flags, alloc, i, br>>

Poll ==
    /\ pc = "wait"
    /\ wf # "absent"
    /\ fresh' = TRUE
    /\ pc' = IF ~Achieved(i) THEN "wait"
             ELSE IF cleaning THEN "delete" ELSE "next"
    /\ UNCHANGED <<wf, desired, ctl, test, flags, alloc, i, br>>

-----------------------------------------------------------------------------
(* Execute's loop, and the assertions that may end it. *)

\* The handler of i is over: stop, or run the handler of the next state.
NextHandler ==
    /\ pc = "next"
    /\ IF i = LastState(opt)
         THEN pc' = "deferred" /\ i' = i
         ELSE i' = i + 1 /\ pc' = Handler(i + 1)
    /\ UNCHANGED <<wf, desired, ctl, test, flags, alloc, br, fresh>>

\* A call that is not retried returns an error, or finds what it asserts
\* against: assigned computes, a missing workflow, a log or a copy_out file
\* that postRun or dataOut finds fault with.
AssertionFails ==
    /\ \/ pc = "computes" /\ (computes \/ faulty)
       \/ pc \in {"get", "wait"} /\ (wf = "absent" \/ faulty)
       \/ pc = "servers" /\ faulty
       \/ pc = "next" /\ i \in {PostRun, DataOut} /\ faulty
       \/ pc = "delete" /\ faulty
    /\ SpecFails

\* Bug variant: only the wait for a breakdown has a time-out.
TimesOutSometimes == pc = "servers" /\ faulty /\ SpecFails

\* An Eventually expires: the breakdown is not ready, the Updates conflict,
\* or the workflow does not get to the awaited status.
TimesOut ==
    /\ pc \in {"servers", "get", "update", "wait"}
    /\ faulty
    /\ SpecFails

-----------------------------------------------------------------------------
(* The deferred teardown of int_test.go. *)

\* Bug variant: failed tests are torn down, too.
TeardownStartsFailed ==
    /\ pc = "deferred"
    /\ ShouldTeardown(opt)
    /\ cleaning' = TRUE
    /\ i' = Teardown
    /\ pc' = "get"
    /\ UNCHANGED <<wf, desired, ctl, test, failed, own, alloc, br, fresh>>

TeardownStarts ==
    /\ pc = "deferred"
    /\ ShouldTeardown(opt)
    /\ ~failed
    /\ cleaning' = TRUE
    /\ i' = Teardown
    /\ pc' = "get"
    /\ UNCHANGED <<wf, desired, ctl, test, failed, own, alloc, br, fresh>>

TeardownSkipped ==
    /\ pc = "deferred"
    /\ ~ShouldTeardown(opt) \/ failed
    /\ pc' = "done"
    /\ UNCHANGED <<wf, desired, ctl, test, flags, alloc, i, br, fresh>>

DeleteWorkflow ==
    /\ pc = "delete"
    /\ wf' = "deleting"
    /\ pc' = "done"
    /\ UNCHANGED <<desired, ctl, test, flags, alloc, i, br, fresh>>

-----------------------------------------------------------------------------
(* The controller, its drivers and the API server (external). *)

ctlFrame == <<desired, test, flags, alloc, pc, i, br>>

\* What a test expects of the drivers: an error in the state it names and
\* completion of all others.  Drivers that misbehave do either anywhere.
MayComplete(s) == faulty \/ opt.expect # s
MayError(s)    == faulty \/ opt.expect = s

\* The controller takes up a new desired state.
ControllerAccepts ==
    /\ wf # "absent"
    /\ st.state # desired
    /\ st' = Working(desired)
    /\ fresh' = FALSE
    /\ UNCHANGED <<wf, erred, brReady, completed, ctlFrame>>

\* A write that leaves the status as it is and moves the resource version: a
\* driver reports progress, or the controller tidies up a finished state.
DriverReports ==
    /\ wf # "absent"
    /\ fresh' = FALSE
    /\ UNCHANGED <<wf, ctl, ctlFrame>>

DriversComplete ==
    /\ wf # "absent"
    /\ st = Working(desired)
    /\ MayComplete(desired)
    /\ st' = Completed(desired)
    /\ completed' = completed \cup {desired}
    /\ fresh' = FALSE
    /\ UNCHANGED <<wf, erred, brReady, ctlFrame>>

DriverErrs ==
    /\ wf # "absent"
    /\ st = Working(desired)
    /\ MayError(desired)
    /\ st' = Errored(desired)
    /\ erred' = erred \cup {desired}
    /\ fresh' = FALSE
    /\ UNCHANGED <<wf, brReady, completed, ctlFrame>>

\* A driver gets over an error: the code polls on, it does not give up.
DriverRecovers ==
    /\ faulty
    /\ wf # "absent"
    /\ st = Errored(desired)
    /\ st' = Working(desired)
    /\ fresh' = FALSE
    /\ UNCHANGED <<wf, erred, brReady, completed, ctlFrame>>

BreakdownReady ==
    /\ wf # "absent"
    /\ \E b \in Breakdown \ brReady : brReady' = brReady \cup {b}
    /\ UNCHANGED <<wf, st, erred, completed, fresh, ctlFrame>>

WorkflowGone ==
    /\ Remove
    /\ UNCHANGED <<brReady, completed, fresh, test, flags, alloc, pc, i, br>>

-----------------------------------------------------------------------------
\* A workflow may be left over from an earlier run: a failed test and one with
\* StopAfter are not torn down.
InitiallyPresent == IF faulty THEN {"absent", "present"} ELSE {"absent"}

ExecuteInit ==
    /\ faulty \in BOOLEAN
    /\ wf \in InitiallyPresent
    /\ desired \in State
    /\ st = Completed(desired)
    /\ erred = {} /\ completed = {} /\ brReady = {}
    /\ opt = NoOptions /\ mixed = FALSE
    /\ pc = "build" /\ i = Proposal /\ br = 1
    /\ cleaning = FALSE /\ failed = FALSE /\ own = FALSE
    /\ fresh = TRUE
    /\ computes = FALSE /\ servers = {}

Build == CallStopAfter \/ CallExpectError

Client ==
    \/ Start \/ CreateWorkflow \/ CreateFails
    \/ AssignComputes \/ AssignServers \/ ServersAssigned
    \/ AdvanceGet \/ AdvanceUpdate \/ AdvanceConflict \/ Poll
    \/ NextHandler \/ AssertionFails
    \/ TeardownStarts \/ TeardownSkipped \/ DeleteWorkflow

Controller ==
    \/ ControllerAccepts \/ DriversComplete \/ DriverErrs
    \/ BreakdownReady \/ WorkflowGone

Disturbance == DriverReports \/ DriverRecovers

ExecuteNext == Build \/ Client \/ TimesOut \/ Controller \/ Disturbance

\* The goroutine of a spec keeps running, every Eventually has a time-out, and
\* the controller keeps working.  Drivers need not report or recover.
Fairness ==
    /\ WF_vars(Start) /\ WF_vars(Client) /\ WF_vars(TimesOut)
    /\ WF_vars(Controller)

ExecuteSpec == ExecuteInit /\ [][ExecuteNext]_vars

FairExecuteSpec == ExecuteSpec /\ Fairness

-----------------------------------------------------------------------------
(* Type correctness. *)

\* Every variable has its type: options and states are workflow states, the
\* allocation sets range over the breakdowns of the workflow.
TypeOK ==
    /\ wf \in {"absent", "present", "deleting"}
    /\ desired \in State
    /\ st \in Status
    /\ erred \subseteq State /\ completed \subseteq State
    /\ opt \in [expect : State \cup {NoState}, stop : State \cup {NoState}]
    /\ pc \in {"build", "create", "computes", "servers", "get", "update",
              "wait", "next", "deferred", "delete", "done"}
    /\ i \in State
    /\ br \in 1 .. (NumBreakdowns + 1)
    /\ mixed \in BOOLEAN /\ cleaning \in BOOLEAN /\ failed \in BOOLEAN
    /\ faulty \in BOOLEAN /\ own \in BOOLEAN /\ fresh \in BOOLEAN /\ computes \in BOOLEAN
    /\ servers \subseteq Breakdown /\ brReady \subseteq Breakdown

-----------------------------------------------------------------------------
(* Safety. *)

Passed == pc = "done" /\ ~failed

\* A test that passes has really had its workflow finish every state up to the
\* last one Execute visits: the controller completed it, or reported the error
\* the test expects there.  No status left from an earlier state, and no
\* error the controller got over, is taken for it (states.go waitForReady and
\* waitForError, Execute's loop).
PassedMeansReached ==
    Passed => \A s \in 1 .. LastState(opt) :
                 IF s = opt.expect THEN s \in erred ELSE s \in completed

\* How a test that passes leaves the cluster: torn down completely and its
\* workflow deleted, unless StopAfter asks for the workflow to be kept in the
\* state named (int_test.go DeferCleanup, ShouldTeardown).
PassedLeavesWhatWasAsked ==
    Passed =>
        IF opt.expect = NoState /\ opt.stop # NoState
          THEN wf = "present" /\ desired = opt.stop
          ELSE /\ wf # "present"
               /\ desired = Teardown
               /\ Teardown \in (IF opt.expect = Teardown THEN erred ELSE completed)

\* The controller never meets a workflow in Setup, or in a state between Setup
\* and Teardown, without its computes, with a breakdown whose servers are
\* missing, or with servers for a persistentdw directive (states.go setup).
AllocatedBeforeSetup ==
    own /\ desired \in Setup .. DataOut =>
        computes /\ servers = Breakdown \ PersistentDW

-----------------------------------------------------------------------------
(* Action properties. *)

\* Once a test has failed its workflow stays as the failure left it: neither
\* its desired state nor the resource is touched, so that it can be triaged
\* (the Failed() test of the deferred teardown).
KeepsEvidence == failed => desired' = desired /\ (wf = "present" => wf' = "present")

EvidencePreserved == [][KeepsEvidence]_vars

\* A workflow left over from an earlier run is never driven or deleted by a
\* test that has its name (BeforeEach: the teardown is registered only after
\* Create has succeeded).
KeepsLeftover == ~own /\ wf = "present" => wf' = "present" /\ desired' = desired

LeftoverUntouched == [][KeepsLeftover]_vars

\* States are skipped only on the way to Teardown, only by the deferred
\* teardown, and only for a test that expects an error.
SkipIsExpected ==
    desired' > desired + 1 =>
        desired' = Teardown /\ cleaning /\ ~failed /\ opt.expect # NoState

SkipsOnlyAfterExpectedError == [][SkipIsExpected]_vars

\* "Expect an error at the designed state; Proceed to teardown": a workflow
\* leaves the state in which its test expects an error for Teardown only,
\* unless a later StopAfter replaced the stop (options.go ExpectError).
ErrorGoesToTeardown ==
    own /\ ~mixed /\ desired = opt.expect /\ desired' # desired
        => desired' = Teardown

ProceedToTeardown == [][ErrorGoesToTeardown]_vars

\* Seen by the controller, the suite is a well-behaved driver of workflows.
Contract == Spec

\* Where the spec stands, seen from afar.
Stage ==
    IF pc \in {"build", "create"} THEN "before"
    ELSE IF pc = "done" \/ failed THEN "after" ELSE "running"

Outline == INSTANCE SpecOutline WITH stage <- Stage

\* A spec makes its workflow once, never takes over one of the same name, and
\* deletes it at most once, as its last act and only if it has not failed
\* (BeforeEach and DeferCleanup of int_test.go around Execute).
FollowsOutline == Outline!Spec

-----------------------------------------------------------------------------
(* Liveness, under Fairness. *)

\* Every spec ends, whatever the cluster does to it: no retry loop and no
\* poll goes on for ever, because each has a time-out.  (HealthyPasses is about
\* the specs none of whose time-outs expires.)
Terminates == faulty => <>(pc = "done")

\* The controller does not, for ever, write between the Get and the Update of
\* every single retry.
UpdatesGetThrough == SF_vars(AdvanceUpdate)

\* When no call fails and the drivers do what the test expects, every test
\* passes, whatever its options and however often its Updates conflict, and
\* comes to leave no workflow behind if it is to be torn down.
HealthyPasses ==
    ~faulty /\ UpdatesGetThrough =>
        <>(Passed /\ (ShouldTeardown(opt) => wf = "absent"))
=============================================================================
