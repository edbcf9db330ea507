# Verification of nnf-integration-test

TLA+ models, TLC runs and TLAPS proofs for the integration test suite of the
Near Node Flash software. The suite is a Ginkgo program that drives DWS
*workflows* on a shared Kubernetes cluster through their states, prepares and
cleans up what its tests need there, and decides whether the cluster is in a
state to be tested at all. Its errors are expensive in a particular way: a
suite that passes wrongly hides faults of the product, one that fails wrongly
closes a large machine, and one that cleans up wrongly destroys the evidence or
somebody else's file system. That is what the properties are about.

## 1. Inventory

| Component | Code | State | Operations | Modelled in |
|---|---|---|---|---|
| Workflow execution | `internal/states.go`, the `It` and the deferred teardown of `int_test.go`, steering options of `internal/options.go` | the workflow and the client's copy of it; `Computes`, `Servers`; the options `stopAfter`, `expectError` | `Execute`, seven state handlers, `AdvanceStateAndWaitForReady`, `waitForReady`, `waitForError`, `StopAfter`, `ExpectError`, `ShouldTeardown`, teardown | `WorkflowExecute`, `WorkflowContract`, `SpecOutline` |
| Test options, life of a spec | `internal/options.go`, `internal/utils.go`, `int_test.go` | the options; profiles, persistent and global lustre, MGS pool, helper pods in the cluster; `t.helperPods` | the `With...` builders, `Prepare`, `Cleanup`, `runHelperPod`, `CleanupHelperPods`, `WaitForDeletion`, `BeforeEach`, `DeferCleanup` | `TestBuilder`, `TestScripts`, `SpecLifecycle` |
| Suite set-up | `suite_test.go`, `internal/system.go`, `internal/utils.go`, `Makefile` | triage namespace, reservations, verification pods | `BeforeSuite`, `FailHandler`, `IsSystemInNeedOfTriage`, `SetSystemInNeedOfTriage`, `IsSystemReserved`, `VerifyUserOnRabbit`, `make clean` | `Suite` |
| Test list | `internal/internal.go`, `internal/options.go` | the list, the iterator, the copies | `MakeTest`, builders, `DuplicateTest`, `TestIterator`, `Next` | `TestList` |
| Container logs | `internal/utils.go`, `postRun` in `internal/states.go`, `ReportAfterEach` in `int_test.go` | none of its own; pods and their logs in the cluster | `findContainerPods`, `VerifyContainerPodLogs`, `ReportContainerPodLogs` | `ContainerLogs` |
| Fence test driver | `scripts/run_test_and_manage_cluster.sh`, `DelayInState` | position in the suite's output, services of the nodes | selection of nodes, event loop, start, fence, stop | `FenceRun` |
| Helper image | `helper_image/scripts` | files on global lustre | `copy-in.sh`, `copy-out.sh` | partly: the count of copies in `TestBuilder`, success or failure in `SpecLifecycle` |
| Server allocation | `findStorageServers` in `internal/states.go` | none | one pure function | its effect in `WorkflowExecute` |
| Manual teardown | `scripts/teardown.sh` | the cluster's workflows | patch, wait, delete | not modelled |
| Upgrade tester | `upgrade-tester/` | installed release | release loop, `wait_until_stable` | not modelled |
| System tests, CI, build tools | `system-test/`, `.github/`, `git-version-gen`, ... | - | - | not modelled |

How they interact. Ginkgo starts `-procs` processes. Each runs `BeforeSuite`,
then takes specs from a common queue, which `TestList` fills. A spec is
`Prepare`, the Create of the workflow, `Execute`, the deferred teardown and the
deferred `Cleanup`; all failures go through `FailHandler`, which creates the triage
namespace, and `--fail-fast` then stops the rest. The processes share nothing but the
cluster, and there nothing but *names*: nearly every interaction that goes wrong is
one process or an earlier run holding a name. The workflow controller, its drivers,
the API server and Ginkgo are not part of the repository; they are modelled from
how the code uses them and marked external in the map.

What is hard: the controller writes the workflow while the client is between
`Get` and `Update`; the status that is polled may belong to an earlier state;
calls fail half-way through `Prepare` or `Cleanup`; Ginkgo runs deferred
functions of failed and aborted specs too; deletion is asynchronous;
earlier runs leave objects; runs are interrupted; the pods of other workflows have
names that start the same; a script follows the suite by its output and races its
delays. `PROJECT.json` lists the hazards at their lines with the properties that cover them.

## 2. The modules

    WorkflowContract <--- WorkflowExecute ---> SpecOutline <--- SpecLifecycle
     (the controller's     (one spec in         (one spec        (all specs, their
      view)                 detail)              from afar)       objects, Ginkgo)
                                                                      |  EXTENDS
                                       TestBuilder ---EXTENDS--->  TestScripts

An arrow `<---` or `--->` without a label is a refinement that TLC checks and TLAPS proves.

### WorkflowContract, SpecOutline and WorkflowExecute

Two abstract specifications. `WorkflowContract` is what a workflow controller may
rely on from whoever drives a workflow: the desired state leaves a state only
after the controller has completed it or reported an error in it, moves to the
next state or to `Teardown`, and the resource is deleted only when `Teardown` is
over. `SpecOutline` is what the rest of the suite may rely on: a spec makes its workflow
if the name is free, and deletes it at most once, on its way out, and only if it has not
failed. Both `WorkflowExecute` and, for each of its tests, `SpecLifecycle` implement
`SpecOutline`; that is what allows the latter to take the run of a workflow for one step.

`WorkflowExecute` is one spec in detail. `pc` is the place of its goroutine,
`i` the state whose handler runs, `fresh` tells whether the client's copy has the
latest resource version, so that an `Update` succeeds exactly when the controller has
not written in between. `faulty`, chosen once for a behaviour, says whether calls may
fail, drivers err against expectation and time-outs expire. Correspondence:

| Actions | Code |
|---|---|
| `CallStopAfter`, `CallExpectError`, `Start` | the chain of builders in the test list, in any order and number |
| `CreateWorkflow`, `CreateFails` | second `BeforeEach` (`int_test.go` 274-278) |
| `AssignComputes`, `AssignServers`, `ServersAssigned` | `setup` |
| `AdvanceGet`, `AdvanceUpdate`, `AdvanceConflict` | the `Eventually` around Get and Update in `AdvanceStateAndWaitForReady` |
| `Poll` | `waitForReady`, `waitForError`, as `expectError` decides |
| `NextHandler` | the loop of `Execute` with its `stopAfter` |
| `AssertionFails`, `TimesOut` | an `Expect` that fails, an `Eventually` that expires |
| `TeardownStarts`, `TeardownSkipped`, `DeleteWorkflow` | the `DeferCleanup` of `int_test.go` 280-290 |
| `ControllerAccepts`, `DriverReports`, `DriversComplete`, `DriverErrs`, `DriverRecovers`, `BreakdownReady`, `WorkflowGone` | external |

`DelayInState` has no action of its own here: a step may take any time anyway. A read
error inside an `Eventually` ends the spec at once, because the code uses the
global `Expect` there; in `AssignServers` it is retried, because the code uses `g.Expect`.

### TestScripts and SpecLifecycle

Prepare and Cleanup are straight-line code. Given the options of a test they are
sequences of calls, and so they are *values* here: `Prepare(t, o)`, `Execute(t, o)`,
`Teardown(t, o)` and `Cleanup(t, o, pods)` are sequences of steps such as "create this
object" or "wait until that one is gone", written in the order of the Go code. `CanDo` and
`After` say what a step needs of, and does to, the life of its object. An object is what the code knows it by, its
name: workflow and helper pods have that of the test, profiles, persistent and global lustres, and the workflows that make
and destroy these, the one that an option or a directive gives, so that any two tests, or a test and an earlier run, may
mean the same object. One thing is simpler than in the code: the `k`-th MGS of a pool is the pair of the pool's name and `k`, and no
other file system is taken to be called so.

`SpecLifecycle` interleaves the scripts of several tests. `Call` is a step that succeeds;
`PhaseEnds` and `PhaseAfterFailure` are Ginkgo's sequence of nodes and
what is registered to run after a failure; `StepFails` fails a step that cannot
succeed (a name that is taken, an object that is missing), and on a faulty
cluster any step; `RunFails` is a workflow that fails after it has made or begun
to destroy its file system. `Start` and `Abort` are the parallel processes and
`--fail-fast`. `owner` is a history variable. `Exposed` are the file systems that a failed test with
`AndCleanupPersistentInstance` may destroy because they have the name in its directive, although it may have failed because the
name was taken: `DeletesOnlyOwn`, `PreparedFirst` and `DependentsGoFirst` except these, and nothing else.
`DistinctAssumption` leaves out a test whose directive makes the file system of its own persistent lustre once more, and
`ExternalMgsAssumption` one combination of options: an external MGS from a persistent lustre that the test does not have. `Prepare` then makes no
storage profile (`options.go` 350, 478) and `Cleanup` deletes one by its name, whosever it is; no such
test is in the list, and `TestBuilder`, which has both, shows that neither can work.

### TestBuilder

The chain of builder calls that makes a test, in any order and with repetitions, on
tests of several kinds: one action per builder of `options.go`, each with its panics.
What a chain is worth shows only when the test runs, so the module derives the options
that `TestScripts` takes and runs the whole script alone on an empty, healthy cluster
(`Works`). The calls take names, which may clash with each other and with those in the directives, and a pool any count.
`Sound` says what a chain must be like for a test that works; the run shows that the two agree for every chain that does not panic, and the proof that they do for chains of any length. `Grep` and `Accepts` are the check of `copy-out.sh`, with the
digits of the numbers it compares, because it looks for one number *within* the other.

### Suite

Runs of the whole suite, one after another. Every process goes through `Boot`,
`CheckTriage`, `CheckReservation`, then `VerifyCreate`, `VerifyWait`, `VerifyDelete`,
`VerifyGone` for one rabbit after the other, `VerifyReport`, and its specs
(`SpecsPass`, `SpecFails`). The pods have one name per rabbit, not per process, as
in the code. `FailHandler` and `AbortSuite` are the two ways to end early; the
former closes the cluster, the latter does not. People start, interrupt and
sweep (`StartRun`, `Interrupt`, `Clean`) and reserve (`Reserve`, `Release`). A namespace is
kept as one of the first name alone, of both, of the first name and more, or one
that has it further on: the pattern of `isReserved` has a start but no end, so that all
but the last reserve the cluster. `closedIn`, `swept`, `heldOff` and `podOwner` are history variables.

### TestList

From the written list to the sequence of specs: `Build` is one entry of the list
with its builders and `DuplicateTest` (which may panic), `NextPlain`, `NextCopy`,
`NoMoreCopies` and `NextNil` are the four ways through one turn of the iterator's
recursion.

### ContainerLogs

The end of `postRun` and the report of a failed spec. A name is the sequence of its parts
between dashes, so that "this hostname, or this hostname and a dash and more" is `IsPrefix`.
`VerifyContainerPodLogs` lists the pods once; `ReadClean`, `ReadBad` and `ReadNot` read their logs,
while `PodComes` and `PodGoes` change what there is. `bad`, the logs with an error of ssh, is chosen at
the start; `unread`, `listed` and `present`, the workflow's own pods at the time of the listing, are history variables.

### FenceRun

The script beside the suite. `Selections` is its choice of nodes, with the integer arithmetic of
the shell (`NumToFence`, `Split`); `ReadLine`, `Command`, `CommandFails` and `LineDone` are its event
loop, in which `clush` and `wait` return when all their nodes have, whatever became of them. The suite
(`SuiteDelays`, `SuiteGoesOn`) does not wait for the script. Its output is the standard input of the loop, and of every
`clush` that the loop runs in the foreground (`Foreground`: lines 129, 163, 187, 207; those in the background have none): `Swallow` is
such a `clush` reading what has been written by then. `read` counts the lines that are gone from the output, `line` is the
last that the script has seen, and `lost` are those it never will. `prompt` stands for delays that are long
enough: with it the suite goes on only when the script has caught up, without it at any time.

The bug variants ("Bug variant: ...", "As X, were ...") stand right before the
definition they vary. They are used by no specification; each shows that a
property can tell the code from a plausible mistake in it.

## 3. Runs

| Run | Question | Bounds |
|---|---|---|
| `execute` | Safety of a spec; does it implement `WorkflowContract` and `SpecOutline`? Does every spec end, and pass and clean up on a healthy cluster? | 3 breakdowns, one of them persistentdw, in the middle; every pair of options; healthy and faulty |
| `lifecycle_faulty` | Is what is made made in order, and what is deleted complete, the test's own and no longer lived on? Does each test implement `SpecOutline`? Does the suite end? | 2 processes; a test with all of data movement and an external MGS, one with a profile that is not torn down, one with the same profile whose directive makes and destroys a file system of the name of the first one's persistent lustre, a serial one that makes a file system of its own; at most one object left by an earlier run |
| `lifecycle_serial` | Do healthy tests disturb later ones? | 1 process, 6 tests of all kinds, one with two MGSs, every order |
| `suite` | Who gets past `BeforeSuite`, and what is left behind? Does a process of a healthy run fail for any other reason than another process? Does every run end without time-outs? | 2 processes, 2 rabbits, 2 runs, healthy and faulty, with and without `--ignore-reservation` |
| `list_iteration` | Does the iterator return what the list asks for, and come to an end? | lists of up to 3 entries of all kinds, 0 to 2 copies |
| `builder` | Which chains of builder calls make a test that works? Do missing copies ever pass? | chains of up to 4 calls, 8 lists of directives (one with two `copy_out`s, of which only the last decides where is looked), 2 names for the persistent lustre, one of them that of a directive, 2 for the pool, one of them that of a profile, pools of 0 or 2, 1 or 12 computes, up to 21 copies |
| `logs` | Are errors of ssh found, whatever pods come and go? Are just the workflow's own pods verified and reported? | 5 pods of 2 workflows, one of whose names starts with the other's; up to 2 bad logs |
| `fence` | Does the selection fit? Are nodes left as the lines read ask for, and changed in the right delay? | 3 nodes in every distribution over 2 rabbits, 5 percentages |

Observed while modelling, but contradicted by no text: the copies that `DuplicateTest` makes do
not get the user of `WithPermissions`; `AndCleanupPersistentInstance` destroys by name a file
system that its test may not have made, even one of another test, if the test has failed; a
`clush` that the cluster script runs in the foreground takes lines of the suite's output from the loop that is to read them one
by one, so that only delays that outlast the commands make sure that the script sees each line (`fence` has both); a process aborted while it verifies the user leaves its
pod behind, so that the next run fails until `make clean`. And one that hurts nothing in the model: the storage
profile made from the NID of a persistent lustre is deleted after that file system, against the
comment on `Cleanup` (`options.go` 556), but a profile is read only when a file system is made from it.

Why the bounds suffice. In `WorkflowExecute` the states and the options are
complete, only breakdowns are bounded, and the loop over them treats each
alike: three give a first, a middle and a last one. In `SpecLifecycle` interference is by name,
so that two tests on two processes show it, one pair by a profile and one by a file system; the others are there to meet
what two failed ones have left. A pool of two has a first MGS and a next one, which finds what the first has left. In `Suite` two processes and
two rabbits give every way to meet another process's pod, and two runs an earlier
and a later one. In `TestBuilder` what a builder does depends on at most one earlier call (the persistent
lustre, the storage profile), and four calls give each such pair with one before and one after it; of names only which are equal matters; 12 computes
against 1 are numbers one of which has the other's digit. In `ContainerLogs` the workflow has two launchers,
the reading of whose logs can be told apart, and a worker, beside a stranger; one container each, since the
code treats a pod's containers as it treats pods. In `FenceRun` three nodes give
every relation of the two rabbits' numbers, none and odd ones included. What the theorems
prove holds without these bounds.

Deadlock is not checked: every one of these systems stops when its work is done.

### Where the code and its documentation disagree

| Run | What it shows |
|---|---|
| `lifecycle_names` | Two tests of the list have one storage profile name and are not serialised: with `P=2` one of them fails on a healthy cluster. |
| `lifecycle_flaky` | `WaitForDeletion` takes any error for the end of the object; the comment in `Cleanup` says that the storage is fully deleted then. |
| `suite_parallel` | With `P=2` both processes verify the user with pods of one name: a healthy suite may fail in `BeforeSuite`, and closes the cluster. |
| `list_unique` | `hasComplexOptions` does not know the MGS pool, so that a test with one is duplicated and its copies collide. |

## 4. Fairness

- `WorkflowExecute`: the goroutine runs on (weak fairness of `Start`, of `Client`),
  every `Eventually` has a time-out (`TimesOut`), and the controller works
  (`Controller`). Drivers need not report or recover. The property of a healthy cluster, `HealthyPasses`, also assumes
  strong fairness of `AdvanceUpdate` (`UpdatesGetThrough`): the client retries its Update many times within
  its time-out and the controller does not write between Get and Update of every one.
- `SpecLifecycle`: something goes on as long as something can (`WF_vars(Next)`); no fairness
  between tests or objects is needed, since none takes infinitely many steps. Steps that cannot
  succeed fail: all waits of the code have time-outs.
- `Suite`: processes and pods go on; people do nothing of necessity.
- `TestList`: the program goes on.
- `ContainerLogs`, `FenceRun` and `TestBuilder` assume none: what they are asked is safety.

## 5. Proofs

Each proof module shows an inductive invariant, one step per action, and draws its theorems from it.

| Module | Proved, for every value of | Assumptions | What the invariant adds to the properties |
|---|---|---|---|
| `WorkflowExecute_proofs` | the breakdowns and the persistentdw among them: every safety and action property of `execute`, and both refinements | `BreakdownsAssumption` | what each program point knows: that the states before `i` are completed (or in error, where the test expects that); that the desired state is `i`, or the state before it until the Update; that computes and servers have been assigned up to `br`; that the workflow is there and the test's own |
| `TestScripts_proofs` | the options of a test: lemmas on `Prepare`, `Execute`, `Teardown` and `Cleanup`, on which the next module and `TestBuilder_proofs` rest | - | see below |
| `SpecLifecycle_proofs` | the tests, their options, the processes and what an earlier run has left: `CleanedUp`, `DeletesOnlyOwn`, `PreparedFirst`, `DependentsGoFirst`, `StorageGoneFirst`, `NoneFails`, type correctness, and that each test implements `SpecOutline` | `OptionsAssumption`, `ExternalMgsAssumption`, `DistinctAssumption`, `NoNameAssumption`, `ClusterAssumption`; `~Flaky` for `CleanedUp`, `DependentsGoFirst` and `StorageGoneFirst`; `Healthy` and finitely many tests for `NoneFails` | that a test stands where its scripts have led it, with the objects and pods that they have given it (`Placed`); for `NoneFails`, what the other tests are while one runs (`HInv`); see below |
| `Suite_proofs` | the processes, rabbits and runs: type correctness, `ClosedUntilTriaged`, `ReservationRespected`, `UserVerified`, `PodsTidiedUp`, `FailsOnlyForOthers` | `SuiteAssumption` | who is past the triage check of a run that closed the cluster (`GateInv`) or of a reserved one (`HoldInv`); that a process without a missing user has seen every rabbit before its own (`UserInv`); that the pod a process waits for is its own, and that it has deleted those before (`PodInv`); that on a healthy, swept cluster a pod is there only while the process that made it is busy with it (`HealthyInv`) |
| `FenceRun_proofs` | the nodes, their rabbits and the percentages: `SelectionFits`, `FencedLeftAlone`, `ChangedInDelay`, `LeftTidy`, type correctness | `NodeAssumption`, `PercentageAssumption` | what each node is between two lines, of those that were not lost (`ObeyInv`), that a line which is gone and was not read is lost, and the first never (`LostInv`), that a fenced node was selected (`FenceInv`), and that the suite waits in a delay while the script is at work, so that no line is there to be swallowed, if delays are long enough (`PaceInv`); for the selection, the arithmetic of `NumToFence` and `Split` |
| `TestList_proofs` | the list and the numbers of copies: type correctness, `CopiesBehaveAlike`, `RunsWhatIsAsked` | `ListAssumption` | that all that is built or returned is an entry's test or a copy of it, and that counters belong to tests; that what has been returned is the whole of what the tests before the iterator's ask for, and as much of its own as its counter says (`RunInv`) |
| `TestBuilder_proofs` | the directives, names, numbers of MGSs and the length of the chain: `WorksIffSound`, `MissingCopiesNoticed`, and `LastProfileCounts`, stated there (`builder` does not check it) | `BuilderAssumption` | what the last call of each kind makes of its option (`StorageInv`, `LustreInv`, `PoolInv`, `GlobalInv`, `CleanupInv`); see below; for the copies, that a number has the digits of another within its own only if it is as large |
| `ContainerLogs_proofs` | the pods, their names and containers: `ErrorsCaught`, `OwnPodsOnly` | `PodNames` and `NamedByMPI` | that logs are read only of pods that were found, and that a bad log of these is still to be read or could not be read (`BadInv`), and that all the workflow's own pods of the time are among them (`PresentInv`); for both, that a role stands in no name but right after the name of a workflow, so that a pod with the name of a host of the workflow is its own |

The invariants alone are mostly not inductive: that a passed test has its states
completed follows only from what held at each earlier wait, and that a node is stopped at the
end only from what it was after each line.

How `SpecLifecycle` is proved. A *shadow* (`Shadow`) is what a test knows of its own objects: those it
holds, those it has deleted that may still be there, and its helper pods. An annotation of a script gives the
shadows with which each of its steps may begin (`Annotates`), and `Leads(c, P, s, Q)` says that the script `s` has
one that takes the shadows of `P` to those of `Q` and obeys the rules `c`: nothing is made without what it needs, nothing
taken that is not the test's own or that something still lives on. A step that makes what the test has itself made
already cannot succeed, and is free of these (`Blocked`: it is only a profile that a test may make twice); a test that takes only what it has made, and whose MGS pool has
a profile of its own (`Clear`), is `sure` that there is no such step: as far as it lies with the test, each succeeds
(`Succeeds`). One rule for each way to put scripts together (`LeadsJoin`,
`LeadsWhen`, `LeadsFlatten`, ...) gives `PrepareLeads`, `CreateLeads`, `ExecuteLeads`, `TeardownLeads` and
`CleanupLeads` for all options at once; a spec that fails anywhere leaves a shadow in which `Cleanup` is still safe, so that
`CleanupLeads` starts from every such shadow (`Mid`) and not only from the end of a good run. `IInv` then says for each
test that its objects in the cluster match a shadow of the step it stands at, but for some that are `Exposed` (`Placed`, `Matches`), that it has none
before it starts (`Fresh`), what is left of the workflow (`WorkflowKept`), that a failed test is in its `Cleanup`
(`FailedLate`), and that everybody's objects are of his own scripts (`Own1`). The other tests cannot disturb that, whatever names they share with it, since
a step takes only what its own test holds, or what is `Exposed` and may be missed (`Spared`). A cluster that is `Flaky` lets `WaitForDeletion` end early; the test then does
not know what is on its way out, `Matches` says nothing of it, and `CleanedUp` and `DependentsGoFirst` are not claimed.
`StorageGone` is the other side of what `lifecycle_flaky` finds: on a cluster that is not `Flaky`,
`StorageGoneFirst` holds whatever else fails (`GoneInv`), so that its violation is the doing of `WaitForDeletion` alone.

`NoneFails` is the other half: each step can be taken, or only waits for a deletion (`StepWorks`). `Healthy` is what it needs:
no faults, nothing left over, `Clear` options, and `Exclusive`, that two tests which share a name never run together, since
there is one process or one of them is serial. `lifecycle_serial` satisfies it; the two XFS tests of `lifecycle_names` do
not, and one of them fails. Then what a running test needs the name of is its own or not there (`Mine`), by `HInv`: of the
others, those that run may run beside it, those that wait have made nothing, and those that are done have left only their workflow and
what `Cleanup` does not await (`Private`), of whose names `Healthy` has no other test make use.

How `WorksIffSound` is proved. The invariant gives every option in terms of the calls and the directives
(`OptionsOfCalls`), and `SoundMeans` splits `Sound` into what concerns the script and what concerns the copies. A script run
alone is a fold; `FoldTrace` makes it a sequence of steps and `EndJoin` takes it part by part. That a sound chain works is
`SoundRuns`: the lemmas on `PrepareLeads` to `CleanupLeads`, for a test that is `sure`, are carried over from the shadows to
the run (`StepRuns`, `LeadsRuns`). That no other does is shown by one object that is followed through the script (`Turns`,
`Holds`), whatever happens to the others: a profile with an external MGS from a persistent lustre that the test does not have
is never made, and `Cleanup` cannot delete it (`ExternalFails`); the profile of a pool that has the name of the storage
profile is there already when it is to be made (`TakenFails`); a persistent file system that no one cleans up is there at
the end (`OwnLeft`); a directive cannot make the persistent lustre that `Prepare` has made (`TwiceFails`).

`OwnPodsOnly` and `ErrorsCaught` rest on names, and `PodNames` says what they have to be: "launcher" and "worker" are in no name of a
workflow. `NamedByMPI` says that the pods of an MPI workflow are called so. `findContainerPods` does depend on that: a test "x launcher" beside an MPI test "x" has pods that start with
the name of the launcher's host of "x". No name in `int_test.go` is like that.

`FlattenSeq` joins a part for each helper pod, MGS or entry of a list. It is a recursive function, and the library's
induction theorems cannot be used of it; `Induction`, in `TestScripts_proofs`, is stated for a set in place of an
operator and rests on the least element that each set of numbers has.

Only model-checked: liveness, because the prover handles neither fairness nor `ENABLED`.

## 6. Not modelled

- `findStorageServers`: a pure function from the system configuration to labelled servers. Whether a selection is
  right is decided by the product; the repository says nothing of its result to check it against.
- `scripts/teardown.sh`: three loops over `kubectl` that print what they did and promise nothing.
- `upgrade-tester/`: a sequence of installations by tools of other repositories; `wait_until_stable` ends when
  those systems say so. The gitops maker edits files.
- Checksums in `copy-out.sh` and all of `copy-in.sh`: file I/O, of which only success or failure is kept.
- The contents of profiles, labels, decorators and reports; user and group of `WithPermissions`.
- System tests, continuous integration, build and version tools: straight lines of commands, configuration or I/O.
