--------------------------- MODULE SpecLifecycle ---------------------------
(***************************************************************************)
(* The specs of one suite run and the objects they keep in the cluster:    *)
(* what T.Prepare creates before the workflow of a test, what T.Cleanup    *)
(* deletes after it (internal/options.go), and how Ginkgo strings both     *)
(* together with the workflow itself (int_test.go), on Procs parallel      *)
(* processes that share one cluster and its names.                         *)
(*                                                                         *)
(* Each test runs its script of TestScripts.  The run of a workflow through *)
(* its states is one step of it, which stands for WorkflowExecute: it       *)
(* succeeds, or it fails and leaves the workflow (both follow SpecOutline). *)
(***************************************************************************)
EXTENDS TestScripts, FiniteSets

CONSTANTS
    Test,      \* the tests of the suite
    TOptions,  \* their options, a record for each test
    Procs,     \* ginkgo -procs
    Faulty,    \* may a call fail, or a time-out expire?
    Flaky,     \* may a Get of WaitForDeletion fail while the object is there?
    Leftovers  \* the objects of which an earlier run may have left one

ASSUME OptionsAssumption == \A t \in Test : WellFormed(TOptions[t])

\* Without a persistent lustre Prepare would leave out the profile of an external
\* MGS that is to come from it (options.go:350, 478), and Cleanup delete one of
\* its name all the same: TestBuilder shows that such a test cannot work.
ASSUME ExternalMgsAssumption ==
    \A t \in Test : TOptions[t].externalMgs => TOptions[t].persistentLustre # NoName

\* Nor would one whose create_persistent directive makes a file system of the
\* name that WithPersistentLustre gives to it: the two of one test differ.
ASSUME DistinctAssumption == \A t \in Test : Distinct(TOptions[t])

ASSUME NoNameAssumption == NoName \notin Test

ASSUME ClusterAssumption ==
    Procs \in Nat \ {0} /\ Faulty \in BOOLEAN /\ Flaky \in BOOLEAN

VARIABLES
    phase,   \* where Ginkgo stands with each test
    n,       \* the step of that phase that comes next
    failed,  \* SpecReport.Failed() of each test
    pods,    \* t.helperPods of each test
    life,    \* every object of the cluster: "absent", "present", "deleting"
    owner,   \* history: the test that created the object
    kind     \* is the cluster a kind cluster, without hardware?

vars == <<phase, n, failed, pods, life, owner, kind>>

Object == UNION {Objects(t, TOptions[t]) : t \in Test}

-----------------------------------------------------------------------------
(* Ginkgo: the nodes of a spec, one after the other. *)

Script ==
    [t \in Test |->
        LET o == TOptions[t] IN
        [prepare |-> Prepare(t, o), create |-> Create(Workflow(t)),
         execute |-> Execute(t, o), teardown |-> Teardown(t, o),
         cleanup |-> [ps \in HelperPods(t) |-> Cleanup(t, o, ps)]]]

Steps(t) ==
    IF phase[t] = "cleanup" THEN Script[t].cleanup[pods[t]] ELSE Script[t][phase[t]]

NextPhase(ph) ==
    CASE ph = "prepare"  -> "create"
      [] ph = "create"   -> "execute"
      [] ph = "execute"  -> "teardown"
      [] ph = "teardown" -> "cleanup"
      [] ph = "cleanup"  -> "done"

\* DeferCleanup(Cleanup) is registered when Prepare has returned, and the
\* deferred teardown when Create has; a failed test is not torn down.
\* Bug variants: Cleanup is registered before Prepare, the teardown before Create.
PhaseAfterFailureEager(ph) == IF ph = "cleanup" THEN "done" ELSE "cleanup"
PhaseAfterFailureUndaunted(ph) == IF ph = "create" THEN "teardown" ELSE "done"
PhaseAfterFailure(ph) == IF ph \in {"prepare", "cleanup"} THEN "done" ELSE "cleanup"

Running == {t \in Test : phase[t] \notin {"waiting", "done"}}
Lost    == {t \in Test : phase[t] = "done" /\ failed[t]}

\* --fail-fast: a process that has reported a failed spec runs no other.
\* Serial specs come last, and one at a time.
Start(t) ==
    /\ phase[t] = "waiting"
    /\ Cardinality(Running) + Cardinality(Lost) < Procs
    /\ \A u \in Running : ~TOptions[u].serial
    /\ TOptions[t].serial =>
          /\ Running = {} /\ Lost = {}
          /\ \A u \in Test : phase[u] = "waiting" => TOptions[u].serial
    /\ phase' = [phase EXCEPT ![t] = "prepare"]
    /\ UNCHANGED <<n, failed, pods, life, owner, kind>>

Skips(t) == phase[t] = "prepare" /\ TOptions[t].hardwareRequired /\ kind

\* Prepare skips a test that needs hardware; nothing has been registered.
Skip(t) ==
    /\ Skips(t)
    /\ phase' = [phase EXCEPT ![t] = "done"]
    /\ UNCHANGED <<n, failed, pods, life, owner, kind>>

\* The spec fails where it stands.
Fails(t) ==
    /\ failed' = [failed EXCEPT ![t] = TRUE]
    /\ phase' = [phase EXCEPT ![t] = PhaseAfterFailure(@)]
    /\ n' = [n EXCEPT ![t] = 1]
    /\ UNCHANGED kind

\* --fail-fast (external, Ginkgo): a failed spec makes Ginkgo abort those that
\* run on the other processes, which still run what they have deferred.
Abort(t) ==
    /\ t \in Running /\ Lost # {}
    /\ Fails(t)
    /\ UNCHANGED <<pods, life, owner>>

-----------------------------------------------------------------------------
(* The steps of a test. *)

\* A step of the script comes next, and not the end of the phase.
Busy(t) == t \in Running /\ ~Skips(t) /\ n[t] <= Len(Steps(t))

Step(t) == Steps(t)[n[t]]

\* Bug variant: a pod is put on the list only once it has succeeded.
StartedLate(t) ==
    IF Step(t).op = "await" /\ Step(t).obj # FileSystem(TOptions[t])
    THEN Append(pods[t], Step(t).obj) ELSE pods[t]

\* The helper pods the test has to clean up after the step.
Started(t) == IF Step(t).op = "pod" THEN Append(pods[t], Step(t).obj) ELSE pods[t]

\* What the step does to the cluster.
Affects(t) ==
    /\ life' = After(Step(t), life)
    /\ owner' = IF Makes(Step(t)) THEN [owner EXCEPT ![Step(t).obj] = t] ELSE owner

\* WaitForDeletion waits for any error of Get, not just for NotFound.
Call(t) ==
    /\ Busy(t)
    /\ CanDo(Step(t), life) \/ (Flaky /\ Step(t).op = "gone")
    /\ Affects(t)
    /\ pods' = [pods EXCEPT ![t] = Started(t)]
    /\ n' = [n EXCEPT ![t] = @ + 1]
    /\ UNCHANGED <<phase, failed, kind>>

\* Bug variant: the next phase does not start with its first step.
PhaseEndsNoReset(t) ==
    /\ t \in Running /\ ~Skips(t)
    /\ n[t] > Len(Steps(t))
    /\ phase' = [phase EXCEPT ![t] = NextPhase(@)]
    /\ UNCHANGED <<n, failed, pods, life, owner, kind>>

PhaseEnds(t) ==
    /\ t \in Running /\ ~Skips(t)
    /\ n[t] > Len(Steps(t))
    /\ phase' = [phase EXCEPT ![t] = NextPhase(@)]
    /\ n' = [n EXCEPT ![t] = 1]
    /\ UNCHANGED <<failed, pods, life, owner, kind>>

\* The step cannot succeed as the cluster stands: the name is taken, or the
\* object is not there, or nobody is deleting what WaitForDeletion waits for.
Hopeless(t) == ~CanDo(Step(t), life) /\ ~MayWait(Step(t), life)

\* Bug variant: a Create that finds its name taken is tried again for ever.
StepFailsButCreate(t) ==
    /\ Busy(t) /\ Step(t).op # "create"
    /\ Hopeless(t) \/ Faulty
    /\ Fails(t)
    /\ UNCHANGED <<pods, life, owner>>

\* Such a step fails, and on a faulty cluster any step.
StepFails(t) ==
    /\ Busy(t)
    /\ Hopeless(t) \/ Faulty
    /\ Fails(t)
    /\ UNCHANGED <<pods, life, owner>>

\* A workflow that creates or destroys a file system fails half-way.
RunFails(t) ==
    /\ Faulty /\ Busy(t)
    /\ Step(t).op \in {"provision", "destroy"} /\ CanDo(Step(t), life)
    /\ Affects(t)
    /\ Fails(t)
    /\ UNCHANGED pods

-----------------------------------------------------------------------------
(* The cluster (external): a deleted object goes away some time later. *)

Vanish(o) ==
    /\ life[o] = "deleting"
    /\ life' = [life EXCEPT ![o] = "absent"]
    /\ UNCHANGED <<phase, n, failed, pods, owner, kind>>

-----------------------------------------------------------------------------
Init ==
    /\ phase = [t \in Test |-> "waiting"]
    /\ n = [t \in Test |-> 1]
    /\ failed = [t \in Test |-> FALSE]
    /\ pods = [t \in Test |-> <<>>]
    /\ \E left \in {{}} \cup {{o} : o \in Leftovers} :
          life = [o \in Object |-> IF o \in left THEN "present" ELSE "absent"]
    /\ owner = [o \in Object |-> NoName]
    /\ kind \in BOOLEAN

TestStep(t) ==
    Start(t) \/ Skip(t) \/ Call(t) \/ PhaseEnds(t) \/ StepFails(t) \/ RunFails(t) \/ Abort(t)

Next == (\E t \in Test : TestStep(t)) \/ (\E o \in Object : Vanish(o))

Spec == Init /\ [][Next]_vars

\* The processes and the cluster go on, no call blocks for ever.  Nothing is
\* assumed of who comes first: no test takes infinitely many steps.
FairSpec == Spec /\ WF_vars(Next)

-----------------------------------------------------------------------------
(* What the objects are to each other. *)

\* What the workflow of t relies on.
Prerequisites(t) ==
    LET o == TOptions[t] IN
    {p \in Object :
        \/ o.storageProfile # NoName /\ p = Profile(o.storageProfile)
        \/ o.containerProfile # NoName /\ p = ContainerProfile(o.containerProfile)
        \/ p \in {FileSystem(o), GlobalLustre(o)}
        \/ \E k \in 1 .. o.mgsPool.count : p = MgsFileSystem(o, k)}

\* Pairs of objects of t, the first of which needs the second all its life.
LivesOn(t) ==
    LET o == TOptions[t] IN
    ({Workflow(t)} \X Prerequisites(t))
    \cup {<<FileSystem(o), Creator(FileSystem(o))>>, <<GlobalLustre(o), FileSystem(o)>>}
    \cup ({CopyInPod(t), CopyOutPod(t)} \X {GlobalLustre(o)})

\* Pairs, the first of which needs the second to be made.
MadeFrom(t) ==
    LET o == TOptions[t] IN
    {<<OwnFileSystem(o), Workflow(t)>>}
    \cup (IF o.externalMgs THEN {<<Profile(o.storageProfile), FileSystem(o)>>} ELSE {})
    \cup UNION {{MgsFileSystem(o, k)} \X {PoolProfile(o), Creator(MgsFileSystem(o, k))}
                 : k \in 1 .. o.mgsPool.count}

Among(pairs) == {q \in pairs : q[1] \in Object /\ q[2] \in Object}

Lives == [t \in Test |-> Among(LivesOn(t))]
Bonds == [t \in Test |-> Among(LivesOn(t) \cup MadeFrom(t))]

\* What Cleanup, or Prepare, deletes without waiting for it to be gone.
NotAwaited(t) ==
    LET o == TOptions[t] IN
    {OwnFileSystem(o)}
    \cup {MgsFileSystem(o, k) : k \in 1 .. o.mgsPool.count}
    \cup {Creator(MgsFileSystem(o, k)) : k \in 1 .. o.mgsPool.count}

\* What a failed test with AndCleanupPersistentInstance may destroy by its name,
\* whosever it is: the test may have failed because the name was taken.
Exposed ==
    {OwnFileSystem(TOptions[u]) : u \in {v \in Test : failed[v] /\ TOptions[v].cleanupPersistent}}

Appearing(o) == life[o] = "absent" /\ life'[o] = "present"
Going(o)     == life[o] = "present" /\ life'[o] = "deleting"

-----------------------------------------------------------------------------
(* Properties. *)

\* Every test stands somewhere in the sequence of steps of its phase, and
\* every object is absent, there, or on its way out.
TypeOK ==
    /\ phase \in [Test -> {"waiting", "prepare", "create", "execute", "teardown",
                           "cleanup", "done"}]
    /\ \A t \in Test : /\ n[t] \in Nat \ {0}
                       /\ t \in Running => n[t] <= Len(Steps(t)) + 1
                       /\ pods[t] \in HelperPods(t)
    /\ failed \in [Test -> BOOLEAN]
    /\ life \in [Object -> {"absent", "present", "deleting"}]
    /\ owner \in [Object -> Test \cup {NoName}]
    /\ kind \in BOOLEAN

\* A Cleanup that gets to its end has undone Prepare, whatever became of the
\* test in between: of what the test has made, its workflow may be left, and
\* the file system of a create_persistent directive without
\* AndCleanupPersistentInstance, and what nobody waits for may still be on its
\* way out.
CleanedUp ==
    \A t \in Test : phase[t] = "cleanup" /\ n[t] > Len(Steps(t)) =>
        \A o \in Object : owner[o] = t /\ life[o] # "absent" =>
            \/ o = Workflow(t)
            \/ o = OwnFileSystem(TOptions[t]) /\ ~TOptions[t].cleanupPersistent
            \/ o \in NotAwaited(t) /\ life[o] = "deleting"

\* Names are all that Prepare and Cleanup know an object by, and the specs of
\* all processes and of earlier runs share them.  Yet no step takes away an
\* object of another test, or one that was there before: Create refuses a name
\* that is taken, and Cleanup runs only if Prepare has made everything.  The
\* exception is a file system of a name that a failed test is to destroy
\* (options.go AndCleanupPersistentInstance, Cleanup): the test may not have
\* made it, and once it has taken it away, the name may have a third owner when
\* its first one cleans up.
DeletesOnlyOwn ==
    [][\A t \in Test : <<phase[t], n[t]>>' # <<phase[t], n[t]>> =>
          \A o \in Object : Going(o) => owner[o] = t \/ o \in Exposed]_vars

\* A test makes nothing before what it needs is there, unless it has been taken
\* from it: "Prepare any necessary test conditions prior to creating the
\* workflow".
PreparedFirst ==
    [][\A t \in Test : \A q \in Bonds[t] :
          Appearing(q[1]) /\ owner'[q[1]] = t =>
             life[q[2]] = "present" \/ q[2] \in Exposed]_vars

\* The steps of Cleanup take nothing away that something else of the same test
\* still lives on.  The workflow of a test that has failed, or that is not to
\* be torn down, is the exception: Cleanup takes everything from under it.  So
\* is what the Cleanup of a failed test may destroy by name.
DependentsGoFirst ==
    [][\A t \in Test : \A q \in Lives[t] :
          Going(q[2]) /\ owner[q[1]] = t /\ owner[q[2]] = t /\ q[2] \notin Exposed =>
             IF q[1] = Workflow(t)
             THEN life[q[1]] = "present" => failed[t] \/ ~TOptions[t].teardown
             ELSE life[q[1]] = "absent"]_vars

\* "Wait for the NnfStorage to be fully deleted before continuing": when a test
\* has passed, the persistent file system that it has made is gone.
StorageGoneFirst ==
    \A t \in Test : phase[t] = "done" /\ ~failed[t] /\ TOptions[t].persistentLustre # NoName =>
        LET fs == FileSystem(TOptions[t]) IN owner[fs] = t => life[fs] = "absent"

Stage(t) ==
    IF phase[t] \in {"waiting", "prepare"} \/ (phase[t] = "create" /\ n[t] = 1)
    THEN "before"
    ELSE IF phase[t] \in {"cleanup", "done"} THEN "after" ELSE "running"

Outline(t) == INSTANCE SpecOutline WITH
    stage <- Stage(t), wf <- life[Workflow(t)], failed <- failed[t]

\* Whatever the other specs do meanwhile, each test treats the workflow of its
\* name as WorkflowExecute says: made once, never taken over from an earlier
\* run or from a failed Prepare, deleted only by its own teardown and only if
\* the test has not failed or been aborted.  (This is \A t \in Test :
\* Outline(t)!Spec, with the conjunction moved inside the box.)
FollowsOutline ==
    /\ \A t \in Test : Outline(t)!Init
    /\ [][\A t \in Test : [Outline(t)!Next]_(Outline(t)!ovars)]_vars

\* No spec fails on a healthy and clean cluster, in whatever order they run:
\* what a test deletes is out of the way before the next one needs its name.
NoneFails == \A t \in Test : ~failed[t]

\* The suite comes to an end: every spec is done, unless failures leave no
\* process to run it.
SuiteEnds ==
    <>[](\A t \in Test : \/ phase[t] = "done"
                         \/ phase[t] = "waiting" /\ Lost # {})
=============================================================================
