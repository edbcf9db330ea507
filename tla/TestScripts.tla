----------------------------- MODULE TestScripts -----------------------------
(***************************************************************************)
(* What a test does to the objects of the cluster, as sequences of steps:   *)
(* T.Prepare, T.Execute with the deferred teardown, and T.Cleanup           *)
(* (internal/options.go).  Given the options of a test they are             *)
(* straight-line code.  SpecLifecycle interleaves the scripts of several    *)
(* tests with failures, TestBuilder derives the options from the calls that *)
(* make a test, and runs its script alone.                                  *)
(*                                                                         *)
(* t is a test and o its options: a record of names, or NoName, that        *)
(* storageProfile, containerProfile, persistentLustre and globalLustre have *)
(* and the create_persistent directive of the test (createPersistent), of   *)
(* mgsPool (a name and a count), externalMgs (is the MGS of the storage     *)
(* profile that of the persistent lustre?), copyIn, copyOut,                *)
(* cleanupPersistent and teardown.                                          *)
(***************************************************************************)
EXTENDS Naturals, SequencesExt

CONSTANT NoName  \* the name of nothing, and the owner of no object

\* What the scripts rely on: a global lustre is made from a persistent one, and
\* files are copied to and from a global lustre, and a
\* file system is destroyed that a directive has made.
WellFormed(o) ==
    /\ o.globalLustre # NoName => o.persistentLustre # NoName
    /\ o.externalMgs => o.storageProfile # NoName
    /\ o.copyIn \/ o.copyOut => o.globalLustre # NoName
    /\ o.cleanupPersistent => o.createPersistent # NoName
    /\ o.mgsPool.count \in Nat

\* The test's own directive does not make its persistent lustre once more.
Distinct(o) == o.createPersistent # NoName => o.createPersistent # o.persistentLustre

-----------------------------------------------------------------------------
(* The objects.  The code knows them by their names: the workflow and the   *)
(* helper pods have that of the test, all others one that an option or a    *)
(* directive gives, and any test may give.  (The k-th MGS of a pool is the  *)
(* pool's name with k: no other file system is taken to be called so.)      *)

Workflow(t)         == <<"workflow", t>>
CopyInPod(t)        == <<"copy-in pod", t>>
CopyOutPod(t)       == <<"copy-out pod", t>>
Profile(name)       == <<"storage profile", name>>
PoolProfile(o)      == Profile(o.mgsPool.name)
ContainerProfile(p) == <<"container profile", p>>
Persistent(name)    == <<"persistent lustre", name>>    \* its NnfStorage
FileSystem(o)       == Persistent(o.persistentLustre)
OwnFileSystem(o)    == Persistent(o.createPersistent)
MgsFileSystem(o, k) == <<"MGS", o.mgsPool.name, k>>
GlobalLustre(o)     == <<"global lustre", o.globalLustre>>
Creator(fs)         == <<"create workflow", fs>>
Destroyer(fs)       == <<"destroy workflow", fs>>

-----------------------------------------------------------------------------
(* Steps, and what they need of and do to the life of their object. *)

Create(o)        == <<[op |-> "create", obj |-> o]>>
Await(o)         == <<[op |-> "await", obj |-> o]>>      \* until it is ready
Delete(o)        == <<[op |-> "delete", obj |-> o]>>
Gone(o)          == <<[op |-> "gone", obj |-> o]>>       \* WaitForDeletion
Provision(o)     == <<[op |-> "provision", obj |-> o]>>  \* run create_persistent
Destroy(o)       == <<[op |-> "destroy", obj |-> o]>>    \* run destroy_persistent
Run(o)           == <<[op |-> "run", obj |-> o]>>        \* run a jobdw workflow
Pod(o)           == <<[op |-> "pod", obj |-> o]>>        \* runHelperPod's Create
\* Bug variant: the object is left to go in its own time.
DeleteNoWait(o)  == Delete(o)
DeleteAndWait(o) == Delete(o) \o Gone(o)

Makes(s)  == s.op \in {"create", "pod", "provision"}
Takes(s)  == s.op \in {"delete", "destroy"}

\* Deleting what is on its way out already succeeds.
CanDo(s, life) ==
    CASE Makes(s) \/ s.op = "gone"        -> life[s.obj] = "absent"
      [] s.op = "delete"                  -> life[s.obj] # "absent"
      [] s.op \in {"await", "run", "destroy"} -> life[s.obj] = "present"

After(s, life) ==
    IF Makes(s) THEN [life EXCEPT ![s.obj] = "present"]
    ELSE IF Takes(s) THEN [life EXCEPT ![s.obj] = "deleting"] ELSE life

\* The step can only wait, and hope, for a deletion to get on.
MayWait(s, life) == life[s.obj] = "deleting" /\ s.op \in {"gone", "await", "run"}

When(c, steps) == IF c THEN steps ELSE <<>>

\* Run a pod to completion.
HelperPod(o) == Pod(o) \o Await(o)

-----------------------------------------------------------------------------
(* The scripts. *)

\* Each MGS of the pool is made with a profile that is gone when it exists.
MgsPrepare(o, k) ==
    Create(Creator(MgsFileSystem(o, k)))
    \o Create(PoolProfile(o))
    \o Provision(MgsFileSystem(o, k))
    \o DeleteAndWait(PoolProfile(o))
    \o Delete(Creator(MgsFileSystem(o, k)))

PersistentPrepare(o) ==
    Create(Creator(FileSystem(o))) \o Provision(FileSystem(o)) \o Await(FileSystem(o))

\* Bug variant: the profile of an external MGS does not wait for its NID.
PrepareProfileFirst(t, o) ==
       When(o.storageProfile # NoName, Create(Profile(o.storageProfile)))
    \o When(o.persistentLustre # NoName, PersistentPrepare(o))
    \o When(o.globalLustre # NoName, Create(GlobalLustre(o)))
    \o When(o.copyIn, HelperPod(CopyInPod(t)))

Prepare(t, o) ==
       When(o.storageProfile # NoName /\ ~o.externalMgs, Create(Profile(o.storageProfile)))
    \o When(o.containerProfile # NoName, Create(ContainerProfile(o.containerProfile)))
    \o When(o.persistentLustre # NoName,
            PersistentPrepare(o) \o When(o.externalMgs, Create(Profile(o.storageProfile))))
    \o FlattenSeq([k \in 1 .. o.mgsPool.count |-> MgsPrepare(o, k)])
    \o When(o.globalLustre # NoName,
            Create(GlobalLustre(o)) \o When(o.copyIn, HelperPod(CopyInPod(t))))

\* A create_persistent directive makes its file system on the way to DataOut.
Execute(t, o) ==
       (IF o.createPersistent # NoName THEN Provision(OwnFileSystem(o)) ELSE Run(Workflow(t)))
    \o When(o.copyOut, HelperPod(CopyOutPod(t)))
    \o Run(Workflow(t))

Teardown(t, o) == When(o.teardown, Run(Workflow(t)) \o Delete(Workflow(t)))

MgsCleanup(o, k) ==
    LET fs == MgsFileSystem(o, k)
    IN  Create(Destroyer(fs)) \o Destroy(fs) \o DeleteAndWait(Destroyer(fs))

LustreCleanup(fs) ==
    Create(Destroyer(fs)) \o Destroy(fs) \o Gone(fs)
    \o DeleteAndWait(Creator(fs)) \o DeleteAndWait(Destroyer(fs))

\* Bug variant: the global lustre is left to the end.
CleanupGlobalLast(t, o, ps) ==
       FlattenSeq([k \in 1 .. Len(ps) |-> DeleteAndWait(ps[k])])
    \o When(o.persistentLustre # NoName, LustreCleanup(FileSystem(o)))
    \o When(o.storageProfile # NoName, DeleteAndWait(Profile(o.storageProfile)))
    \o When(o.globalLustre # NoName, DeleteAndWait(GlobalLustre(o)))

\* ps are the helper pods that the test has started.
Cleanup(t, o, ps) ==
    LET pi == OwnFileSystem(o) IN
       FlattenSeq([k \in 1 .. Len(ps) |-> DeleteAndWait(ps[k])])
    \o When(o.globalLustre # NoName, DeleteAndWait(GlobalLustre(o)))
    \o FlattenSeq([k \in 1 .. o.mgsPool.count |-> MgsCleanup(o, k)])
    \o When(o.cleanupPersistent,
            Create(Destroyer(pi)) \o Destroy(pi) \o DeleteAndWait(Destroyer(pi)))
    \o When(o.persistentLustre # NoName, LustreCleanup(FileSystem(o)))
    \o When(o.storageProfile # NoName, DeleteAndWait(Profile(o.storageProfile)))
    \o When(o.containerProfile # NoName, DeleteAndWait(ContainerProfile(o.containerProfile)))

\* What t.helperPods may hold when Cleanup runs.
HelperPods(t) ==
    {<<>>, <<CopyInPod(t)>>, <<CopyOutPod(t)>>, <<CopyInPod(t), CopyOutPod(t)>>}

\* The objects the steps of t are about.
Objects(t, o) ==
    {s.obj : s \in ToSet(Prepare(t, o) \o Create(Workflow(t)) \o Execute(t, o)
                         \o Cleanup(t, o, <<>>))}
=============================================================================
