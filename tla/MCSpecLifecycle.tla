-------------------------- MODULE MCSpecLifecycle --------------------------
(***************************************************************************)
(* SpecLifecycle for TLC.  The tests are those of int_test.go that differ  *)
(* in their options; two of them share a storage profile, as "XFS with     *)
(* Storage Profile" and "XFS with Storage Profile and LV Create" do.       *)
(***************************************************************************)
EXTENDS SpecLifecycle, TLC

CONSTANTS
    xfs, xfsLv,        \* with a storage profile, of one name
    gfs2,              \* with a storage profile of another
    lustreDm,          \* "Lustre with Data Movement"
    gfs2Dm,            \* the same without a storage profile
    container,         \* with a container profile, on hardware only
    persistent,        \* "Persistent Lustre", Serialized
    mgsPool,           \* "Lustre with MGS pool", with two of them
    stopped,           \* one that stops after PreRun, with a profile
    namesake,          \* one that makes and destroys a persistent file system
                       \* with the name of that of lustreDm
    myXfs, myGfs2, lustreProfile, poolUser, pool, containerProf,  \* profiles
    lustre, gfs2Lustre, ownLustre, global, gfs2Global   \* file systems

Plain ==
    [storageProfile |-> NoName, containerProfile |-> NoName, externalMgs |-> FALSE,
     persistentLustre |-> NoName, globalLustre |-> NoName, mgsPool |-> [name |-> NoName, count |-> 0],
     copyIn |-> FALSE, copyOut |-> FALSE,
     createPersistent |-> NoName, cleanupPersistent |-> FALSE,
     teardown |-> TRUE, serial |-> FALSE, hardwareRequired |-> FALSE]

DataMovement(fs, gl) ==
    [Plain EXCEPT !.persistentLustre = fs, !.globalLustre = gl,
                  !.copyIn = TRUE, !.copyOut = TRUE]

CreatePersistent(fs) ==
    [Plain EXCEPT !.createPersistent = fs, !.cleanupPersistent = TRUE]

MCTOptions ==
       xfs        :> [Plain EXCEPT !.storageProfile = myXfs]
    @@ xfsLv      :> [Plain EXCEPT !.storageProfile = myXfs]
    @@ gfs2       :> [Plain EXCEPT !.storageProfile = myGfs2]
    @@ stopped    :> [Plain EXCEPT !.storageProfile = myXfs, !.teardown = FALSE]
    @@ lustreDm   :> [DataMovement(lustre, global) EXCEPT !.externalMgs = TRUE, !.storageProfile = lustreProfile]
    @@ gfs2Dm     :> DataMovement(gfs2Lustre, gfs2Global)
    @@ container  :> [Plain EXCEPT !.containerProfile = containerProf, !.hardwareRequired = TRUE]
    @@ persistent :> [CreatePersistent(ownLustre) EXCEPT !.serial = TRUE]
    @@ namesake   :> [CreatePersistent(lustre) EXCEPT !.storageProfile = myXfs]
    @@ mgsPool    :> [Plain EXCEPT !.storageProfile = poolUser, !.mgsPool = [name |-> pool, count |-> 2]]

\* What an earlier run may have left: a profile, a workflow, a pod, a global
\* lustre, a persistent file system.
MCLeftovers ==
    {Profile(myXfs), Workflow(stopped), CopyOutPod(lustreDm), GlobalLustre(MCTOptions[lustreDm]),
     Persistent(lustre), Persistent(ownLustre)} \cap Object

NoLeftovers == {}
=============================================================================
